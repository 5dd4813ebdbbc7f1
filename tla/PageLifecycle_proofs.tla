------------------------ MODULE PageLifecycle_proofs ------------------------
(***************************************************************************)
(* What PageLifecycle says of the commands on goals, topics, objectives,   *)
(* themes and visions, for any processes, users, sessions, names, tasks,   *)
(* initial pages and keys, and any number of commands.                     *)
(*                                                                         *)
(* Every command is one Prepare step with some page e.  It is shown of     *)
(* each that e may follow the page (Follows); what that means for a step   *)
(* is shown once, of Prepare.                                              *)
(***************************************************************************)
EXTENDS PageLifecycle, SelectionFacts

USE PageNames, PagesGiven

Commands == {"none", "set", "dismiss", "clear", "approve", "complete",
             "force", "defer", "work-on", "add", "remove"}

PageKeys == {"status", "phase", "assignee", "claude_session_id",
             "metrics_sessions", "approved_by", "approved_at",
             "aborted_reason", "gate_successor", "completed", "defer_date",
             "tags", "goals", "blocked_by"}

\* As much of the type of a page as the theorems need.
IsPage(e) ==
    /\ DOMAIN e = PageKeys
    /\ e.claude_session_id \in Ids
    /\ e.metrics_sessions \in SUBSET Sessions

\* No session of e is lost in f.
SessionsKept(e, f) == Resolvable(e) \subseteq Resolvable(f)

\* f is approved if it leaves the inbox.
Vouched(e, f) ==
    e.phase = "todo" /\ f.phase = "planning"
        => f.approved_by # Nobody /\ f.approved_at

\* f is closed as a whole if it is closed.
Whole(e, f) ==
    f.status \in {"completed", "aborted"} \ {e.status}
        => /\ f.phase = "done"
           /\ f.status = "aborted" => f.aborted_reason /\ f.gate_successor

\* f may follow e by a command of kind c on a page of kind k.
Follows(c, k, e, f) ==
    /\ c \notin {"dismiss", "clear"} => SessionsKept(e, f)
    /\ Vouched(e, f)
    /\ k = "goal" => Whole(e, f)

\* Every task writes the page's name as every command does.
OneForm == \A l \in LinkForms, typed \in TypedForms : l = typed

TasksTyped == tasks \in [Tasks -> [status : TaskStatuses, link : LinkForms]]

NoOpenTask == \A t \in Tasks : tasks[t].status \notin OpenStatuses

\* The step of a command, whatever the command.
Prepares(p) ==
    \E c \in Commands, next \in {"write", "claim"} : \E e :
        /\ Prepare(p, c, next, e)
        /\ IsPage(e) /\ Follows(c, kind, page, e)
        /\ OneForm /\ c = "complete" => NoOpenTask

----------------------------------------------------------------------------
(* Pages.                                                                  *)

LEMMA PageIsPage == \A e \in Page : IsPage(e)
  BY DEF Page, IsPage, PageKeys

LEMMA BlankIsPage == IsPage(Blank) /\ DOMAIN Blank = PageKeys
  BY DEF Blank, IsPage, PageKeys, Ids

\* With replaces one field and keeps the others.
LEMMA WithPage ==
    ASSUME NEW e, IsPage(e), NEW key, NEW v,
           key = "claude_session_id" => v \in Ids,
           key = "metrics_sessions" => v \in SUBSET Sessions
    PROVE  /\ IsPage(With(e, key, v))
           /\ With(e, key, v).status = IF key = "status" THEN v ELSE e.status
           /\ With(e, key, v).phase = IF key = "phase" THEN v ELSE e.phase
           /\ With(e, key, v).claude_session_id = IF key = "claude_session_id" THEN v ELSE e.claude_session_id
           /\ With(e, key, v).metrics_sessions = IF key = "metrics_sessions" THEN v ELSE e.metrics_sessions
           /\ With(e, key, v).approved_by = IF key = "approved_by" THEN v ELSE e.approved_by
           /\ With(e, key, v).approved_at = IF key = "approved_at" THEN v ELSE e.approved_at
           /\ With(e, key, v).aborted_reason = IF key = "aborted_reason" THEN v ELSE e.aborted_reason
           /\ With(e, key, v).gate_successor = IF key = "gate_successor" THEN v ELSE e.gate_successor
  BY DEF With, IsPage, PageKeys

\* A field that the promises are not about does not break one.
LEMMA WithOther ==
    ASSUME NEW e, IsPage(e), NEW key, NEW v,
           key \notin {"status", "phase", "claude_session_id",
                       "metrics_sessions", "approved_by", "approved_at",
                       "aborted_reason", "gate_successor"},
           NEW c, NEW k
    PROVE  IsPage(With(e, key, v)) /\ Follows(c, k, e, With(e, key, v))
  BY WithPage DEF Follows, SessionsKept, Resolvable, Vouched, Whole

----------------------------------------------------------------------------
(* set.                                                                    *)

\* What a value may be, whatever the kind of page.
Settable(key, v) ==
    /\ key # "metrics_sessions"
    /\ key = "claude_session_id" => v \in Ids
    /\ key = "approved_by" => v \in Users
    /\ key = "approved_at" => v = TRUE

LEMMA GivenSettable ==
    ASSUME NEW key, NEW v \in GivenValues(key)
    PROVE  Settable(key, v)
  BY DEF GivenValues, Settable

LEMMA GoalSettable ==
    ASSUME NEW key, NEW v \in GoalValues(key)
    PROVE  Settable(key, v)
  BY GivenSettable DEF GoalValues, Settable

LEMMA TopicSettable ==
    ASSUME NEW key, NEW v \in TopicValues(key)
    PROVE  Settable(key, v)
  BY GivenSettable DEF TopicValues, Settable

\* The others have no phase.
LEMMA OtherSettable ==
    ASSUME NEW key,
           NEW v \in ObjectiveValues(key) \cup ThemeValues(key)
                        \cup VisionValues(key)
    PROVE  Settable(key, v) /\ key # "phase"
  BY GivenSettable DEF ObjectiveValues, ThemeValues, VisionValues,
     GivenValues, Settable

LEMMA SetFields ==
    ASSUME NEW d, IsPage(d), NEW key, NEW v, Settable(key, v)
    PROVE  /\ IsPage(SetTo(d, key, v))
           /\ SetTo(d, key, v).metrics_sessions =
                  d.metrics_sessions \cup Displaced(d, key, v)
           /\ SetTo(d, key, v).status =
                  IF key = "status" THEN v ELSE d.status
           /\ SetTo(d, key, v).phase =
                  IF key = "phase" THEN v ELSE d.phase
           /\ SetTo(d, key, v).claude_session_id =
                  IF key = "claude_session_id" THEN v ELSE d.claude_session_id
           /\ SetTo(d, key, v).approved_by =
                  IF key = "approved_by" THEN v ELSE d.approved_by
           /\ SetTo(d, key, v).approved_at =
                  IF key = "approved_at" THEN v ELSE d.approved_at
           /\ SetTo(d, key, v).aborted_reason =
                  IF key = "aborted_reason" THEN v ELSE d.aborted_reason
           /\ SetTo(d, key, v).gate_successor =
                  IF key = "gate_successor" THEN v ELSE d.gate_successor
<1>1. /\ IsPage(With(d, key, v))
      /\ With(d, key, v).metrics_sessions = d.metrics_sessions
  BY WithPage DEF Settable
<1>2. Displaced(d, key, v) \in SUBSET Sessions
  BY DEF Displaced
<1>3. /\ IsPage(SetTo(d, key, v))
      /\ SetTo(d, key, v).metrics_sessions =
             d.metrics_sessions \cup Displaced(d, key, v)
  BY <1>1, <1>2 DEF SetTo, IsPage, PageKeys
<1>4. \A k \in PageKeys \ {"metrics_sessions"} :
          SetTo(d, key, v)[k] = IF key = k THEN v ELSE d[k]
  BY DEF SetTo, With, IsPage, PageKeys
<1> QED
  BY <1>3, <1>4 DEF PageKeys

\* A session that is displaced stays on record.
LEMMA SetKeepsSessions ==
    ASSUME NEW d, IsPage(d), NEW e, IsPage(e), NEW key, NEW v,
           Settable(key, v), SetCommand(key, v) = "set",
           d.claude_session_id = e.claude_session_id,
           d.metrics_sessions = e.metrics_sessions
    PROVE  SessionsKept(e, SetTo(d, key, v))
<1>1. CASE key = "claude_session_id"
  <2>1. SetTo(d, key, v).claude_session_id = v /\ v # NoSid
    BY <1>1, SetFields DEF SetCommand
  <2> QED
    BY <1>1, <2>1, SetFields
       DEF SessionsKept, Resolvable, Displaced, IsPage, Ids
<1>2. CASE key # "claude_session_id"
  <2>1. SetTo(d, key, v).claude_session_id = e.claude_session_id
    BY <1>2, SetFields
  <2> QED
    BY <2>1, SetFields DEF SessionsKept, Resolvable
<1> QED
  BY <1>1, <1>2

\* What closes a goal touches its phase, reason and successor only.
LEMMA CloseOutFields ==
    ASSUME NEW e, IsPage(e), NEW key, NEW v, NEW why, NEW heir
    PROVE  LET f == CloseOut(e, key, v, why, heir)
           IN  /\ IsPage(f)
               /\ f.claude_session_id = e.claude_session_id
               /\ f.metrics_sessions = e.metrics_sessions
               /\ f.status = e.status
               /\ f.approved_by = e.approved_by
               /\ f.approved_at = e.approved_at
               /\ f.phase = IF key = "status" /\ v \in {"aborted", "completed"}
                            THEN "done" ELSE e.phase
  BY DEF CloseOut, IsPage, PageKeys

\* Only `set phase` can leave the inbox, and it does not.
LEMMA SetVouched ==
    ASSUME NEW d, IsPage(d), NEW e, NEW key, NEW v, Settable(key, v),
           d.phase \in {e.phase, "done"}, ~LeavesInbox(e, key, v)
    PROVE  Vouched(e, SetTo(d, key, v))
<1>1. SetTo(d, key, v).phase = IF key = "phase" THEN v ELSE d.phase
  BY SetFields
<1> QED
  BY <1>1 DEF Vouched, LeavesInbox

LEMMA GoalSetWhole ==
    ASSUME NEW e, IsPage(e), NEW key, NEW v, Settable(key, v),
           NEW why \in BOOLEAN, NEW heir \in BOOLEAN,
           key = "status" /\ v = "aborted"
               => MayAbort(CloseOut(e, key, v, why, heir))
    PROVE  Whole(e, SetTo(CloseOut(e, key, v, why, heir), key, v))
<1> DEFINE d == CloseOut(e, key, v, why, heir)
           f == SetTo(d, key, v)
<1>1. CASE key = "status"
  <2>1. f.status = v /\ f.phase = d.phase
    BY <1>1, CloseOutFields, SetFields
  <2>2. v \in {"aborted", "completed"} => f.phase = "done"
    BY <1>1, <2>1, CloseOutFields
  <2>3. v = "aborted" => f.aborted_reason /\ f.gate_successor
    <3>1. /\ f.aborted_reason = d.aborted_reason
          /\ f.gate_successor = d.gate_successor
      BY <1>1, CloseOutFields, SetFields
    <3> QED
      BY <1>1, <3>1 DEF MayAbort
  <2> QED
    BY <2>1, <2>2, <2>3 DEF Whole
<1>2. CASE key # "status"
  <2>1. f.status = e.status
    BY <1>2, CloseOutFields, SetFields
  <2> QED
    BY <2>1 DEF Whole
<1> QED
  BY <1>1, <1>2

\* `set` on a goal.
LEMMA GoalSetPrepares ==
    ASSUME IsPage(page), NEW p \in Procs, GoalSet(p)
    PROVE  Prepares(p)
<1>1. PICK key \in SetKeys, why \in BOOLEAN, heir \in BOOLEAN :
        \E v \in GoalValues(key) :
            /\ ~LeavesInbox(page, key, v)
            /\ key = "status" /\ v = "aborted"
                   => MayAbort(CloseOut(page, key, v, why, heir))
            /\ Prepare(p, SetCommand(key, v), "write",
                       SetTo(CloseOut(page, key, v, why, heir), key, v))
  BY DEF GoalSet
<1>2. PICK v \in GoalValues(key) :
            /\ ~LeavesInbox(page, key, v)
            /\ key = "status" /\ v = "aborted"
                   => MayAbort(CloseOut(page, key, v, why, heir))
            /\ Prepare(p, SetCommand(key, v), "write",
                       SetTo(CloseOut(page, key, v, why, heir), key, v))
  BY <1>1
<1> DEFINE d == CloseOut(page, key, v, why, heir)
           f == SetTo(d, key, v)
           c == SetCommand(key, v)
<1>3. Settable(key, v)
  BY <1>2, GoalSettable
<1>4. /\ IsPage(d) /\ d.phase \in {page.phase, "done"}
      /\ d.claude_session_id = page.claude_session_id
      /\ d.metrics_sessions = page.metrics_sessions
  BY CloseOutFields
<1>5. c \in {"set", "dismiss"}
  BY DEF SetCommand
<1>6. c = "set" => SessionsKept(page, f)
  BY <1>3, <1>4, SetKeepsSessions
<1>7. Vouched(page, f)
  BY <1>2, <1>3, <1>4, SetVouched
<1>8. Whole(page, f)
  BY <1>2, <1>3, GoalSetWhole
<1>9. IsPage(f)
  BY <1>3, <1>4, SetFields
<1> QED
  BY <1>2, <1>5, <1>6, <1>7, <1>8, <1>9 DEF Prepares, Follows, Commands

\* ... on a topic,
LEMMA TopicSetPrepares ==
    ASSUME IsPage(page), NEW p \in Procs, TopicSet(p)
    PROVE  Prepares(p)
<1>1. PICK key \in SetKeys : \E v \in TopicValues(key) :
            /\ kind = "topic"
            /\ ~LeavesInbox(page, key, v)
            /\ Prepare(p, SetCommand(key, v), "write",
                       SetTo(page, key, v))
  BY Zenon DEF TopicSet
<1>2. PICK v \in TopicValues(key) :
            /\ kind = "topic"
            /\ ~LeavesInbox(page, key, v)
            /\ Prepare(p, SetCommand(key, v), "write",
                       SetTo(page, key, v))
  BY <1>1
<1> DEFINE f == SetTo(page, key, v)
           c == SetCommand(key, v)
<1>3. Settable(key, v)
  BY <1>2, TopicSettable
<1>4. c \in {"set", "dismiss"}
  BY DEF SetCommand
<1>5. c = "set" => SessionsKept(page, f)
  BY <1>3, SetKeepsSessions
<1>6. Vouched(page, f) /\ IsPage(f)
  BY <1>2, <1>3, SetVouched, SetFields
<1> QED
  BY <1>2, <1>4, <1>5, <1>6 DEF Prepares, Follows, Commands

\* ... and on the other pages.
LEMMA OtherSetPrepares ==
    ASSUME IsPage(page), NEW p \in Procs, OtherSet(p)
    PROVE  Prepares(p)
<1>1. PICK key \in SetKeys \ {"claude_session_id"} :
           \E v \in ObjectiveValues(key) \cup ThemeValues(key)
                        \cup VisionValues(key) :
            kind # "goal" /\ Prepare(p, "set", "write", With(page, key, v))
  BY DEF OtherSet
<1>2. PICK v \in ObjectiveValues(key) \cup ThemeValues(key)
                     \cup VisionValues(key) :
            kind # "goal" /\ Prepare(p, "set", "write", With(page, key, v))
  BY <1>1
<1> DEFINE f == With(page, key, v)
<1>3. Settable(key, v) /\ key # "phase"
  BY <1>2, OtherSettable
<1>4. IsPage(f) /\ SessionsKept(page, f) /\ f.phase = page.phase
  BY <1>1, <1>3, WithPage DEF Settable, SessionsKept, Resolvable
<1>5. Vouched(page, f)
  BY <1>4 DEF Vouched
<1> QED
  BY <1>2, <1>4, <1>5 DEF Prepares, Follows, Commands

----------------------------------------------------------------------------
(* clear, the lists, approve, complete, defer and work-on.                 *)

LEMMA ClearPrepares ==
    ASSUME IsPage(page), NEW p \in Procs, Clear(p)
    PROVE  Prepares(p)
<1>1. PICK key \in ClearKeys :
        Prepare(p, "clear", "write", With(page, key, Blank[key]))
  BY DEF Clear
<1> DEFINE f == With(page, key, Blank[key])
<1>2. /\ Blank.claude_session_id \in Ids /\ Blank.metrics_sessions = {}
      /\ Blank.phase = "none" /\ Blank.status = "none"
  BY DEF Blank, Ids
<1>3. /\ IsPage(f)
      /\ f.phase \in {page.phase, "none"} /\ f.status \in {page.status, "none"}
  BY <1>2, WithPage
<1>4. Vouched(page, f) /\ Whole(page, f)
  BY <1>3 DEF Vouched, Whole
<1> QED
  BY <1>1, <1>3, <1>4 DEF Prepares, Follows, Commands

\* The promises are not about lists.
LEMMA ListPrepares ==
    ASSUME IsPage(page), NEW p \in Procs,
           NEW key \in {"tags", "goals", "blocked_by"}, ListCommand(p, key)
    PROVE  Prepares(p)
<1>1. PICK c \in {"add", "remove"} : \E v :
        Prepare(p, c, "write", With(page, key, v))
  BY DEF ListCommand
<1>2. PICK v : Prepare(p, c, "write", With(page, key, v))
  BY <1>1
<1>3. /\ IsPage(With(page, key, v))
      /\ Follows(c, kind, page, With(page, key, v))
  BY WithOther
<1> QED
  BY <1>2, <1>3 DEF Prepares, Commands

LEMMA ApprovePrepares ==
    ASSUME IsPage(page), NEW p \in Procs, Approve(p)
    PROVE  Prepares(p)
<1>1. PICK approver \in Users :
        Prepare(p, "approve", "write", Approved(page, approver))
  BY DEF Approve
<1> DEFINE f == Approved(page, approver)
<1>2. IsPage(f) /\ Follows("approve", kind, page, f)
  BY DEF Approved, IsPage, PageKeys, Follows, SessionsKept, Resolvable,
     Vouched, Whole
<1> QED
  BY <1>1, <1>2 DEF Prepares, Commands

LEMMA CompletePrepares ==
    ASSUME IsPage(page), TasksTyped, NEW p \in Procs, CompleteGoal(p)
    PROVE  Prepares(p)
<1> DEFINE Closed(why, heir) ==
        [page EXCEPT !.status = "completed", !.phase = "done",
                     !.completed = TRUE,
                     !.aborted_reason = @ \/ why,
                     !.gate_successor = @ \/ heir]
<1>1. PICK typed \in TypedForms, force \in BOOLEAN, why \in BOOLEAN,
           heir \in BOOLEAN :
        /\ force \/ OpenTasks(typed) = {}
        /\ Prepare(p, IF force THEN "force" ELSE "complete", "write",
                   Closed(why, heir))
  BY DEF CompleteGoal
<1> DEFINE f == Closed(why, heir)
           c == IF force THEN "force" ELSE "complete"
<1>2. IsPage(f) /\ Follows(c, kind, page, f)
  BY DEF IsPage, PageKeys, Follows, SessionsKept, Resolvable, Vouched, Whole
<1>3. OneForm /\ c = "complete" => NoOpenTask
  BY <1>1 DEF OneForm, NoOpenTask, OpenTasks, Linked, TasksTyped
<1>4. c \in Commands
  BY DEF Commands
<1> QED
  BY <1>1, <1>2, <1>3, <1>4 DEF Prepares

LEMMA DeferPrepares ==
    ASSUME IsPage(page), NEW p \in Procs, Defer(p)
    PROVE  Prepares(p)
<1>1. /\ IsPage([page EXCEPT !.defer_date = TRUE])
      /\ Follows("defer", kind, page, [page EXCEPT !.defer_date = TRUE])
  BY DEF IsPage, PageKeys, Follows, SessionsKept, Resolvable, Vouched, Whole
<1> QED
  BY <1>1 DEF Defer, Prepares, Commands

\* Objectives and topics close without a phase.
LEMMA CloseOthersPrepares ==
    ASSUME IsPage(page), NEW p \in Procs,
           CompleteObjective(p) \/ CompleteTopic(p)
    PROVE  Prepares(p)
<1>1. CASE CompleteObjective(p)
  <2> DEFINE f == [page EXCEPT !.status = "completed", !.completed = TRUE]
  <2>1. IsPage(f) /\ SessionsKept(page, f) /\ Vouched(page, f)
    BY DEF IsPage, PageKeys, SessionsKept, Resolvable, Vouched
  <2> QED
    BY <1>1, <2>1 DEF CompleteObjective, Prepares, Follows, Commands
<1>2. CASE CompleteTopic(p)
  <2> DEFINE f == [page EXCEPT !.status = "completed"]
  <2>1. IsPage(f) /\ SessionsKept(page, f) /\ Vouched(page, f)
    BY DEF IsPage, PageKeys, SessionsKept, Resolvable, Vouched
  <2> QED
    BY <1>2, <2>1 DEF CompleteTopic, Prepares, Follows, Commands
<1> QED
  BY <1>1, <1>2

LEMMA WorkOnPrepares ==
    ASSUME IsPage(page), NEW p \in Procs, WorkOn(p)
    PROVE  Prepares(p)
<1>1. PICK user \in Users :
        Prepare(p, "work-on", "claim", Claimed(page, user))
  BY DEF WorkOn
<1> DEFINE f == Claimed(page, user)
<1>2. IsPage(f) /\ Follows("work-on", kind, page, f)
  BY DEF Claimed, IsPage, PageKeys, Follows, SessionsKept, Resolvable,
     Vouched, Whole
<1> QED
  BY <1>1, <1>2 DEF Prepares, Commands

----------------------------------------------------------------------------
(* The invariant.                                                          *)

Shape ==
    /\ IsPage(page) /\ TasksTyped
    /\ DOMAIN mem = Procs /\ \A p \in Procs : IsPage(mem[p])
    /\ pc \in [Procs -> {"idle", "write", "claim", "turn", "bind"}]
    /\ cmd \in [Procs -> Commands]
    /\ sid \in [Procs -> Sessions \cup {NoSid}]
    /\ fresh \in [Procs -> BOOLEAN] /\ listed \in [Procs -> BOOLEAN]
    /\ intact \in BOOLEAN

\* What is about to be written from an up to date copy may follow the page.
PendingFollows ==
    \A p \in Procs :
        fresh[p] /\ pc[p] \in {"write", "claim", "bind"}
            => Follows(cmd[p], kind, page, mem[p])

\* A work-on is about to write the session it started.
BindsOwn ==
    \A p \in Procs :
        /\ pc[p] = "turn" => sid[p] \in Sessions
        /\ pc[p] = "bind" => sid[p] \in Resolvable(mem[p])

\* What is about to complete the goal saw no open task.
CompletesClosed ==
    \A p \in Procs : OneForm /\ cmd[p] = "complete" /\ listed[p] => NoOpenTask

IInv == /\ Shape /\ PendingFollows /\ BindsOwn /\ CompletesClosed
        /\ SessionsResolvable

LEMMA InitIInv == Init => IInv
<1> SUFFICES ASSUME Init PROVE IInv
  OBVIOUS
<1>1. IsPage(page)
  BY PageIsPage DEF Init
<1>2. Shape
  BY <1>1, BlankIsPage DEF Init, Shape, TasksTyped, TaskStatuses,
     OpenStatuses, Commands
<1>3. SessionsResolvable
  BY DEF Init, SessionsResolvable
<1> QED
  BY <1>2, <1>3 DEF Init, IInv, PendingFollows, BindsOwn, CompletesClosed

\* A command is prepared.
LEMMA PrepareKeeps ==
    ASSUME IInv, NEW p \in Procs, Prepares(p)
    PROVE  IInv'
<1>1. PICK c \in Commands, next \in {"write", "claim"} : \E e :
        /\ Prepare(p, c, next, e)
        /\ IsPage(e) /\ Follows(c, kind, page, e)
        /\ OneForm /\ c = "complete" => NoOpenTask
  BY DEF Prepares
<1>2. PICK e :
        /\ Prepare(p, c, next, e)
        /\ IsPage(e) /\ Follows(c, kind, page, e)
        /\ OneForm /\ c = "complete" => NoOpenTask
  BY <1>1
<1> USE DEF IInv
<1>3. UNCHANGED <<kind, page, tasks, sid, bound, intact>>
  BY <1>2 DEF Prepare
<1>4. Shape'
  BY <1>2, <1>3 DEF Prepare, Shape, TasksTyped, IsPage
<1>5. PendingFollows'
  <2> SUFFICES ASSUME NEW q \in Procs, fresh'[q],
                      pc'[q] \in {"write", "claim", "bind"}
               PROVE  Follows(cmd'[q], kind', page', mem'[q])
    BY DEF PendingFollows, Follows, SessionsKept, Resolvable, Vouched, Whole
  <2>1. CASE q = p
    <3>1. cmd'[q] = c /\ mem'[q] = e
      BY <1>2, <2>1 DEF Prepare, Shape
    <3> QED
      BY <1>2, <1>3, <3>1
  <2>2. CASE q # p
    <3>1. /\ cmd'[q] = cmd[q] /\ mem'[q] = mem[q]
          /\ pc'[q] = pc[q] /\ fresh'[q] = fresh[q]
      BY <1>2, <2>2 DEF Prepare, Shape
    <3> QED
      BY <1>3, <3>1 DEF PendingFollows
  <2> QED
    BY <2>1, <2>2
<1>6. BindsOwn'
  BY <1>2, <1>3 DEF Prepare, Shape, BindsOwn, Resolvable
<1>7. CompletesClosed'
  BY <1>2, <1>3 DEF Prepare, Shape, CompletesClosed, NoOpenTask
<1>8. SessionsResolvable'
  BY <1>3 DEF SessionsResolvable, Resolvable
<1> QED
  BY <1>4, <1>5, <1>6, <1>7, <1>8

\* A write makes every other copy old, and loses no session unless it was from
\* an old copy itself, or asked to.
LEMMA ReplaceKeeps ==
    ASSUME IInv, NEW p \in Procs, Replace(p),
           pc[p] \in {"write", "claim", "bind"}
    PROVE  /\ IsPage(page') /\ TasksTyped' /\ intact' \in BOOLEAN
           /\ DOMAIN mem' = Procs /\ \A q \in Procs : IsPage(mem'[q])
           /\ cmd' \in [Procs -> Commands]
           /\ fresh' = [q \in Procs |-> FALSE]
           /\ listed' \in [Procs -> BOOLEAN]
           /\ CompletesClosed'
           /\ intact' => intact /\ SessionsKept(page, page')
           /\ \A q \in Procs \ {p} : mem'[q] = mem[q]
<1> USE DEF IInv
<1>1. /\ IsPage(page') /\ TasksTyped' /\ intact' \in BOOLEAN
      /\ DOMAIN mem' = Procs /\ \A q \in Procs : IsPage(mem'[q])
      /\ cmd' \in [Procs -> Commands]
      /\ fresh' = [q \in Procs |-> FALSE]
      /\ listed' \in [Procs -> BOOLEAN]
      /\ \A q \in Procs \ {p} : mem'[q] = mem[q]
  BY BlankIsPage DEF Replace, Shape, TasksTyped, IsPage, Commands
<1>2. CompletesClosed'
  BY DEF Replace, Shape, CompletesClosed, NoOpenTask
<1>3. intact' => intact /\ fresh[p] /\ cmd[p] \notin {"dismiss", "clear"}
  BY DEF Replace
<1>4. intact' => SessionsKept(page, page')
  BY <1>3 DEF Replace, PendingFollows, Follows
<1> QED
  BY <1>1, <1>2, <1>3, <1>4

LEMMA WriteKeeps ==
    ASSUME IInv, NEW p \in Procs, Write(p)
    PROVE  IInv'
<1>1. pc[p] = "write" /\ Replace(p)
  BY DEF Write
<1>2. /\ pc' = [pc EXCEPT ![p] = "idle"] /\ UNCHANGED <<sid, used, bound>>
  BY DEF Write
<1>3. Shape' /\ PendingFollows' /\ CompletesClosed'
  BY <1>1, <1>2, ReplaceKeeps DEF IInv, Shape, PendingFollows
<1>4. BindsOwn'
  BY <1>1, <1>2, ReplaceKeeps DEF IInv, Shape, BindsOwn, Resolvable
<1>5. SessionsResolvable'
  BY <1>1, <1>2, ReplaceKeeps DEF IInv, SessionsResolvable, SessionsKept
<1> QED
  BY <1>3, <1>4, <1>5 DEF IInv

\* The claim: the session that starts, if one does, is a uuid.
LEMMA ClaimKeeps ==
    ASSUME IInv, NEW p \in Procs, Claim(p)
    PROVE  IInv'
<1>1. pc[p] = "claim" /\ Replace(p) /\ UNCHANGED bound
  BY DEF Claim
<1>2. \/ pc' = [pc EXCEPT ![p] = "idle"] /\ UNCHANGED sid
      \/ \E s \in Sessions : /\ pc' = [pc EXCEPT ![p] = "turn"]
                             /\ sid' = [sid EXCEPT ![p] = s]
  BY DEF Claim, Starts
<1>3. Shape' /\ PendingFollows' /\ CompletesClosed'
  <2>1. /\ pc' \in [Procs -> {"idle", "write", "claim", "turn", "bind"}]
        /\ sid' \in [Procs -> Sessions \cup {NoSid}]
    BY <1>2 DEF IInv, Shape
  <2> QED
    BY <1>1, <2>1, ReplaceKeeps DEF Shape, PendingFollows
<1>4. BindsOwn'
  <2> SUFFICES ASSUME NEW q \in Procs
               PROVE  /\ pc'[q] = "turn" => sid'[q] \in Sessions
                      /\ pc'[q] = "bind" => sid'[q] \in Resolvable(mem'[q])
    BY DEF BindsOwn, Resolvable
  <2>1. CASE q = p
    BY <1>2, <2>1 DEF IInv, Shape
  <2>2. CASE q # p
    <3>1. pc'[q] = pc[q] /\ sid'[q] = sid[q] /\ mem'[q] = mem[q]
      BY <1>1, <1>2, <2>2, ReplaceKeeps DEF IInv, Shape
    <3> QED
      BY <3>1 DEF IInv, BindsOwn
  <2> QED
    BY <2>1, <2>2
<1>5. SessionsResolvable'
  BY <1>1, ReplaceKeeps DEF IInv, SessionsResolvable, SessionsKept
<1> QED
  BY <1>3, <1>4, <1>5 DEF IInv

\* Binding a session loses none, and s can be found.
LEMMA BoundFollows ==
    ASSUME NEW e, IsPage(e), NEW s \in Sessions, NEW c, NEW k
    PROVE  /\ IsPage(Bound(e, s)) /\ Follows(c, k, e, Bound(e, s))
           /\ s \in Resolvable(Bound(e, s))
<1>1. CASE e.claude_session_id = NoSid
  BY <1>1 DEF Bound, IsPage, PageKeys, Ids, Follows, SessionsKept,
     Resolvable, Vouched, Whole
<1>2. CASE e.claude_session_id = s
  BY <1>2 DEF Bound, IsPage, Follows, SessionsKept, Resolvable, Vouched,
     Whole
<1>3. CASE e.claude_session_id \notin {NoSid, s}
  BY <1>3 DEF Bound, IsPage, PageKeys, Follows, SessionsKept, Resolvable,
     Vouched, Whole
<1> QED
  BY <1>1, <1>2, <1>3

\* The turn has ended, and the page is read again.
LEMMA RereadKeeps ==
    ASSUME IInv, NEW p \in Procs, Rereads(p, Bound(page, sid[p]))
    PROVE  IInv'
<1> DEFINE e == Bound(page, sid[p])
<1> USE DEF IInv
<1>1. sid[p] \in Sessions
  BY DEF Rereads, BindsOwn
<1>2. /\ IsPage(e) /\ Follows(cmd[p], kind, page, e)
      /\ sid[p] \in Resolvable(e)
  BY <1>1, BoundFollows DEF Shape
<1> HIDE DEF e
<1>3. /\ pc' = [pc EXCEPT ![p] = "bind"] /\ mem' = [mem EXCEPT ![p] = e]
      /\ fresh' = [fresh EXCEPT ![p] = TRUE]
      /\ UNCHANGED <<kind, page, tasks, cmd, sid, listed, bound, intact>>
  BY DEF Rereads, e
<1>4. Shape'
  BY <1>2, <1>3 DEF Shape, TasksTyped, IsPage
<1>5. \A q \in Procs :
          IF q = p THEN pc'[q] = "bind" /\ mem'[q] = e
          ELSE pc'[q] = pc[q] /\ mem'[q] = mem[q] /\ fresh'[q] = fresh[q]
  BY <1>3 DEF Shape
<1>6. PendingFollows'
  <2> SUFFICES ASSUME NEW q \in Procs, fresh'[q],
                      pc'[q] \in {"write", "claim", "bind"}
               PROVE  Follows(cmd'[q], kind', page', mem'[q])
    BY DEF PendingFollows, Follows, SessionsKept, Resolvable, Vouched, Whole
  <2>1. CASE q = p
    BY <1>2, <1>3, <1>5, <2>1
  <2>2. CASE q # p
    BY <1>3, <1>5, <2>2 DEF PendingFollows
  <2> QED
    BY <2>1, <2>2
<1>7. BindsOwn'
  <2> SUFFICES ASSUME NEW q \in Procs
               PROVE  /\ pc'[q] = "turn" => sid'[q] \in Sessions
                      /\ pc'[q] = "bind" => sid'[q] \in Resolvable(mem'[q])
    BY DEF BindsOwn, Resolvable
  <2> QED
    BY <1>2, <1>3, <1>5 DEF BindsOwn
<1>8. CompletesClosed' /\ SessionsResolvable'
  BY <1>3 DEF CompletesClosed, NoOpenTask, SessionsResolvable, Resolvable
<1> QED
  BY <1>4, <1>6, <1>7, <1>8

\* The session is bound, and can be found from the page from then on.
LEMMA BindKeeps ==
    ASSUME IInv, NEW p \in Procs, Bind(p)
    PROVE  IInv'
<1>1. /\ pc[p] = "bind" /\ Replace(p)
      /\ pc' = [pc EXCEPT ![p] = "idle"]
      /\ bound' = bound \cup {sid[p]}
      /\ sid' = [sid EXCEPT ![p] = NoSid]
  BY DEF Bind
<1>2. Shape' /\ PendingFollows' /\ CompletesClosed'
  <2>1. /\ pc' \in [Procs -> {"idle", "write", "claim", "turn", "bind"}]
        /\ sid' \in [Procs -> Sessions \cup {NoSid}]
    BY <1>1 DEF IInv, Shape
  <2> QED
    BY <1>1, <2>1, ReplaceKeeps DEF Shape, PendingFollows
<1>3. BindsOwn'
  <2> SUFFICES ASSUME NEW q \in Procs
               PROVE  /\ pc'[q] = "turn" => sid'[q] \in Sessions
                      /\ pc'[q] = "bind" => sid'[q] \in Resolvable(mem'[q])
    BY DEF BindsOwn, Resolvable
  <2>1. CASE q = p
    BY <1>1, <2>1 DEF IInv, Shape
  <2>2. CASE q # p
    <3>1. pc'[q] = pc[q] /\ sid'[q] = sid[q] /\ mem'[q] = mem[q]
      BY <1>1, <2>2, ReplaceKeeps DEF IInv, Shape
    <3> QED
      BY <3>1 DEF IInv, BindsOwn
  <2> QED
    BY <2>1, <2>2
<1>4. SessionsResolvable'
  <2> SUFFICES ASSUME intact'
               PROVE  bound' \subseteq Resolvable(page')
    BY DEF SessionsResolvable, Resolvable
  <2>1. bound \subseteq Resolvable(page')
    BY <1>1, ReplaceKeeps DEF IInv, SessionsResolvable, SessionsKept
  <2>2. sid[p] \in Resolvable(page')
    BY <1>1 DEF IInv, BindsOwn, Replace
  <2> QED
    BY <1>1, <2>1, <2>2
<1> QED
  BY <1>2, <1>3, <1>4 DEF IInv

\* A dropped command and a task's move leave the page alone.
LEMMA DropKeeps ==
    ASSUME IInv, NEW p \in Procs, Drop(p)
    PROVE  IInv'
<1> USE DEF IInv
<1>1. UNCHANGED <<kind, page, tasks, bound, intact>>
  BY DEF Drop
<1>2. Shape'
  BY <1>1, BlankIsPage DEF Drop, Shape, TasksTyped, IsPage, Commands
<1>3. \A q \in Procs :
          IF q = p THEN pc'[q] = "idle" /\ cmd'[q] = "none"
          ELSE /\ pc'[q] = pc[q] /\ mem'[q] = mem[q] /\ cmd'[q] = cmd[q]
               /\ fresh'[q] = fresh[q] /\ listed'[q] = listed[q]
               /\ sid'[q] = sid[q]
  BY DEF Drop, Shape
<1>4. PendingFollows' /\ BindsOwn'
  BY <1>1, <1>3 DEF PendingFollows, BindsOwn, Follows, SessionsKept,
     Resolvable, Vouched, Whole
<1>5. CompletesClosed' /\ SessionsResolvable'
  BY <1>1, <1>3 DEF CompletesClosed, NoOpenTask, SessionsResolvable,
     Resolvable
<1> QED
  BY <1>2, <1>4, <1>5

LEMMA TaskKeeps ==
    ASSUME IInv, TaskMoves
    PROVE  IInv'
<1> USE DEF IInv
<1>1. /\ listed' = [p \in Procs |-> FALSE]
      /\ UNCHANGED <<kind, page, pc, cmd, mem, sid, fresh, bound, intact>>
  BY DEF TaskMoves
<1>2. TasksTyped'
  BY DEF TaskMoves, Shape, TasksTyped
<1>3. Shape' /\ CompletesClosed'
  BY <1>1, <1>2 DEF Shape, CompletesClosed, IsPage
<1>4. PendingFollows' /\ BindsOwn' /\ SessionsResolvable'
  BY <1>1 DEF PendingFollows, BindsOwn, SessionsResolvable, Follows,
     SessionsKept, Resolvable, Vouched, Whole
<1> QED
  BY <1>3, <1>4

LEMMA StutterKeeps ==
    ASSUME IInv, UNCHANGED vars
    PROVE  IInv'
<1>1. UNCHANGED <<kind, page, tasks, pc, cmd, mem, sid, fresh, listed, bound,
                  intact>>
  BY DEF vars
<1>2. Shape' /\ CompletesClosed'
  BY <1>1 DEF IInv, Shape, TasksTyped, IsPage, CompletesClosed, NoOpenTask
<1>3. PendingFollows' /\ BindsOwn' /\ SessionsResolvable'
  BY <1>1 DEF IInv, PendingFollows, BindsOwn, SessionsResolvable, Follows,
     SessionsKept, Resolvable, Vouched, Whole
<1> QED
  BY <1>2, <1>3 DEF IInv

\* Every step of a process but these five prepares a command.
LEMMA StepCases ==
    ASSUME IInv, Next
    PROVE  \/ \E p \in Procs :
                  \/ Prepares(p) \/ Write(p) \/ Drop(p) \/ Claim(p) \/ Bind(p)
                  \/ Rereads(p, Bound(page, sid[p]))
           \/ TaskMoves
<1> USE DEF IInv, Shape
<1>1. ASSUME NEW p \in Procs, GoalSet(p) \/ TopicSet(p) \/ OtherSet(p)
      PROVE  Prepares(p)
  BY <1>1, GoalSetPrepares, TopicSetPrepares, OtherSetPrepares
<1>2. ASSUME NEW p \in Procs, GoalList(p) \/ TagsList(p) \/ TaskList(p)
      PROVE  Prepares(p)
  BY <1>2, ListPrepares DEF GoalList, TagsList, TaskList
<1>3. ASSUME NEW p \in Procs,
             Clear(p) \/ GoalApprove(p) \/ TopicApprove(p) \/ GoalDefer(p)
                \/ TopicDefer(p) \/ GoalWorkOn(p) \/ TopicWorkOn(p)
      PROVE  Prepares(p)
  BY <1>3, ClearPrepares, ApprovePrepares, DeferPrepares, WorkOnPrepares
     DEF GoalApprove, TopicApprove, GoalDefer, TopicDefer, GoalWorkOn,
         TopicWorkOn
<1>4. ASSUME NEW p \in Procs,
             CompleteGoal(p) \/ CompleteObjective(p) \/ CompleteTopic(p)
      PROVE  Prepares(p)
  BY <1>4, CompletePrepares, CloseOthersPrepares
<1>5. ASSUME NEW p \in Procs, GoalTurnEnds(p) \/ TopicTurnEnds(p)
      PROVE  Rereads(p, Bound(page, sid[p]))
  BY <1>5 DEF GoalTurnEnds, TopicTurnEnds, TopicBound
<1> QED
  BY <1>1, <1>2, <1>3, <1>4, <1>5 DEF Next

LEMMA Inductive == Spec => []IInv
<1>1. IInv /\ [Next]_vars => IInv'
  BY StepCases, PrepareKeeps, WriteKeeps, DropKeeps, ClaimKeeps, BindKeeps,
     RereadKeeps, TaskKeeps, StutterKeeps
<1> QED
  BY InitIInv, <1>1, PTL DEF Spec

----------------------------------------------------------------------------
(* The theorems.                                                           *)

\* As long as no page is written from an old copy and nobody drops an id, every
\* session that goal or topic work-on reported can be found from the page
\* (goal_workon.go:171-217, frontmatter_entity.go:142-201).
THEOREM BoundSessionsKept == Spec => []SessionsResolvable
  BY Inductive, PTL DEF IInv

\* A write changes the page to what its process prepared.
LEMMA FreshWrite ==
    ASSUME IInv, NEW p \in Procs, Fresh(p)
    PROVE  page' = mem[p] /\ Follows(cmd[p], kind, page, page')
  BY DEF Fresh, Writes, Replace, IInv, PendingFollows

\* No command takes a goal or topic from the inbox to planning without a record
\* of who approved it (goal_approve.go:96-129, frontmatter_entity.go:392-453).
THEOREM ApprovalGate == Spec => ApprovalRecorded
<1>1. IInv /\ [Next]_vars =>
        [\A p \in Procs :
            Fresh(p) /\ page.phase = "todo" /\ page'.phase = "planning"
            => page'.approved_by # Nobody /\ page'.approved_at]_vars
  BY FreshWrite DEF Follows, Vouched
<1> QED
  BY <1>1, Inductive, PTL DEF Spec, ApprovalRecorded

\* Whatever command closes a goal ends its phases, and one that aborts it leaves
\* reason and successor (goal_frontmatter.go:149-174, goal_complete.go:52-141,
\* frontmatter_entity.go:213-248).
THEOREM GoalClosedWhole == Spec => ClosedWhole
<1>1. ASSUME IInv, NEW p \in Procs, Fresh(p), kind = "goal",
             page'.status \in {"completed", "aborted"} \ {page.status}
      PROVE  /\ page'.phase = "done"
             /\ page'.status = "aborted" =>
                    page'.aborted_reason /\ page'.gate_successor
  BY <1>1, FreshWrite DEF Follows, Whole
<1>2. IInv /\ [Next]_vars =>
        [\A p \in Procs :
           /\ Fresh(p) /\ kind = "goal"
           /\ page'.status \in {"completed", "aborted"} \ {page.status}
           => /\ page'.phase = "done"
              /\ page'.status = "aborted" =>
                     page'.aborted_reason /\ page'.gate_successor]_vars
  BY <1>1
<1> QED
  BY <1>2, Inductive, PTL DEF Spec, ClosedWhole

\* If every task writes the goal's name as every command does, a goal completed
\* without force while no task moves has no open task (goal_complete.go:143-192).
THEOREM CompletedClosed ==
    ASSUME OneForm
    PROVE  Spec => CompletionJustified
<1>1. ASSUME IInv, NEW p \in Procs,
             Writes(p), cmd[p] = "complete", listed[p]
      PROVE  \A t \in Tasks : tasks[t].status \notin OpenStatuses
  BY <1>1 DEF IInv, CompletesClosed, NoOpenTask
<1>2. IInv /\ [Next]_vars =>
        [\A p \in Procs :
           Writes(p) /\ cmd[p] = "complete" /\ listed[p]
           => \A t \in Tasks : tasks[t].status \notin OpenStatuses]_vars
  BY <1>1
<1> QED
  BY <1>2, Inductive, PTL DEF Spec, CompletionJustified

----------------------------------------------------------------------------
(* Types, and what a page is blocked by.                                   *)

Typed(key, v) ==
    /\ key = "status" => v \in Statuses
    /\ key = "phase" => v \in GoalPhases \cup {"none"}
    /\ key = "assignee" => v \in Users \cup {Nobody}
    /\ key = "claude_session_id" => v \in Ids
    /\ key = "metrics_sessions" => v \in SUBSET Sessions
    /\ key = "approved_by" => v \in Users \cup {Nobody}
    /\ key \in {"approved_at", "aborted_reason", "gate_successor",
                "completed", "defer_date"} => v \in BOOLEAN
    /\ key \in {"tags", "goals", "blocked_by"} =>
           v \in Value("list") \cup Value("text")

LEMMA WithTyped ==
    ASSUME NEW e \in Page, NEW key, NEW v, Typed(key, v)
    PROVE  /\ With(e, key, v) \in Page
           /\ key # "blocked_by" => With(e, key, v).blocked_by = e.blocked_by
           /\ key = "blocked_by" => With(e, key, v).blocked_by = v
<1> DEFINE f == With(e, key, v)
<1>1. f = [k \in PageKeys |-> IF k = key THEN v ELSE e[k]]
  BY DEF With, Page, PageKeys
<1>2. \A k \in PageKeys : f[k] = IF k = key THEN v ELSE e[k]
  BY <1>1
<1>3. f = [status |-> f.status, phase |-> f.phase, assignee |-> f.assignee,
           claude_session_id |-> f.claude_session_id,
           metrics_sessions |-> f.metrics_sessions,
           approved_by |-> f.approved_by, approved_at |-> f.approved_at,
           aborted_reason |-> f.aborted_reason,
           gate_successor |-> f.gate_successor, completed |-> f.completed,
           defer_date |-> f.defer_date, tags |-> f.tags, goals |-> f.goals,
           blocked_by |-> f.blocked_by]
  BY <1>1 DEF PageKeys
<1> HIDE DEF f
<1>4. /\ f.status \in Statuses /\ f.phase \in GoalPhases \cup {"none"}
      /\ f.assignee \in Users \cup {Nobody} /\ f.claude_session_id \in Ids
      /\ f.metrics_sessions \in SUBSET Sessions
      /\ f.approved_by \in Users \cup {Nobody}
  BY <1>2 DEF Typed, Page, PageKeys
<1>5. /\ f.approved_at \in BOOLEAN /\ f.aborted_reason \in BOOLEAN
      /\ f.gate_successor \in BOOLEAN /\ f.completed \in BOOLEAN
      /\ f.defer_date \in BOOLEAN
  BY <1>2 DEF Typed, Page, PageKeys
<1>6. /\ f.tags \in Value("list") \cup Value("text")
      /\ f.goals \in Value("list") \cup Value("text")
      /\ f.blocked_by \in Value("list") \cup Value("text")
  BY <1>2 DEF Typed, Page, PageKeys
<1>7. f \in Page
  BY <1>3, <1>4, <1>5, <1>6 DEF Page
<1> QED
  BY <1>2, <1>7 DEF f, PageKeys

\* A text or a list of one item at most, as `set` stores it.
LEMMA TextsTyped ==
    ASSUME NEW v \in Texts \cup Split
    PROVE  v \in Value("list") \cup Value("text")
<1>1. PICK s \in SeqOf(Names, 1) : v = Text(s) \/ v = List(s)
  BY DEF Texts, Split
<1>2. s \in Seq(Names)
  <2>1. PICK m \in 0..1 : s \in [1..m -> Names]
    BY DEF SeqOf
  <2> QED
    BY <2>1
<1> QED
  BY <1>1, <1>2 DEF Value, Text, List

LEMMA BlankTyped == Blank \in Page /\ \A key \in PageKeys : Typed(key, Blank[key])
<1>1. List(<<>>) \in Value("list")
  BY DEF List, Value
<1>2. "none" \in Statuses
  BY DEF Statuses
<1> QED
  BY <1>1, <1>2 DEF Blank, Page, PageKeys, Typed, Ids

LEMMA GivenTyped ==
    ASSUME NEW key, NEW v \in GivenValues(key)
    PROVE  Typed(key, v)
<1>1. CASE key \in {"blocked_by", "goals"}
  <2>1. v \in Texts
    BY <1>1 DEF GivenValues
  <2> QED
    BY <1>1, <2>1, TextsTyped DEF Typed
<1>2. CASE key \notin {"blocked_by", "goals"}
  BY <1>2 DEF GivenValues, Typed
<1> QED
  BY <1>1, <1>2

LEMMA ValuesTyped ==
    ASSUME NEW key,
           NEW v \in GoalValues(key) \cup TopicValues(key)
                   \cup ObjectiveValues(key) \cup ThemeValues(key)
                   \cup VisionValues(key)
    PROVE  Typed(key, v)
<1>1. CASE key = "tags"
  <2>1. v \in Texts \cup Split
    BY <1>1 DEF GoalValues, TopicValues, ObjectiveValues, ThemeValues,
                VisionValues
  <2> QED
    BY <1>1, <2>1, TextsTyped DEF Typed
<1>2. CASE key \in {"status", "phase", "completed", "defer_date"}
  BY <1>2, GivenTyped DEF GoalValues, TopicValues, ObjectiveValues,
           ThemeValues, VisionValues, Typed, Statuses, GivenValues
<1>3. CASE key \notin {"tags", "status", "phase", "completed", "defer_date"}
  BY <1>3, GivenTyped DEF GoalValues, TopicValues, ObjectiveValues,
           ThemeValues, VisionValues
<1> QED
  BY <1>1, <1>2, <1>3

\* f keeps what e is blocked by, or the command says that it does not.
BlockersFollow(c, k, e, f) ==
    k \in {"goal", "task"} /\ c \notin {"remove", "clear"} =>
        \/ f.blocked_by = Text(<<>>)
        \/ \A i \in DOMAIN e.blocked_by.items :
               Contains(f.blocked_by.items, e.blocked_by.items[i])

LEMMA ItemsAre ==
    ASSUME NEW v \in Value("list") \cup Value("text")
    PROVE  /\ v.items \in Seq(Names) /\ DOMAIN v.items = 1..Len(v.items)
           /\ v.form \in {"list", "text"}
  BY DEF Value

LEMMA SameBlockers ==
    ASSUME NEW e \in Page, NEW f, f.blocked_by = e.blocked_by, NEW c, NEW k
    PROVE  BlockersFollow(c, k, e, f)
<1>1. e.blocked_by \in Value("list") \cup Value("text")
  BY DEF Page
<1>2. DOMAIN e.blocked_by.items = 1..Len(e.blocked_by.items)
  BY <1>1, ItemsAre
<1> QED
  BY <1>2 DEF BlockersFollow, Contains

\* The step of a command, of its types and of what the page is blocked by.
TypedPrepares(p) ==
    \E c \in Commands, next \in {"write", "claim"} : \E e \in Page :
        /\ Prepare(p, c, next, e)
        /\ BlockersFollow(c, kind, page, e)
        /\ used \subseteq used' /\ used' \subseteq Sessions

LEMMA SetToTyped ==
    ASSUME NEW d \in Page, NEW key, NEW v, Typed(key, v)
    PROVE  /\ SetTo(d, key, v) \in Page
           /\ \A e \in Page : \A c, k :
                  /\ e.blocked_by = d.blocked_by
                  /\ key = "blocked_by" => v = Text(<<>>)
                  => BlockersFollow(c, k, e, SetTo(d, key, v))
<1> DEFINE w == With(d, key, v)
           f == SetTo(d, key, v)
<1>1. /\ w \in Page
      /\ key # "blocked_by" => w.blocked_by = d.blocked_by
      /\ key = "blocked_by" => w.blocked_by = v
  BY WithTyped
<1>2. Displaced(d, key, v) \in SUBSET Sessions
  BY DEF Displaced
<1>3. f = [w EXCEPT !.metrics_sessions = @ \cup Displaced(d, key, v)]
  BY DEF SetTo
<1> HIDE DEF w, f
<1>4. f \in Page /\ f.blocked_by = w.blocked_by
  BY <1>1, <1>2, <1>3 DEF Page
<1>5. ASSUME NEW e \in Page, NEW c, NEW k, e.blocked_by = d.blocked_by,
             key = "blocked_by" => v = Text(<<>>)
      PROVE  BlockersFollow(c, k, e, f)
  <2>1. CASE key = "blocked_by"
    BY <1>1, <1>4, <1>5, <2>1 DEF BlockersFollow
  <2>2. CASE key # "blocked_by"
    BY <1>1, <1>4, <1>5, <2>2, SameBlockers
  <2> QED
    BY <2>1, <2>2
<1> QED
  BY <1>4, <1>5 DEF f

\* A page at the end of its phases.
EndedWith(e, reason, heir) ==
    [e EXCEPT !.aborted_reason = reason, !.gate_successor = heir,
              !.phase = "done"]

LEMMA EndedTyped ==
    ASSUME NEW e \in Page, NEW reason \in BOOLEAN, NEW heir \in BOOLEAN
    PROVE  /\ EndedWith(e, reason, heir) \in Page
           /\ EndedWith(e, reason, heir).blocked_by = e.blocked_by
<1> DEFINE a == With(e, "aborted_reason", reason)
           b == With(a, "gate_successor", heir)
           c == With(b, "phase", "done")
<1>1. /\ Typed("aborted_reason", reason) /\ Typed("gate_successor", heir)
      /\ Typed("phase", "done")
  BY DEF Typed, GoalPhases
<1>2. EndedWith(e, reason, heir) = c
  BY DEF EndedWith, With, Page
<1>3. a \in Page /\ a.blocked_by = e.blocked_by
  BY <1>1, WithTyped
<1> HIDE DEF a
<1>4. b \in Page /\ b.blocked_by = a.blocked_by
  BY <1>1, <1>3, WithTyped
<1> HIDE DEF b
<1>5. c \in Page /\ c.blocked_by = b.blocked_by
  BY <1>1, <1>4, WithTyped
<1> QED
  BY <1>2, <1>3, <1>4, <1>5

LEMMA TypedGoalSet ==
    ASSUME page \in Page, used \subseteq Sessions, NEW p \in Procs, GoalSet(p)
    PROVE  TypedPrepares(p)
<1>1. PICK key \in SetKeys, why \in BOOLEAN, heir \in BOOLEAN :
        \E v \in GoalValues(key) :
            /\ key = "blocked_by" => v = Text(<<>>)
            /\ Prepare(p, SetCommand(key, v), "write",
                       SetTo(CloseOut(page, key, v, why, heir), key, v))
            /\ used' = used \cup Uses(key, v)
  BY DEF GoalSet
<1>2. PICK v \in GoalValues(key) :
            /\ key = "blocked_by" => v = Text(<<>>)
            /\ Prepare(p, SetCommand(key, v), "write",
                       SetTo(CloseOut(page, key, v, why, heir), key, v))
            /\ used' = used \cup Uses(key, v)
  BY <1>1
<1> DEFINE d == CloseOut(page, key, v, why, heir)
           f == SetTo(d, key, v)
<1>3. d \in Page /\ d.blocked_by = page.blocked_by
  <2> DEFINE c == EndedWith(page, page.aborted_reason \/ why,
                            page.gate_successor \/ heir)
  <2>1. c \in Page /\ c.blocked_by = page.blocked_by
    BY EndedTyped
  <2>2. d = page \/ d = c
    BY DEF CloseOut, EndedWith
  <2> HIDE DEF c, d
  <2> QED
    BY <2>1, <2>2
<1>4. Typed(key, v)
  BY ValuesTyped
<1> HIDE DEF d
<1>5. f \in Page /\ BlockersFollow(SetCommand(key, v), kind, page, f)
  BY <1>2, <1>3, <1>4, SetToTyped
<1>6. SetCommand(key, v) \in Commands
  BY DEF SetCommand, Commands
<1>7. used \subseteq used' /\ used' \subseteq Sessions
  BY <1>2 DEF Uses
<1> QED
  BY <1>2, <1>5, <1>6, <1>7 DEF TypedPrepares, d

LEMMA TypedTopicSet ==
    ASSUME page \in Page, used \subseteq Sessions, NEW p \in Procs, TopicSet(p)
    PROVE  TypedPrepares(p)
<1>1. PICK key \in SetKeys : \E v \in TopicValues(key) :
            /\ kind = "topic"
            /\ Prepare(p, SetCommand(key, v), "write", SetTo(page, key, v))
            /\ used' = used \cup Uses(key, v)
  BY DEF TopicSet
<1>2. PICK v \in TopicValues(key) :
            /\ kind = "topic"
            /\ Prepare(p, SetCommand(key, v), "write", SetTo(page, key, v))
            /\ used' = used \cup Uses(key, v)
  BY <1>1
<1> DEFINE f == SetTo(page, key, v)
<1>3. Typed(key, v)
  BY ValuesTyped
<1>4. f \in Page
  BY <1>3, SetToTyped
<1>5. BlockersFollow(SetCommand(key, v), kind, page, f)
  BY <1>2 DEF BlockersFollow
<1>6. SetCommand(key, v) \in Commands
  BY DEF SetCommand, Commands
<1>7. used \subseteq used' /\ used' \subseteq Sessions
  BY <1>2 DEF Uses
<1> HIDE DEF f
<1> QED
  BY <1>2, <1>4, <1>5, <1>6, <1>7 DEF TypedPrepares, f

LEMMA TypedOtherSet ==
    ASSUME page \in Page, used \subseteq Sessions, NEW p \in Procs, OtherSet(p)
    PROVE  TypedPrepares(p)
<1>1. PICK key \in SetKeys \ {"claude_session_id"} :
           \E v \in ObjectiveValues(key) \cup ThemeValues(key)
                        \cup VisionValues(key) :
            /\ kind \notin {"goal", "task"}
            /\ Prepare(p, "set", "write", With(page, key, v))
            /\ used' = used
  BY DEF OtherSet
<1>2. PICK v \in ObjectiveValues(key) \cup ThemeValues(key)
                     \cup VisionValues(key) :
            /\ kind \notin {"goal", "task"}
            /\ Prepare(p, "set", "write", With(page, key, v))
            /\ used' = used
  BY <1>1
<1>3. With(page, key, v) \in Page
  BY ValuesTyped, WithTyped
<1>4. BlockersFollow("set", kind, page, With(page, key, v))
  BY <1>2 DEF BlockersFollow
<1>5. "set" \in Commands
  BY DEF Commands
<1> QED
  BY <1>2, <1>3, <1>4, <1>5 DEF TypedPrepares

LEMMA TypedClear ==
    ASSUME page \in Page, used \subseteq Sessions, NEW p \in Procs, Clear(p)
    PROVE  TypedPrepares(p)
<1>1. PICK key \in ClearKeys :
        /\ Prepare(p, "clear", "write", With(page, key, Blank[key]))
        /\ used' = used
  BY DEF Clear
<1> DEFINE f == With(page, key, Blank[key])
<1>2. f \in Page
  <2>1. CASE key \in PageKeys
    BY <2>1, BlankTyped, WithTyped
  <2>2. CASE key \notin PageKeys
    <3>1. f = page
      BY <2>2 DEF With, Page, PageKeys
    <3> QED
      BY <3>1
  <2> QED
    BY <2>1, <2>2
<1>3. BlockersFollow("clear", kind, page, f)
  BY DEF BlockersFollow
<1>4. "clear" \in Commands
  BY DEF Commands
<1> HIDE DEF f
<1> QED
  BY <1>1, <1>2, <1>3, <1>4 DEF TypedPrepares, f

\* An item that is added goes behind the others; one is not added to a text.
LEMMA TypedList ==
    ASSUME page \in Page, used \subseteq Sessions, NEW p \in Procs,
           NEW key \in {"tags", "goals", "blocked_by"}, ListCommand(p, key)
    PROVE  TypedPrepares(p)
<1> DEFINE s == ReadItems(key, page[key])
<1>1. PICK x \in Names :
        /\ ~Malformed(key, page[key]) /\ used' = used
        /\ \/ Prepare(p, "add", "write", With(page, key, List(Append(s, x))))
           \/ Prepare(p, "remove", "write", With(page, key, List(Without(s, x))))
  BY DEF ListCommand
<1>2. page[key] \in Value("list") \cup Value("text")
  <2>1. /\ page.tags \in Value("list") \cup Value("text")
        /\ page.goals \in Value("list") \cup Value("text")
        /\ page.blocked_by \in Value("list") \cup Value("text")
    BY DEF Page
  <2> QED
    BY <2>1
<1>3. s \in Seq(Names)
  BY <1>2, ItemsAre DEF ReadItems
<1>4. \A r \in Seq(Names) : Typed(key, List(r)) /\ List(r).items = r
  BY DEF Typed, List, Value
<1>5. CASE Prepare(p, "add", "write", With(page, key, List(Append(s, x))))
  <2> DEFINE f == With(page, key, List(Append(s, x)))
  <2>1. Append(s, x) \in Seq(Names)
    BY <1>3
  <2>2. f \in Page
    BY <1>4, <2>1, WithTyped
  <2>3. BlockersFollow("add", kind, page, f)
    <3>1. CASE key # "blocked_by"
      <4>1. Typed(key, List(Append(s, x)))
        BY <1>4, <2>1
      <4>2. f.blocked_by = page.blocked_by
        BY <3>1, <4>1, WithTyped, Zenon
      <4> HIDE DEF f
      <4> QED
        BY <4>2, SameBlockers
    <3>2. CASE key = "blocked_by"
      <4> DEFINE v == page.blocked_by
      <4>1. f.blocked_by.items = Append(s, x)
        <5> DEFINE w == List(Append(s, x))
        <5>1. Typed(key, w) /\ w.items = Append(s, x)
          BY <1>4, <2>1
        <5> HIDE DEF w
        <5>2. With(page, key, w).blocked_by = w
          BY <3>2, <5>1, WithTyped
        <5> QED
          BY <5>1, <5>2 DEF w
      <4>2. v.items \in Seq(Names) /\ (v.items = s \/ v.items = <<>>)
        BY <1>1, <1>2, <3>2, ItemsAre DEF ReadItems, Malformed
      <4> HIDE DEF v, f, s
      <4>3. ASSUME NEW i \in DOMAIN v.items
            PROVE  Contains(Append(s, x), v.items[i])
        <5>1. v.items = s
          BY <4>2, <4>3
        <5>2. i \in 1..Len(s) /\ Len(s) \in Nat
          BY <1>3, <4>3, <5>1
        <5>3. i \in 1..Len(Append(s, x)) /\ Append(s, x)[i] = s[i]
          BY <1>3, <5>2, AppendProperties
        <5> QED
          BY <5>1, <5>3 DEF Contains
      <4> QED
        BY <4>1, <4>3 DEF BlockersFollow, v
    <3> QED
      BY <3>1, <3>2
  <2>4. "add" \in Commands
    BY DEF Commands
  <2> HIDE DEF f
  <2> QED
    BY <1>1, <1>5, <2>2, <2>3, <2>4 DEF TypedPrepares, f
<1>6. CASE Prepare(p, "remove", "write", With(page, key, List(Without(s, x))))
  <2> DEFINE K == {i \in DOMAIN s : s[i] # x}
             f == With(page, key, List(Without(s, x)))
  <2>1. Without(s, x) \in Seq(Names)
    <3>1. Without(s, x) = Selected(s, K) /\ K \in SUBSET DOMAIN s
      BY DEF Without
    <3> HIDE DEF K, s
    <3> QED
      BY <1>3, <3>1, SelectedIs
  <2>2. f \in Page
    BY <1>4, <2>1, WithTyped
  <2>3. BlockersFollow("remove", kind, page, f) /\ "remove" \in Commands
    BY DEF BlockersFollow, Commands
  <2> HIDE DEF f
  <2> QED
    BY <1>1, <1>6, <2>2, <2>3 DEF TypedPrepares, f
<1> QED
  BY <1>1, <1>5, <1>6

\* approve, complete, defer and work-on change no list.
LEMMA TypedOthers ==
    ASSUME page \in Page, used \subseteq Sessions, NEW p \in Procs,
           \/ Approve(p) \/ CompleteGoal(p) \/ CompleteObjective(p)
           \/ CompleteTopic(p) \/ Defer(p) \/ WorkOn(p)
    PROVE  TypedPrepares(p)
<1>1. PICK c \in Commands, next \in {"write", "claim"} : \E e \in Page :
          /\ Prepare(p, c, next, e) /\ used' = used
          /\ e.blocked_by = page.blocked_by
  <2>1. CASE Approve(p)
    <3>1. \A a \in Users : /\ Approved(page, a) \in Page
                           /\ Approved(page, a).blocked_by = page.blocked_by
      BY DEF Approved, Page, GoalPhases
    <3> QED
      BY <2>1, <3>1 DEF Approve, Commands
  <2>2. CASE CompleteGoal(p)
    <3> DEFINE Closed(why, heir) ==
            [page EXCEPT !.status = "completed", !.phase = "done",
                         !.completed = TRUE,
                         !.aborted_reason = @ \/ why,
                         !.gate_successor = @ \/ heir]
    <3>1. ASSUME NEW why \in BOOLEAN, NEW heir \in BOOLEAN
          PROVE  /\ Closed(why, heir) \in Page
                 /\ Closed(why, heir).blocked_by = page.blocked_by
      <4> DEFINE d == EndedWith(page, page.aborted_reason \/ why,
                                page.gate_successor \/ heir)
      <4>1. d \in Page /\ d.blocked_by = page.blocked_by
        BY EndedTyped
      <4>2. Closed(why, heir) = [d EXCEPT !.status = "completed",
                                          !.completed = TRUE]
        BY DEF EndedWith, Page
      <4> HIDE DEF d, Closed
      <4> QED
        BY <4>1, <4>2 DEF Page, Statuses, GoalStatuses
    <3>2. PICK force \in BOOLEAN, why \in BOOLEAN, heir \in BOOLEAN :
            /\ Prepare(p, IF force THEN "force" ELSE "complete", "write",
                       Closed(why, heir))
            /\ used' = used
      BY <2>2 DEF CompleteGoal
    <3>3. (IF force THEN "force" ELSE "complete") \in Commands
      BY DEF Commands
    <3> HIDE DEF Closed
    <3> QED
      BY <3>1, <3>2, <3>3
  <2>3. CASE CompleteObjective(p)
    <3> DEFINE e == [page EXCEPT !.status = "completed", !.completed = TRUE]
    <3>1. e \in Page /\ e.blocked_by = page.blocked_by
      <4>1. "completed" \in Statuses
        BY DEF Statuses, GoalStatuses
      <4> QED
        BY <4>1 DEF Page
    <3> QED
      BY <2>3, <3>1 DEF CompleteObjective, Commands
  <2>4. CASE CompleteTopic(p)
    <3> DEFINE e == [page EXCEPT !.status = "completed"]
    <3>1. e \in Page /\ e.blocked_by = page.blocked_by
      BY DEF Page, Statuses, GoalStatuses
    <3> QED
      BY <2>4, <3>1 DEF CompleteTopic, Commands
  <2>5. CASE Defer(p)
    <3> DEFINE e == [page EXCEPT !.defer_date = TRUE]
    <3>1. e \in Page /\ e.blocked_by = page.blocked_by
      BY DEF Page
    <3> QED
      BY <2>5, <3>1 DEF Defer, Commands
  <2>6. CASE WorkOn(p)
    <3>1. ASSUME NEW a \in Users
          PROVE  /\ Claimed(page, a) \in Page
                 /\ Claimed(page, a).blocked_by = page.blocked_by
      <4> DEFINE owner == IF page.assignee = Nobody THEN a ELSE page.assignee
      <4>1. owner \in Users \cup {Nobody}
        BY DEF Page
      <4>2. Claimed(page, a) = [page EXCEPT !.status = "in_progress",
                                            !.assignee = owner]
        BY DEF Claimed
      <4>3. "in_progress" \in Statuses
        BY DEF Statuses, GoalStatuses
      <4> HIDE DEF owner
      <4> QED
        BY <4>1, <4>2, <4>3 DEF Page
    <3> QED
      BY <2>6, <3>1 DEF WorkOn, Commands
  <2> QED
    BY <2>1, <2>2, <2>3, <2>4, <2>5, <2>6
<1>2. PICK e \in Page : /\ Prepare(p, c, next, e) /\ used' = used
                        /\ e.blocked_by = page.blocked_by
  BY <1>1
<1>3. BlockersFollow(c, kind, page, e)
  BY <1>2, SameBlockers
<1> QED
  BY <1>2, <1>3 DEF TypedPrepares

\* Every session a work-on runs has been used up as a uuid.
SidsUsed == \A p \in Procs : sid[p] \in used \cup {NoSid}

\* What is about to be written from an up to date copy keeps the blockers.
PendingBlockers ==
    \A p \in Procs :
        fresh[p] /\ pc[p] \in {"write", "claim", "bind"}
            => BlockersFollow(cmd[p], kind, page, mem[p])

TInv == TypeOK /\ SidsUsed /\ PendingBlockers

LEMMA InitTInv == Init => TInv
<1> SUFFICES ASSUME Init PROVE TInv
  OBVIOUS
<1>1. kind \in Kinds /\ page \in Page
  BY DEF Init
<1>2. used \subseteq Sessions
  <2>1. page.metrics_sessions \in SUBSET Sessions
    BY <1>1 DEF Page
  <2> QED
    BY <2>1 DEF Init, Resolvable
<1>3. tasks \in [Tasks -> [status : TaskStatuses, link : LinkForms]]
  BY DEF Init, TaskStatuses, OpenStatuses
<1>4. mem \in [Procs -> Page]
  BY BlankTyped DEF Init
<1>5. TypeOK
  BY <1>1, <1>2, <1>3, <1>4 DEF Init, TypeOK
<1> QED
  BY <1>5 DEF Init, TInv, SidsUsed, PendingBlockers

LEMMA TypedPrepareKeeps ==
    ASSUME TInv, NEW p \in Procs, TypedPrepares(p)
    PROVE  TInv'
<1>1. PICK c \in Commands, next \in {"write", "claim"} : \E e \in Page :
        /\ Prepare(p, c, next, e)
        /\ BlockersFollow(c, kind, page, e)
        /\ used \subseteq used' /\ used' \subseteq Sessions
  BY DEF TypedPrepares
<1>2. PICK e \in Page :
        /\ Prepare(p, c, next, e)
        /\ BlockersFollow(c, kind, page, e)
        /\ used \subseteq used' /\ used' \subseteq Sessions
  BY <1>1
<1>3. /\ pc \in [Procs -> {"idle", "write", "claim", "turn", "bind"}]
      /\ cmd \in [Procs -> Commands] /\ mem \in [Procs -> Page]
      /\ fresh \in [Procs -> BOOLEAN] /\ listed \in [Procs -> BOOLEAN]
      /\ issued \in 0..MaxCommands
  BY DEF TInv, TypeOK, Commands
<1>4. /\ issued < MaxCommands /\ issued' = issued + 1
      /\ pc' = [pc EXCEPT ![p] = next] /\ cmd' = [cmd EXCEPT ![p] = c]
      /\ mem' = [mem EXCEPT ![p] = e] /\ fresh' = [fresh EXCEPT ![p] = TRUE]
      /\ listed' = [listed EXCEPT ![p] = TRUE]
      /\ UNCHANGED <<kind, page, tasks, sid, bound, intact>>
  BY <1>2 DEF Prepare
<1>5. /\ pc' \in [Procs -> {"idle", "write", "claim", "turn", "bind"}]
      /\ cmd' \in [Procs -> Commands] /\ mem' \in [Procs -> Page]
      /\ issued' \in 0..MaxCommands
  BY <1>3, <1>4
<1>6. fresh' \in [Procs -> BOOLEAN] /\ listed' \in [Procs -> BOOLEAN]
  BY <1>3, <1>4
<1>7. bound' \subseteq used' /\ used' \subseteq Sessions
  BY <1>2, <1>4 DEF TInv, TypeOK
<1>8. TypeOK'
  BY <1>4, <1>5, <1>6, <1>7 DEF TInv, TypeOK, Commands
<1>9. SidsUsed'
  BY <1>2, <1>4 DEF TInv, SidsUsed
<1>10. PendingBlockers'
  <2> SUFFICES ASSUME NEW q \in Procs, fresh'[q],
                      pc'[q] \in {"write", "claim", "bind"}
               PROVE  BlockersFollow(cmd'[q], kind, page, mem'[q])
    BY <1>4 DEF PendingBlockers, BlockersFollow
  <2>1. CASE q = p
    BY <1>2, <1>3, <1>4, <2>1
  <2>2. CASE q # p
    <3>1. /\ cmd'[q] = cmd[q] /\ mem'[q] = mem[q]
          /\ pc'[q] = pc[q] /\ fresh'[q] = fresh[q]
      BY <1>3, <1>4, <2>2
    <3> QED
      BY <3>1 DEF TInv, PendingBlockers
  <2> QED
    BY <2>1, <2>2
<1> QED
  BY <1>8, <1>9, <1>10 DEF TInv

\* A write leaves no copy up to date.
LEMMA TypedReplaceKeeps ==
    ASSUME TInv, NEW p \in Procs, Replace(p),
           pc' \in [Procs -> {"idle", "write", "claim", "turn", "bind"}],
           sid' \in [Procs -> Sessions \cup {NoSid}],
           used' \subseteq Sessions, bound' \subseteq used', SidsUsed'
    PROVE  TInv'
<1>1. /\ cmd \in [Procs -> Commands] /\ mem \in [Procs -> Page]
      /\ fresh \in [Procs -> BOOLEAN] /\ listed \in [Procs -> BOOLEAN]
      /\ intact \in BOOLEAN
  BY DEF TInv, TypeOK, Commands
<1>2. /\ page' = mem[p] /\ fresh' = [q \in Procs |-> FALSE]
      /\ intact' = (intact /\ fresh[p] /\ cmd[p] \notin {"dismiss", "clear"})
      /\ mem' = [mem EXCEPT ![p] = Blank] /\ cmd' = [cmd EXCEPT ![p] = "none"]
      /\ listed' = [listed EXCEPT ![p] = FALSE]
      /\ UNCHANGED <<kind, tasks, issued>>
  BY DEF Replace
<1>3. page' \in Page /\ mem' \in [Procs -> Page]
  BY <1>1, <1>2, BlankTyped
<1>4. cmd' \in [Procs -> Commands]
  BY <1>1, <1>2 DEF Commands
<1>5. /\ fresh' \in [Procs -> BOOLEAN] /\ listed' \in [Procs -> BOOLEAN]
      /\ intact' \in BOOLEAN /\ \A q \in Procs : ~fresh'[q]
  BY <1>1, <1>2
<1>6. TypeOK'
  BY <1>2, <1>3, <1>4, <1>5 DEF TInv, TypeOK, Commands
<1>7. PendingBlockers'
  BY <1>5 DEF PendingBlockers
<1> QED
  BY <1>6, <1>7 DEF TInv

LEMMA TypedWrites ==
    ASSUME IInv, TInv, NEW p \in Procs, Write(p) \/ Claim(p) \/ Bind(p)
    PROVE  TInv'
<1>1. /\ pc \in [Procs -> {"idle", "write", "claim", "turn", "bind"}]
      /\ sid \in [Procs -> Sessions \cup {NoSid}]
      /\ used \subseteq Sessions /\ bound \subseteq used
  BY DEF TInv, TypeOK
<1>2. CASE Write(p)
  <2>1. /\ Replace(p) /\ pc' = [pc EXCEPT ![p] = "idle"]
        /\ UNCHANGED <<sid, used, bound>>
    BY <1>2 DEF Write
  <2>2. pc' \in [Procs -> {"idle", "write", "claim", "turn", "bind"}]
    BY <1>1, <2>1
  <2>3. SidsUsed'
    BY <2>1 DEF TInv, SidsUsed
  <2> QED
    BY <1>1, <2>1, <2>2, <2>3, TypedReplaceKeeps
<1>3. CASE Claim(p)
  <2>1. Replace(p) /\ bound' = bound
    BY <1>3 DEF Claim
  <2>2. CASE pc' = [pc EXCEPT ![p] = "idle"] /\ UNCHANGED <<sid, used>>
    <3>1. pc' \in [Procs -> {"idle", "write", "claim", "turn", "bind"}]
      BY <1>1, <2>2
    <3>2. SidsUsed'
      BY <2>2 DEF TInv, SidsUsed
    <3> QED
      BY <1>1, <2>1, <2>2, <3>1, <3>2, TypedReplaceKeeps
  <2>3. ASSUME NEW s \in Sessions, sid' = [sid EXCEPT ![p] = s],
               used' = used \cup {s}, pc' = [pc EXCEPT ![p] = "turn"]
        PROVE  TInv'
    <3>1. /\ pc' \in [Procs -> {"idle", "write", "claim", "turn", "bind"}]
          /\ sid' \in [Procs -> Sessions \cup {NoSid}]
          /\ used' \subseteq Sessions /\ bound' \subseteq used'
      BY <1>1, <2>1, <2>3
    <3>2. \A q \in Procs : sid'[q] = sid[q] \/ sid'[q] = s
      BY <1>1, <2>3
    <3>3. SidsUsed'
      BY <2>3, <3>2 DEF TInv, SidsUsed
    <3> QED
      BY <2>1, <3>1, <3>3, TypedReplaceKeeps
  <2> QED
    BY <1>3, <2>2, <2>3 DEF Claim
<1>4. CASE Bind(p)
  <2>1. /\ pc[p] = "bind" /\ Replace(p) /\ pc' = [pc EXCEPT ![p] = "idle"]
        /\ bound' = bound \cup {sid[p]} /\ sid' = [sid EXCEPT ![p] = NoSid]
        /\ used' = used
    BY <1>4 DEF Bind
  <2>2. sid[p] \in used
    <3>1. sid[p] \in Resolvable(mem[p])
      BY <2>1 DEF IInv, BindsOwn
    <3>2. mem[p].metrics_sessions \in SUBSET Sessions
      BY DEF IInv, Shape, IsPage
    <3>3. sid[p] \in Sessions
      BY <3>1, <3>2 DEF Resolvable
    <3> QED
      BY <3>3 DEF TInv, SidsUsed
  <2>3. /\ pc' \in [Procs -> {"idle", "write", "claim", "turn", "bind"}]
        /\ sid' \in [Procs -> Sessions \cup {NoSid}]
        /\ used' \subseteq Sessions /\ bound' \subseteq used'
    BY <1>1, <2>1, <2>2
  <2>4. \A q \in Procs : sid'[q] = sid[q] \/ sid'[q] = NoSid
    BY <1>1, <2>1
  <2>5. SidsUsed'
    BY <2>1, <2>4 DEF TInv, SidsUsed
  <2> QED
    BY <2>1, <2>3, <2>5, TypedReplaceKeeps
<1> QED
  BY <1>2, <1>3, <1>4

\* Binding a session touches the two session keys only.
LEMMA TypedRereads ==
    ASSUME IInv, TInv, NEW p \in Procs, Rereads(p, Bound(page, sid[p]))
    PROVE  TInv'
<1> DEFINE e == Bound(page, sid[p])
<1>1. /\ pc \in [Procs -> {"idle", "write", "claim", "turn", "bind"}]
      /\ mem \in [Procs -> Page] /\ fresh \in [Procs -> BOOLEAN]
      /\ page \in Page
  BY DEF TInv, TypeOK
<1>2. e \in Page /\ e.blocked_by = page.blocked_by
  <2> DEFINE s == sid[p]
  <2>1. s \in Sessions
    BY DEF Rereads, IInv, BindsOwn
  <2> HIDE DEF s
  <2>2. /\ [page EXCEPT !.claude_session_id = s] \in Page
        /\ [page EXCEPT !.claude_session_id = s].blocked_by = page.blocked_by
    BY <1>1, <2>1 DEF Page, Ids
  <2>3. /\ [page EXCEPT !.metrics_sessions = @ \cup {s}] \in Page
        /\ [page EXCEPT !.metrics_sessions = @ \cup {s}].blocked_by
               = page.blocked_by
    BY <1>1, <2>1 DEF Page
  <2>4. Bound(page, s) \in Page /\ Bound(page, s).blocked_by = page.blocked_by
    BY <1>1, <2>2, <2>3 DEF Bound
  <2> QED
    BY <2>4 DEF s
<1> HIDE DEF e
<1>3. /\ pc' = [pc EXCEPT ![p] = "bind"] /\ mem' = [mem EXCEPT ![p] = e]
      /\ fresh' = [fresh EXCEPT ![p] = TRUE]
      /\ UNCHANGED <<kind, page, tasks, issued, cmd, sid, used, listed, bound,
                     intact>>
  BY DEF Rereads, e
<1>4. /\ pc' \in [Procs -> {"idle", "write", "claim", "turn", "bind"}]
      /\ mem' \in [Procs -> Page]
  BY <1>1, <1>2, <1>3
<1>5. fresh' \in [Procs -> BOOLEAN]
  BY <1>1, <1>3
<1>6. TypeOK'
  BY <1>3, <1>4, <1>5 DEF TInv, TypeOK
<1>7. SidsUsed'
  BY <1>3 DEF TInv, SidsUsed
<1>8. PendingBlockers'
  <2> SUFFICES ASSUME NEW q \in Procs, fresh'[q],
                      pc'[q] \in {"write", "claim", "bind"}
               PROVE  BlockersFollow(cmd[q], kind, page, mem'[q])
    BY <1>3 DEF PendingBlockers, BlockersFollow
  <2>1. CASE q = p
    BY <1>1, <1>2, <1>3, <2>1, SameBlockers
  <2>2. CASE q # p
    <3>1. mem'[q] = mem[q] /\ pc'[q] = pc[q] /\ fresh'[q] = fresh[q]
      BY <1>1, <1>3, <2>2
    <3> QED
      BY <3>1 DEF TInv, PendingBlockers
  <2> QED
    BY <2>1, <2>2
<1> QED
  BY <1>6, <1>7, <1>8 DEF TInv

LEMMA TypedDrop ==
    ASSUME TInv, NEW p \in Procs, Drop(p)
    PROVE  TInv'
<1>1. /\ pc \in [Procs -> {"idle", "write", "claim", "turn", "bind"}]
      /\ cmd \in [Procs -> Commands] /\ mem \in [Procs -> Page]
      /\ sid \in [Procs -> Sessions \cup {NoSid}]
      /\ fresh \in [Procs -> BOOLEAN] /\ listed \in [Procs -> BOOLEAN]
  BY DEF TInv, TypeOK, Commands
<1>2. /\ pc' = [pc EXCEPT ![p] = "idle"] /\ mem' = [mem EXCEPT ![p] = Blank]
      /\ cmd' = [cmd EXCEPT ![p] = "none"] /\ sid' = [sid EXCEPT ![p] = NoSid]
      /\ fresh' = [fresh EXCEPT ![p] = FALSE]
      /\ listed' = [listed EXCEPT ![p] = FALSE]
      /\ UNCHANGED <<kind, page, tasks, issued, used, bound, intact>>
  BY DEF Drop
<1>3. /\ pc' \in [Procs -> {"idle", "write", "claim", "turn", "bind"}]
      /\ cmd' \in [Procs -> Commands]
      /\ sid' \in [Procs -> Sessions \cup {NoSid}]
  BY <1>1, <1>2 DEF Commands
<1>4. mem' \in [Procs -> Page]
  BY <1>1, <1>2, BlankTyped
<1>5. fresh' \in [Procs -> BOOLEAN] /\ listed' \in [Procs -> BOOLEAN]
  BY <1>1, <1>2
<1>6. TypeOK'
  BY <1>2, <1>3, <1>4, <1>5 DEF TInv, TypeOK, Commands
<1>7. SidsUsed'
  <2>1. \A q \in Procs : sid'[q] = sid[q] \/ sid'[q] = NoSid
    BY <1>1, <1>2
  <2> QED
    BY <1>2, <2>1 DEF TInv, SidsUsed
<1>8. PendingBlockers'
  <2> SUFFICES ASSUME NEW q \in Procs, fresh'[q],
                      pc'[q] \in {"write", "claim", "bind"}
               PROVE  BlockersFollow(cmd'[q], kind, page, mem'[q])
    BY <1>2 DEF PendingBlockers, BlockersFollow
  <2>1. q # p
    BY <1>1, <1>2
  <2>2. /\ cmd'[q] = cmd[q] /\ mem'[q] = mem[q]
        /\ pc'[q] = pc[q] /\ fresh'[q] = fresh[q]
    BY <1>1, <1>2, <2>1
  <2> QED
    BY <2>2 DEF TInv, PendingBlockers
<1> QED
  BY <1>6, <1>7, <1>8 DEF TInv

LEMMA TypedRest ==
    ASSUME TInv, TaskMoves \/ UNCHANGED vars
    PROVE  TInv'
<1>1. UNCHANGED <<kind, page, issued, pc, cmd, mem, sid, used, fresh, bound,
                  intact>>
  BY DEF TaskMoves, vars
<1>2. tasks' \in [Tasks -> [status : TaskStatuses, link : LinkForms]]
  BY DEF TaskMoves, vars, TInv, TypeOK
<1>3. listed' \in [Procs -> BOOLEAN]
  BY DEF TaskMoves, vars, TInv, TypeOK
<1>4. TypeOK'
  BY <1>1, <1>2, <1>3 DEF TInv, TypeOK
<1>5. SidsUsed' /\ PendingBlockers'
  BY <1>1 DEF TInv, SidsUsed, PendingBlockers, BlockersFollow
<1> QED
  BY <1>4, <1>5 DEF TInv

\* Every command is prepared with its types.
LEMMA TypedCases ==
    ASSUME TInv, Next
    PROVE  \/ \E p \in Procs :
                  \/ TypedPrepares(p) \/ Write(p) \/ Drop(p) \/ Claim(p)
                  \/ Bind(p) \/ Rereads(p, Bound(page, sid[p]))
           \/ TaskMoves
<1>1. page \in Page /\ used \subseteq Sessions
  BY DEF TInv, TypeOK
<1>2. ASSUME NEW p \in Procs, GoalSet(p) \/ TopicSet(p) \/ OtherSet(p) \/ Clear(p)
      PROVE  TypedPrepares(p)
  BY <1>1, <1>2, TypedGoalSet, TypedTopicSet, TypedOtherSet, TypedClear
<1>3. ASSUME NEW p \in Procs, GoalList(p) \/ TagsList(p) \/ TaskList(p)
      PROVE  TypedPrepares(p)
  BY <1>1, <1>3, TypedList DEF GoalList, TagsList, TaskList
<1>4. ASSUME NEW p \in Procs,
             GoalApprove(p) \/ TopicApprove(p) \/ GoalDefer(p)
                \/ TopicDefer(p) \/ GoalWorkOn(p) \/ TopicWorkOn(p)
                \/ CompleteGoal(p) \/ CompleteObjective(p) \/ CompleteTopic(p)
      PROVE  TypedPrepares(p)
  BY <1>1, <1>4, TypedOthers
     DEF GoalApprove, TopicApprove, GoalDefer, TopicDefer, GoalWorkOn,
         TopicWorkOn
<1>5. ASSUME NEW p \in Procs, GoalTurnEnds(p) \/ TopicTurnEnds(p)
      PROVE  Rereads(p, Bound(page, sid[p]))
  BY <1>5 DEF GoalTurnEnds, TopicTurnEnds, TopicBound
<1> QED
  BY <1>2, <1>3, <1>4, <1>5 DEF Next

LEMMA TypedInductive == Spec => []TInv
<1>1. IInv /\ TInv /\ [Next]_vars => TInv'
  BY TypedCases, TypedPrepareKeeps, TypedWrites, TypedRereads, TypedDrop,
     TypedRest
<1> QED
  BY InitTInv, <1>1, Inductive, PTL DEF Spec

\* No command on any page stores a value that the page's readers do not take
\* for one (domain/goal_frontmatter.go:108, domain/topic_frontmatter.go:118),
\* and only uuids in use are reported as bound (goal_workon.go:171).
THEOREM TypeCorrect == Spec => []TypeOK
<1>1. TInv => TypeOK
  BY DEF TInv
<1> QED
  BY <1>1, TypedInductive, PTL

\* What a goal or task is blocked by, in whatever form a person wrote it, is
\* lost only by the commands that say so (blocked_by_write.go:19-61,
\* frontmatter_entity.go:523).
THEOREM BlockersSurvive == Spec => BlockersKept
<1>1. ASSUME TInv, NEW p \in Procs, Fresh(p), kind \in {"goal", "task"},
             cmd[p] \notin {"remove", "clear"}
      PROVE  \/ page'.blocked_by = Text(<<>>)
             \/ \A i \in DOMAIN page.blocked_by.items :
                    Contains(page'.blocked_by.items,
                             page.blocked_by.items[i])
  <2>1. page' = mem[p] /\ fresh[p] /\ pc[p] \in {"write", "claim", "bind"}
    BY <1>1 DEF Fresh, Writes, Replace
  <2>2. BlockersFollow(cmd[p], kind, page, mem[p])
    BY <1>1, <2>1 DEF TInv, PendingBlockers
  <2> QED
    BY <1>1, <2>1, <2>2 DEF BlockersFollow
<1>2. TInv /\ [Next]_vars =>
        [\A p \in Procs :
           /\ Fresh(p) /\ kind \in {"goal", "task"}
           /\ cmd[p] \notin {"remove", "clear"}
           => \/ page'.blocked_by = Text(<<>>)
              \/ \A i \in DOMAIN page.blocked_by.items :
                     Contains(page'.blocked_by.items,
                              page.blocked_by.items[i])]_vars
  BY <1>1
<1> QED
  BY <1>2, TypedInductive, PTL DEF Spec, BlockersKept

=============================================================================
