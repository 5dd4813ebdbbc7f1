----------------------- MODULE TaskLifecycle_proofs -----------------------
(***************************************************************************)
(* What TaskLifecycle says of its commands, for every set of processes,    *)
(* users, sessions and initial tasks, every calendar and every bound.      *)
(*                                                                         *)
(* Every command is one Prepare step with some result t.  So it is enough  *)
(* to show of each that t is a task and a lawful successor of the file     *)
(* (Lawful), and what that means for a step is shown once, of Prepare.     *)
(***************************************************************************)
EXTENDS TaskLifecycle, TLAPS

Names == Users \cup {Nobody}

\* Nobody edits the keys that vouch for others.
Untouched == Evidence \cap (SetKeys \cup ClearKeys) = {}

\* What a command may make of the file, by its kind and its announcement.
Good(t, u, c, name) ==
    Lawful(t, u, c, name) /\ (Untouched /\ Whole(t) => Whole(u))

\* The step of a command, whatever the command.
Prepares(p) ==
    \E c \in Commands, t \in Task, name \in Names :
        Prepare(p, c, t, name) /\ Good(disk, t, c, name)

USE NameAssumption, KeyAssumption, DayAssumption, TaskAssumption

\* The fields of a task.
LEMMA Fields ==
    ASSUME NEW t \in Task
    PROVE  /\ t.status \in Statuses /\ t.phase \in Phases
           /\ t.assignee \in Names /\ t.approved_by \in Names
           /\ t.approved_at \in BOOLEAN /\ t.flag \in BOOLEAN
           /\ t.flag_set_by \in Names /\ t.flag_set_at \in BOOLEAN
           /\ t.aborted_reason \in BOOLEAN /\ t.gate_successor \in BOOLEAN
           /\ t.claude_session_id \in Sessions \cup {NoSid}
           /\ t.metrics_sessions \in SUBSET Sessions
           /\ t.defer_date \in 0..Days /\ t.planned_date \in 0..Days
           /\ t.recurring \in BOOLEAN /\ t.boxes \in SUBSET Boxes
  BY DEF Task, Names

\* The values a key may have.
Values(key) ==
    CASE key = "status" -> Statuses
      [] key = "phase" -> Phases
      [] key \in {"assignee", "approved_by", "flag_set_by"} -> Names
      [] key = "claude_session_id" -> Sessions \cup {NoSid}
      [] key = "metrics_sessions" -> SUBSET Sessions
      [] key \in {"defer_date", "planned_date"} -> 0..Days
      [] OTHER -> BOOLEAN

LEMMA KeysAre ==
    Keys = {"status", "phase", "assignee", "approved_by", "approved_at",
            "flag", "flag_set_by", "flag_set_at", "aborted_reason",
            "gate_successor", "claude_session_id", "metrics_sessions",
            "defer_date", "planned_date", "recurring"}
  BY DEF Keys, Blank

\* With replaces one field and keeps the others.
LEMMA WithTask ==
    ASSUME NEW t \in Task, NEW key \in Keys, NEW v \in Values(key)
    PROVE  /\ With(t, key, v) \in Task
           /\ \A k \in DOMAIN t :
                  With(t, key, v)[k] = IF k = key THEN v ELSE t[k]
  BY KeysAre DEF Task, With, Values, Names

\* A command's step keeps the types and the law.
LEMMA PrepareKeeps ==
    ASSUME TypeOK, LawfulInv, NEW p \in Procs, Prepares(p)
    PROVE  TypeOK' /\ LawfulInv'
  BY DEF Prepares, Prepare, Good, TypeOK, LawfulInv, Names

\* CloseOut adds a reason and a successor, and takes nothing away.
LEMMA CloseOutTask ==
    ASSUME NEW t \in Task, NEW value, NEW why \in BOOLEAN, NEW heir \in BOOLEAN
    PROVE  /\ CloseOut(t, value, why, heir) \in Task
           /\ \A k \in DOMAIN t \ {"aborted_reason", "gate_successor"} :
                  CloseOut(t, value, why, heir)[k] = t[k]
           /\ t.aborted_reason => CloseOut(t, value, why, heir).aborted_reason
           /\ t.gate_successor => CloseOut(t, value, why, heir).gate_successor
<1> DEFINE a == t.aborted_reason \/ why
           g == t.gate_successor \/ heir
<1>1. /\ a \in BOOLEAN /\ g \in BOOLEAN
      /\ t.aborted_reason => a = TRUE
      /\ t.gate_successor => g = TRUE
  BY Fields, Zenon
<1>2. CloseOut(t, value, why, heir) =
        IF value \in {"aborted", "completed", "done"}
        THEN [t EXCEPT !.aborted_reason = a, !.gate_successor = g]
        ELSE t
  BY DEF CloseOut
<1> HIDE DEF a, g
<1> DEFINE u == [t EXCEPT !.aborted_reason = a, !.gate_successor = g]
<1>3. /\ u \in Task
      /\ u.aborted_reason = a /\ u.gate_successor = g
      /\ \A k \in DOMAIN t \ {"aborted_reason", "gate_successor"} : u[k] = t[k]
  BY <1>1 DEF Task
<1> HIDE DEF u
<1>4. CASE value \in {"aborted", "completed", "done"}
  <2>1. CloseOut(t, value, why, heir) = u
    BY <1>2, <1>4 DEF u
  <2>2. /\ t.aborted_reason => u.aborted_reason = TRUE
        /\ t.gate_successor => u.gate_successor = TRUE
    BY <1>1, <1>3
  <2> QED
    BY <1>3, <2>1, <2>2, Zenon
<1>5. CASE value \notin {"aborted", "completed", "done"}
  <2>1. CloseOut(t, value, why, heir) = t
    BY <1>2, <1>5
  <2> QED
    BY <2>1, Zenon
<1> QED
  BY <1>4, <1>5

--------------------------------------------------------------------------
(* One lemma per command.                                                  *)

USE DEF Good, Lawful, Whole, ApprovalRecorded, AbortRecorded, FlagRaisedBy, PhaseKept,
        UnderWayKept, FinishedKept, SessionsKept, Resolvable, LossAnnounced

LEMMA SetStatusPrepares ==
    ASSUME TypeOK, NEW p \in Procs, SetStatus(p)
    PROVE  Prepares(p)
<1>1. PICK s \in Statuses \ {"none"}, why \in BOOLEAN, heir \in BOOLEAN :
         /\ MayBecome(CloseOut(disk, s, why, heir), s)
         /\ Prepare(p, "set",
                    [CloseOut(disk, s, why, heir) EXCEPT !.status = s], Nobody)
  BY DEF SetStatus
<1> DEFINE t == [CloseOut(disk, s, why, heir) EXCEPT !.status = s]
<1> DEFINE u == CloseOut(disk, s, why, heir)
<1>2. /\ u \in Task
      /\ \A k \in DOMAIN disk \ {"aborted_reason", "gate_successor"} :
             u[k] = disk[k]
  BY CloseOutTask DEF TypeOK
<1> HIDE DEF u
<1>3. t \in Task
  BY <1>2 DEF Task, u
<1>4. Good(disk, t, "set", Nobody)
  BY <1>1, <1>2, Fields DEF u, TypeOK, Task, MayBecome
<1> QED
  BY <1>1, <1>3, <1>4 DEF Prepares, Commands, Names

LEMMA SetPhasePrepares ==
    ASSUME TypeOK, NEW p \in Procs, SetPhase(p)
    PROVE  Prepares(p)
<1>1. PICK ph \in NewPhases, force \in BOOLEAN, why \in BOOLEAN,
           heir \in BOOLEAN :
         /\ ~LeavesInbox(disk, ph)
         /\ force \/ ~Regresses(disk, ph)
         /\ Prepare(p, IF force THEN "force" ELSE "set",
                    [CloseOut(disk, ph, why, heir) EXCEPT !.phase = ph],
                    Nobody)
  BY DEF SetPhase
<1> DEFINE c == IF force THEN "force" ELSE "set"
           u == CloseOut(disk, ph, why, heir)
           t == [u EXCEPT !.phase = ph]
<1>2. /\ u \in Task
      /\ \A k \in DOMAIN disk \ {"aborted_reason", "gate_successor"} :
             u[k] = disk[k]
  BY CloseOutTask DEF TypeOK
<1>3. Prepare(p, c, t, Nobody)
  BY <1>1
<1> HIDE DEF u
<1>4. t \in Task
  BY <1>2 DEF Task, Phases
<1>5. Lawful(disk, t, c, Nobody)
  BY <1>1, <1>2, Fields DEF TypeOK, Task, LeavesInbox, Regresses
<1>6. Whole(disk) => Whole(t)
  <2>1. /\ disk.aborted_reason => u.aborted_reason
        /\ disk.gate_successor => u.gate_successor
    BY CloseOutTask, Zenon DEF TypeOK, u
  <2>2. /\ t.flag = disk.flag /\ t.flag_set_by = disk.flag_set_by
        /\ t.flag_set_at = disk.flag_set_at /\ t.status = disk.status
        /\ t.approved_by = disk.approved_by /\ t.approved_at = disk.approved_at
        /\ t.aborted_reason = u.aborted_reason
        /\ t.gate_successor = u.gate_successor
    BY <1>2 DEF TypeOK, Task
  <2> HIDE DEF t
  <2> QED
    BY <2>1, <2>2
<1>7. Good(disk, t, c, Nobody)
  BY <1>5, <1>6, Zenon DEF Good
<1> QED
  BY <1>3, <1>4, <1>7 DEF Prepares, Commands, Names

LEMMA SetAssigneePrepares ==
    ASSUME TypeOK, NEW p \in Procs, SetAssignee(p)
    PROVE  Prepares(p)
<1>1. PICK a \in Names :
         Prepare(p, "set", [disk EXCEPT !.assignee = a],
                 IF a = Nobody THEN Loser(disk) ELSE Nobody)
  BY DEF SetAssignee, Names
<1> DEFINE t == [disk EXCEPT !.assignee = a]
           name == IF a = Nobody THEN Loser(disk) ELSE Nobody
<1>2. t \in Task /\ name \in Names
  BY Fields DEF TypeOK, Task, Names, Loser
<1>3. Good(disk, t, "set", name)
  BY Fields DEF TypeOK, Task, Loser
<1> QED
  BY <1>1, <1>2, <1>3 DEF Prepares, Commands

LEMMA SetFlagPrepares ==
    ASSUME TypeOK, NEW p \in Procs, SetFlag(p)
    PROVE  Prepares(p)
<1>1. ASSUME NEW actor \in Users
      PROVE  /\ Flagged(disk, actor) \in Task
             /\ Good(disk, Flagged(disk, actor), "set", Nobody)
  <2>1. Flagged(disk, actor) \in Task
    BY DEF TypeOK, Task, Flagged
  <2>2. Good(disk, Flagged(disk, actor), "set", Nobody)
    BY Fields DEF TypeOK, Task, Flagged
  <2> QED
    BY <2>1, <2>2
<1>2. /\ Unflagged(disk) \in Task
      /\ Good(disk, Unflagged(disk), "set", Nobody)
  <2>1. Unflagged(disk) \in Task
    BY DEF TypeOK, Task, Unflagged
  <2>2. Good(disk, Unflagged(disk), "set", Nobody)
    BY Fields DEF TypeOK, Task, Unflagged
  <2> QED
    BY <2>1, <2>2
<1> QED
  BY <1>1, <1>2 DEF SetFlag, Prepares, Commands, Names

LEMMA SetSessionPrepares ==
    ASSUME TypeOK, NEW p \in Procs, SetSession(p)
    PROVE  Prepares(p)
<1>1. ASSUME NEW s \in Sessions \cup {NoSid}
      PROVE  /\ Owned(disk, s) \in Task
             /\ Good(disk, Owned(disk, s), "set", Nobody)
  <2>1. Owned(disk, s) \in Task
    BY DEF TypeOK, Task, Owned
  <2>2. Good(disk, Owned(disk, s), "set", Nobody)
    BY Fields DEF TypeOK, Task, Owned
  <2> QED
    BY <2>1, <2>2
<1> QED
  BY <1>1 DEF SetSession, Prepares, Commands, Names

LEMMA SetPlainPrepares ==
    ASSUME TypeOK, NEW p \in Procs, SetPlain(p)
    PROVE  Prepares(p)
<1>0. PICK key \in SetKeys :
         \E v \in PlainValues(key) :
             Prepare(p, "set", With(disk, key, v), Nobody)
  BY DEF SetPlain
<1>1. PICK v \in PlainValues(key) :
         Prepare(p, "set", With(disk, key, v), Nobody)
  BY <1>0
<1>2. /\ key \in Keys /\ v \in Values(key)
      /\ key \in {"defer_date", "planned_date", "aborted_reason",
                  "gate_successor", "recurring", "approved_by", "approved_at"}
  BY <1>0, <1>1 DEF PlainValues, Values, Names
<1>3. With(disk, key, v) \in Task
  BY <1>2, WithTask DEF TypeOK
<1> DEFINE t == With(disk, key, v)
<1>4. DOMAIN disk = Keys \cup {"boxes"} /\ disk \in Task
  BY KeysAre DEF TypeOK, Task
<1>5. \A k \in Keys : t[k] = IF k = key THEN v ELSE disk[k]
  BY <1>2, <1>4, WithTask
<1> HIDE DEF t
<1>6. Lawful(disk, t, "set", Nobody)
  BY <1>2, <1>4, <1>5, KeysAre, Fields
<1>7. ASSUME Untouched, Whole(disk)
      PROVE  Whole(t)
  <2>1. key \notin Evidence /\ key \notin {"flag", "status"}
    BY <1>0, <1>2, <1>7 DEF Untouched
  <2>2. \A k \in Evidence \cup {"flag", "status"} : t[k] = disk[k]
    BY <1>5, <2>1, KeysAre DEF Evidence
  <2> QED
    BY <1>7, <2>2 DEF Evidence
<1>8. Good(disk, t, "set", Nobody)
  BY <1>6, <1>7, Zenon DEF Good
<1> QED
  BY <1>1, <1>3, <1>8 DEF t, Prepares, Commands, Names

LEMMA ClearPrepares ==
    ASSUME TypeOK, NEW p \in Procs, Clear(p)
    PROVE  Prepares(p)
<1>1. PICK key \in ClearKeys :
         Prepare(p, "clear",
                 IF key = "flag" THEN Unflagged(disk)
                                 ELSE With(disk, key, Blank[key]),
                 IF key = "assignee" THEN Loser(disk) ELSE Nobody)
  BY DEF Clear
<1> DEFINE t == IF key = "flag" THEN Unflagged(disk)
                                ELSE With(disk, key, Blank[key])
           name == IF key = "assignee" THEN Loser(disk) ELSE Nobody
<1>2. key \in Keys /\ Blank[key] \in Values(key)
  <2>1. key \in Keys /\ 0 \in 0..Days
    BY <1>1
  <2>2. CASE key \in {"status", "phase", "assignee", "claude_session_id",
                     "metrics_sessions", "defer_date", "planned_date"}
    BY <2>1, <2>2 DEF Blank, Values, Names, Statuses, Phases, NewPhases
  <2>3. CASE key \in {"approved_by", "flag_set_by"}
    BY <2>3 DEF Blank, Values, Names
  <2>4. CASE key \in {"approved_at", "flag", "flag_set_at", "recurring",
                     "aborted_reason", "gate_successor"}
    <3>1. Values(key) = BOOLEAN
      BY <2>4 DEF Values
    <3>2. Blank[key] = FALSE
      BY <2>4 DEF Blank
    <3> QED
      BY <2>1, <3>1, <3>2, Zenon
  <2> QED
    BY <2>1, <2>2, <2>3, <2>4, KeysAre
<1>3. name \in Names
  BY Fields DEF TypeOK, Loser, Names
<1>4. CASE key = "flag"
  <2>1. t \in Task
    BY <1>4, Fields DEF TypeOK, Task, Unflagged
  <2>2. Good(disk, t, "clear", name)
    BY <1>4, Fields DEF TypeOK, Task, Unflagged
  <2> QED
    BY <1>1, <1>3, <2>1, <2>2 DEF Prepares, Commands
<1>5. CASE key # "flag"
  <2>1. t = With(disk, key, Blank[key])
    BY <1>5
  <2>2. t \in Task
    BY <1>2, <2>1, WithTask DEF TypeOK
  <2>3. DOMAIN disk = Keys \cup {"boxes"} /\ disk \in Task
    BY KeysAre DEF TypeOK, Task
  <2>4. \A k \in Keys : t[k] = IF k = key THEN Blank[key] ELSE disk[k]
    BY <1>2, <2>1, <2>3, WithTask
  <2>5. /\ key = "status" => Blank[key] = "none"
        /\ key = "phase" => Blank[key] = "none"
    BY DEF Blank
  <2> HIDE DEF t
  <2>6. Lawful(disk, t, "clear", name)
    BY <1>5, <2>3, <2>4, <2>5, KeysAre, Fields DEF Loser
  <2>7. ASSUME Untouched, Whole(disk)
        PROVE  Whole(t)
    <3>1. key \notin Evidence
      BY <1>1, <2>7 DEF Untouched
    <3>2. /\ \A k \in Evidence \cup {"flag"} : t[k] = disk[k]
          /\ t.status = "aborted" => disk.status = "aborted"
      BY <1>5, <2>4, <2>5, <3>1, KeysAre DEF Evidence
    <3> QED
      BY <2>7, <3>2 DEF Evidence
  <2>8. Good(disk, t, "clear", name)
    BY <2>6, <2>7, Zenon DEF Good
  <2> QED
    BY <1>1, <1>3, <2>2, <2>8 DEF t, Prepares, Commands
<1> QED
  BY <1>4, <1>5

LEMMA ApprovePrepares ==
    ASSUME TypeOK, NEW p \in Procs, Approve(p)
    PROVE  Prepares(p)
<1>1. PICK approver \in Users, given \in Names, user \in Names :
         /\ disk.phase = "todo"
         /\ Owner(disk, given, user) # Nobody
         /\ Prepare(p, "approve",
                    Approved(disk, approver, Owner(disk, given, user)), Nobody)
  BY DEF Approve, Names
<1> DEFINE owner == Owner(disk, given, user)
<1>2. owner \in Users
  BY <1>1, Fields DEF TypeOK, Owner, Names
<1> HIDE DEF owner
<1> DEFINE t == Approved(disk, approver, owner)
<1>3. t \in Task
  BY <1>2 DEF TypeOK, Task, Approved, Phases, NewPhases
<1>4. Good(disk, t, "approve", Nobody)
  BY <1>1, <1>2, Fields DEF TypeOK, Task, Approved
<1> QED
  BY <1>1, <1>3, <1>4 DEF Prepares, Commands, Names, owner

LEMMA CompletePrepares ==
    ASSUME TypeOK, NEW p \in Procs, Complete(p)
    PROVE  Prepares(p)
<1>1. PICK why \in BOOLEAN, heir \in BOOLEAN :
         Prepare(p, "complete",
                 [CloseOut(disk, "completed", why, heir)
                     EXCEPT !.status = "completed", !.phase = "done"],
                 Nobody)
  BY DEF Complete
<1> DEFINE u == CloseOut(disk, "completed", why, heir)
           t == [u EXCEPT !.status = "completed", !.phase = "done"]
<1>2. /\ u \in Task
      /\ \A k \in DOMAIN disk \ {"aborted_reason", "gate_successor"} :
             u[k] = disk[k]
  BY CloseOutTask DEF TypeOK
<1>3. Prepare(p, "complete", t, Nobody)
  BY <1>1
<1> HIDE DEF u
<1>4. t \in Task
  BY <1>2 DEF Task, Statuses, Phases, NewPhases
<1>5. Good(disk, t, "complete", Nobody)
  <2>1. Lawful(disk, t, "complete", Nobody)
    BY <1>2, Fields DEF TypeOK, Task
  <2>2. Whole(disk) => Whole(t)
    BY <1>2, Fields DEF TypeOK, Task
  <2> QED
    BY <2>1, <2>2, Zenon DEF Good
<1> QED
  BY <1>3, <1>4, <1>5 DEF Prepares, Commands, Names

\* A deferral changes the two dates only.
LEMMA DeferredTask ==
    ASSUME NEW t \in Task, NEW day \in 0..Days
    PROVE  /\ Deferred(t, day) \in Task
           /\ \A k \in DOMAIN t \ {"defer_date", "planned_date"} :
                  Deferred(t, day)[k] = t[k]
<1> DEFINE d == IF t.planned_date < day THEN 0 ELSE t.planned_date
<1>1. d \in 0..Days
  BY Fields
<1>2. Deferred(t, day) = [t EXCEPT !.defer_date = day, !.planned_date = d]
  BY DEF Deferred
<1> HIDE DEF d
<1> QED
  BY <1>1, <1>2 DEF Task

LEMMA CompleteRecurringPrepares ==
    ASSUME TypeOK, NEW p \in Procs, CompleteRecurring(p)
    PROVE  Prepares(p)
<1>1. PICK next \in (today + 1)..Days :
         /\ disk.recurring
         /\ Prepare(p, "complete",
                    [Deferred(disk, next)
                       EXCEPT !.boxes = Reset(@), !.phase = "none",
                              !.claude_session_id = NoSid,
                              !.metrics_sessions = {}],
                    Nobody)
  BY DEF CompleteRecurring
<1> DEFINE u == Deferred(disk, next)
           t == [u EXCEPT !.boxes = Reset(@), !.phase = "none",
                          !.claude_session_id = NoSid, !.metrics_sessions = {}]
<1>2. /\ u \in Task
      /\ \A k \in DOMAIN disk \ {"defer_date", "planned_date"} : u[k] = disk[k]
  BY DeferredTask DEF TypeOK
<1>3. Prepare(p, "complete", t, Nobody)
  BY <1>1
<1> HIDE DEF u
<1>4. Reset(u.boxes) \in SUBSET Boxes
  BY <1>2, Fields DEF Reset, Boxes
<1>5. t \in Task
  BY <1>2, <1>4 DEF Task, Phases, NewPhases
<1>6. Good(disk, t, "complete", Nobody)
  <2>1. Lawful(disk, t, "complete", Nobody)
    BY <1>1, <1>2, Fields DEF TypeOK, Task
  <2>2. Whole(disk) => Whole(t)
    BY <1>1, <1>2, Fields DEF TypeOK, Task
  <2> QED
    BY <2>1, <2>2, Zenon DEF Good
<1> QED
  BY <1>3, <1>5, <1>6 DEF Prepares, Commands, Names

LEMMA DeferPrepares ==
    ASSUME TypeOK, NEW p \in Procs, Defer(p)
    PROVE  Prepares(p)
<1>1. PICK day \in today..Days :
         Prepare(p, "defer",
                 [Deferred(disk, day) EXCEPT
                     !.status = IF @ \in {"next", "backlog", "hold"}
                                THEN "in_progress" ELSE @],
                 Nobody)
  BY DEF Defer
<1> DEFINE u == Deferred(disk, day)
           t == [u EXCEPT !.status = IF @ \in {"next", "backlog", "hold"}
                                     THEN "in_progress" ELSE @]
<1>2. /\ u \in Task
      /\ \A k \in DOMAIN disk \ {"defer_date", "planned_date"} : u[k] = disk[k]
  BY DeferredTask DEF TypeOK
<1>3. Prepare(p, "defer", t, Nobody)
  BY <1>1
<1> HIDE DEF u
<1>4. t \in Task
  BY <1>2, Fields DEF Task, Statuses
<1>5. Good(disk, t, "defer", Nobody)
  BY <1>2, Fields DEF TypeOK, Task
<1> HIDE DEF t
<1> QED
  BY <1>3, <1>4, <1>5 DEF Prepares, Commands, Names

LEMMA UpdatePrepares ==
    ASSUME TypeOK, NEW p \in Procs, Update(p)
    PROVE  Prepares(p)
<1> DEFINE s == Progress(disk.boxes)
           t == [disk EXCEPT !.status = s]
<1>1. s \in {"completed", "in_progress", "next"}
  BY DEF Progress
<1>2. Prepare(p, "update", t, Nobody)
  BY DEF Update
<1> HIDE DEF s
<1>3. t \in Task
  BY <1>1 DEF TypeOK, Task, Statuses
<1>4. Good(disk, t, "update", Nobody)
  BY <1>1, Fields DEF TypeOK, Task, Statuses
<1> QED
  BY <1>2, <1>3, <1>4 DEF Prepares, Commands, Names

LEMMA EnterWorkPrepares ==
    ASSUME TypeOK, NEW p \in Procs, EnterWork(p)
    PROVE  Prepares(p)
<1>1. PICK user \in Users :
         /\ disk.phase # "todo"
         /\ Prepare(p, "work-on",
                    [disk EXCEPT
                       !.phase = IF @ = "none" THEN "planning" ELSE @,
                       !.status = "in_progress",
                       !.assignee = IF @ = Nobody THEN user ELSE @],
                    Nobody)
  BY DEF EnterWork
<1> DEFINE ph == IF disk.phase = "none" THEN "planning" ELSE disk.phase
           a == IF disk.assignee = Nobody THEN user ELSE disk.assignee
           t == [disk EXCEPT !.phase = ph, !.status = "in_progress",
                             !.assignee = a]
<1>2. /\ ph \in Phases /\ a \in Names
      /\ ph = disk.phase \/ disk.phase = "none"
      /\ a = disk.assignee \/ disk.assignee = Nobody
  BY Fields DEF TypeOK, Phases, NewPhases, Names
<1>3. Prepare(p, "work-on", t, Nobody)
  BY <1>1
<1> HIDE DEF ph, a
<1>4. t \in Task
  BY <1>2 DEF TypeOK, Task, Statuses, Names
<1>5. Good(disk, t, "work-on", Nobody)
  BY <1>1, <1>2, Fields DEF TypeOK, Task
<1> QED
  BY <1>3, <1>4, <1>5 DEF Prepares, Commands, Names

LEMMA SessionListPrepares ==
    ASSUME TypeOK, NEW p \in Procs, AppendSession(p) \/ RemoveSession(p)
    PROVE  Prepares(p)
<1> DEFINE WithList(ss) == [disk EXCEPT !.metrics_sessions = ss]
<1>1. ASSUME NEW ss \in SUBSET Sessions
      PROVE  WithList(ss) \in Task
  BY DEF TypeOK, Task
<1>2. disk \in Task /\ disk.metrics_sessions \in SUBSET Sessions
  BY Fields DEF TypeOK
<1>3. CASE AppendSession(p)
  <2>1. PICK s \in Sessions :
          Prepare(p, "append", WithList(disk.metrics_sessions \cup {s}), Nobody)
    BY <1>3 DEF AppendSession
  <2> DEFINE t == WithList(disk.metrics_sessions \cup {s})
  <2>2. t \in Task
    BY <1>1, <1>2
  <2>3. Good(disk, t, "append", Nobody)
    BY <1>2, Fields DEF Task
  <2> HIDE DEF t
  <2> QED
    BY <2>1, <2>2, <2>3 DEF t, Prepares, Commands, Names
<1>4. CASE RemoveSession(p)
  <2>1. PICK s \in Sessions :
          Prepare(p, "remove", WithList(disk.metrics_sessions \ {s}), Nobody)
    BY <1>2, <1>4 DEF RemoveSession
  <2> DEFINE t == WithList(disk.metrics_sessions \ {s})
  <2>2. t \in Task
    BY <1>1, <1>2
  <2>3. Good(disk, t, "remove", Nobody)
    BY <1>2, Fields DEF Task
  <2> HIDE DEF t
  <2> QED
    BY <2>1, <2>2, <2>3 DEF t, Prepares, Commands, Names
<1> QED
  BY <1>3, <1>4

--------------------------------------------------------------------------
(* The theorems.                                                           *)

HIDE DEF Good, Lawful, Whole, ApprovalRecorded, AbortRecorded, FlagRaisedBy,
         PhaseKept, UnderWayKept, FinishedKept, SessionsKept, Resolvable,
         LossAnnounced

\* A step is a command's, a write, a lost write, or midnight.
LEMMA StepCases ==
    ASSUME TypeOK, Next
    PROVE  \/ \E p \in Procs : Prepares(p) \/ Write(p) \/ Drop(p)
           \/ NewDay
<1>1. ASSUME NEW p \in Procs, Set(p)
      PROVE  Prepares(p)
  BY <1>1, SetStatusPrepares, SetPhasePrepares, SetAssigneePrepares,
     SetFlagPrepares, SetSessionPrepares, SetPlainPrepares DEF Set
<1>2. ASSUME NEW p \in Procs,
             \/ Clear(p) \/ Approve(p) \/ Complete(p) \/ CompleteRecurring(p)
             \/ Defer(p) \/ Update(p) \/ EnterWork(p)
             \/ AppendSession(p) \/ RemoveSession(p)
      PROVE  Prepares(p)
  BY <1>2, ClearPrepares, ApprovePrepares, CompletePrepares,
     CompleteRecurringPrepares, DeferPrepares, UpdatePrepares,
     EnterWorkPrepares, SessionListPrepares
<1> QED
  BY <1>1, <1>2 DEF Next

\* A write replaces the file, and makes every other copy stale.
LEMMA WriteKeeps ==
    ASSUME TypeOK, LawfulInv, NEW p \in Procs, Write(p)
    PROVE  TypeOK' /\ LawfulInv'
  BY DEF Write, TypeOK, LawfulInv

\* A lost write and midnight leave the file alone.
LEMMA DropKeeps ==
    ASSUME TypeOK, LawfulInv, NEW p \in Procs, Drop(p)
    PROVE  TypeOK' /\ LawfulInv'
  BY DEF Drop, TypeOK, LawfulInv

LEMMA NewDayKeeps ==
    ASSUME TypeOK, LawfulInv, NewDay
    PROVE  TypeOK' /\ LawfulInv'
  BY DEF NewDay, TypeOK, LawfulInv

LEMMA StutterKeeps ==
    ASSUME TypeOK, LawfulInv, UNCHANGED vars
    PROVE  TypeOK' /\ LawfulInv'
  BY DEF vars, TypeOK, LawfulInv

\* The inductive invariant of the commands.
LEMMA Inductive ==
    Spec => [](TypeOK /\ LawfulInv)
<1>1. Init => TypeOK /\ LawfulInv
  BY DEF Init, TypeOK, LawfulInv, Commands, Task
<1>2. TypeOK /\ LawfulInv /\ [Next]_vars => TypeOK' /\ LawfulInv'
  BY StepCases, PrepareKeeps, WriteKeeps, DropKeeps, NewDayKeeps, StutterKeeps
<1> QED
  BY <1>1, <1>2, PTL DEF Spec

\* Every variable of the task commands (frontmatter.go, task_approve.go,
\* complete.go, defer.go, update.go, workon.go) stays in its type.
THEOREM TypeCorrect == Spec => []TypeOK
  BY Inductive, PTL

\* Every command, working on an up to date copy, is about to write a lawful
\* successor of the file.
THEOREM CommandsLawful == Spec => []LawfulInv
  BY Inductive, PTL

\* A write from a fresh copy is lawful.
LEMMA FreshWrite ==
    ASSUME TypeOK, LawfulInv, NEW p \in Procs, fresh[p], Write(p)
    PROVE  Lawful(disk, disk', cmd[p], tell[p])
  BY Zenon DEF Write, LawfulInv

\* The approval gate: nothing but an approval, or a write that races one,
\* takes a filed task to planning (task_approve.go, frontmatter.go:414,
\* workon.go:307).
THEOREM ApprovalGate == Spec => InboxGuarded
<1>1. TypeOK /\ LawfulInv /\ [Next]_vars =>
        [\A p \in Procs :
            fresh[p] /\ Write(p) => ApprovalRecorded(disk, disk')]_vars
  BY FreshWrite, Zenon DEF Lawful
<1> QED
  BY <1>1, Inductive, PTL DEF Spec, InboxGuarded

\* The close-out guard: no command aborts without a reason and a successor
\* (closeout.go:20, task_frontmatter.go:200).
THEOREM CloseOutGuard == Spec => AbortExplained
<1>1. TypeOK /\ LawfulInv /\ [Next]_vars =>
        [\A p \in Procs :
            fresh[p] /\ Write(p) => AbortRecorded(disk, disk')]_vars
  BY FreshWrite, Zenon DEF Lawful
<1> QED
  BY <1>1, Inductive, PTL DEF Spec, AbortExplained

\* A flag appears together with its writer (frontmatter.go:243).
THEOREM FlagProvenance == Spec => FlagExplained
<1>1. TypeOK /\ LawfulInv /\ [Next]_vars =>
        [\A p \in Procs :
            fresh[p] /\ Write(p) => FlagRaisedBy(disk, disk')]_vars
  BY FreshWrite, Zenon DEF Lawful
<1> QED
  BY <1>1, Inductive, PTL DEF Spec, FlagExplained

\* Only a forced set takes work in progress from execution or a review back to
\* planning or the inbox, and a completed task, done or not, is moved to planning
\* only by a forced set, an approval from the inbox, or a work-on that reopens a
\* task without a phase (frontmatter.go:366-386).
THEOREM PhaseOrder == Spec => NoRegression
<1>1. TypeOK /\ LawfulInv /\ [Next]_vars =>
        [\A p \in Procs :
            fresh[p] /\ Write(p) => PhaseKept(disk, disk', cmd[p])]_vars
  BY FreshWrite, Zenon DEF Lawful
<1> QED
  BY <1>1, Inductive, PTL DEF Spec, NoRegression

\* A session that owned the task stays resolvable (frontmatter.go:186).
THEOREM SessionsResolvable == Spec => OwnersResolvable
<1>1. TypeOK /\ LawfulInv /\ [Next]_vars =>
        [\A p \in Procs :
            fresh[p] /\ Write(p) => SessionsKept(disk, disk', cmd[p])]_vars
  BY FreshWrite, Zenon DEF Lawful
<1> QED
  BY <1>1, Inductive, PTL DEF Spec, OwnersResolvable

\* Whoever loses the task is named in the notification (frontmatter.go:443).
THEOREM Announcement == Spec => LossesAnnounced
<1>1. TypeOK /\ LawfulInv /\ [Next]_vars =>
        [\A p \in Procs :
            fresh[p] /\ Write(p) => LossAnnounced(disk, disk', tell[p])]_vars
  BY FreshWrite, Zenon DEF Lawful
<1> QED
  BY <1>1, Inductive, PTL DEF Spec, LossesAnnounced

\* The file is whole, and so is everything about to replace it.
WholeInv ==
    /\ Whole(disk)
    /\ \A p \in Procs : pc[p] = "write" => Whole(mem[p])

\* Lost updates never tear a record from what vouches for it, as long as
\* nobody sets or clears the vouching keys by hand: every command writes
\* both in one WriteTask (frontmatter.go:169, task_approve.go:145,
\* complete.go:133).
THEOREM RecordsWhole ==
    ASSUME Untouched, \A t \in InitialTasks : Whole(t)
    PROVE  Spec => []EvidenceWhole
<1>1. Init => WholeInv
  BY Zenon DEF Init, WholeInv
<1>2. ASSUME TypeOK, WholeInv, NEW p \in Procs, Prepares(p)
      PROVE  WholeInv'
  <2>1. PICK c \in Commands, t \in Task, name \in Names :
           Prepare(p, c, t, name) /\ Whole(t)
    BY <1>2, Zenon DEF Prepares, Good, WholeInv
  <2>2. /\ disk' = disk
        /\ mem' = [mem EXCEPT ![p] = t] /\ pc' = [pc EXCEPT ![p] = "write"]
    BY <2>1 DEF Prepare
  <2>3. ASSUME NEW q \in Procs, pc'[q] = "write"
        PROVE  Whole(mem'[q])
    <3>1. CASE q = p
      <4>1. mem'[q] = t
        BY <1>2, <2>2, <3>1 DEF TypeOK
      <4> QED
        BY <2>1, <4>1, Zenon
    <3>2. CASE q # p
      <4>1. mem'[q] = mem[q] /\ pc[q] = "write"
        BY <1>2, <2>2, <2>3, <3>2 DEF TypeOK
      <4> QED
        BY <1>2, <4>1, Zenon DEF WholeInv
    <3> QED
      BY <3>1, <3>2
  <2> QED
    BY <1>2, <2>2, <2>3, Zenon DEF WholeInv
<1>3. ASSUME TypeOK, WholeInv, NEW p \in Procs, Write(p) \/ Drop(p)
      PROVE  WholeInv'
  <2>1. /\ disk' = disk \/ (pc[p] = "write" /\ disk' = mem[p])
        /\ mem' = mem
        /\ \A q \in Procs : pc'[q] = "write" => pc[q] = "write"
    BY <1>3 DEF Write, Drop, TypeOK
  <2> QED
    BY <1>3, <2>1, Zenon DEF WholeInv
<1>4. ASSUME WholeInv, NewDay \/ UNCHANGED vars
      PROVE  WholeInv'
  <2>1. disk' = disk /\ mem' = mem /\ pc' = pc
    BY <1>4 DEF NewDay, vars
  <2> QED
    BY <1>4, <2>1, Zenon DEF WholeInv
<1>5. TypeOK /\ WholeInv /\ [Next]_vars => WholeInv'
  BY <1>2, <1>3, <1>4, StepCases
<1>6. WholeInv => EvidenceWhole
  BY Zenon DEF WholeInv, EvidenceWhole
<1> QED
  BY <1>1, <1>5, <1>6, TypeCorrect, PTL DEF Spec
============================================================================
