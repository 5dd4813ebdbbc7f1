-------------------------- MODULE WorkOnSession --------------------------
(***************************************************************************)
(* `vault-cli task work-on` run by several invocations on ONE task file:   *)
(* pkg/ops/workon.go (Execute, handleClaudeSession), claude_session.go     *)
(* (StartSession), claude_resume.go (ResumeSession), session_lock.go.      *)
(*                                                                         *)
(* Every read of the task file, every write of it and every lock or        *)
(* process operation is a step of its own, so invocations, the claude      *)
(* children they spawn and other writers of the vault interleave between   *)
(* a read and the write computed from it.  An invocation p mints at most   *)
(* one session id; that id is p itself.  Old is a session that was on the  *)
(* task before the first invocation.                                       *)
(*                                                                         *)
(* Left out: the daily note (another file, whose failure is a warning),    *)
(* warnings and messages, and torn file writes (WriteTask is one step).    *)
(***************************************************************************)
EXTENDS Naturals

CONSTANTS
    Procs,        \* the work-on invocations
    Old,          \* a session that already existed
    NoSid,        \* claude_session_id missing or empty
    Child,        \* stands for the spawned claude child among lock holders
    None,         \* no writer, in the abstract specification
    Users,        \* assignees
    Nobody,       \* blank assignee
    User,         \* User[p]: the current user of invocation p
    Invocations,  \* launch configurations an invocation can have
    Faults,       \* which of the failures in FaultKinds the environment has
    MaxEdits      \* bound on writes of the task file by other programs

Sessions == Procs \cup {Old}

FaultKinds == {"crash", "storage", "launcher", "lockdir", "spawn"}

ASSUME SessionAssumption ==
    Old \notin Procs /\ NoSid \notin Sessions

ASSUME HolderAssumption ==
    Child \notin Procs /\ None \notin Procs \cup {Child}

ASSUME UserAssumption ==
    Nobody \notin Users /\ User \in [Procs -> Users]

ASSUME InvocationAssumption ==
    Invocations \subseteq
        [interactive : BOOLEAN, \* --mode interactive: bootstrap, then exec
         starter     : BOOLEAN, \* the launcher's starter exists
         resumer     : BOOLEAN, \* the launcher's resumer exists
         explicit    : BOOLEAN] \* resolved launcher # the vault's own

ASSUME FaultAssumption == Faults \subseteq FaultKinds

ASSUME EditAssumption == MaxEdits \in Nat

VARIABLES
    disk,   \* the frontmatter of the task file
    mem,    \* mem[p]: the copy of it p read last
    fresh,  \* fresh[p] (history): nobody wrote the file since p read it
    pc,     \* where invocation p is
    tgt,    \* tgt[p]: the session id p handles
    inv,    \* inv[p]: the launch configuration of p
    lock,   \* lock[s]: who has the flock on s.lock open
    child,  \* child[s]: what became of the headless turn of session s
    edits   \* writes by other programs so far

vars == <<disk, mem, fresh, pc, tgt, inv, lock, child, edits>>

Phases == {"none", "todo", "planning", "execution"}

Task == [phase    : Phases,
         status   : {"next", "in_progress"},
         assignee : Users \cup {Nobody},
         sid      : Sessions \cup {NoSid},
         metrics  : SUBSET Sessions]

Locations == {"find", "enter", "write", "session", "reread", "persist",
              "lock", "spawn", "wait", "clear", "clearwrite", "resume",
              "exec", "claude", "done", "failed", "refused", "dead"}

\* The invocation has returned, or was killed.
Ended == {"done", "failed", "refused", "dead"}

\* Where an invocation has its own descriptor of the lock file open.
Holding == {"spawn", "wait", "exec", "claude"}

\* A headless turn: not spawned, running, exited 0 with a result that
\* validates, exited non-zero with one that validates, exited without one.
ChildStates == {"unborn", "running", "good", "nonzero", "bad"}

TypeOK ==
    /\ disk \in Task
    /\ mem \in [Procs -> Task]
    /\ fresh \in [Procs -> BOOLEAN]
    /\ pc \in [Procs -> Locations]
    /\ tgt \in [Procs -> Sessions \cup {NoSid}]
    /\ inv \in [Procs -> Invocations]
    /\ lock \in [Sessions -> SUBSET (Procs \cup {Child})]
    /\ child \in [Sessions -> ChildStates]
    /\ edits \in 0..MaxEdits

--------------------------------------------------------------------------
Init ==
    /\ \E ph \in Phases, a \in Users \cup {Nobody}, s \in {NoSid, Old} :
           disk = [phase |-> ph, status |-> "next", assignee |-> a,
                   sid |-> s, metrics |-> {s} \ {NoSid}]
    /\ mem = [p \in Procs |-> disk]
    /\ fresh = [p \in Procs |-> FALSE]
    /\ pc = [p \in Procs |-> "find"]
    /\ tgt = [p \in Procs |-> NoSid]
    /\ inv \in [Procs -> Invocations]
    /\ lock = [s \in Sessions |-> {}]
    /\ child = [s \in Sessions |-> IF s = Old THEN "good" ELSE "unborn"]
    /\ edits = 0

Goto(p, l) == pc' = [pc EXCEPT ![p] = l]

\* p moves on without reading or writing anything shared.
Silent(p, from, to) ==
    /\ pc[p] = from
    /\ Goto(p, to)
    /\ UNCHANGED <<disk, mem, fresh, tgt, inv, lock, child, edits>>

\* Mutant: the step keeps the copy p already had.
ReadTask_Stale(p) ==
    /\ fresh' = [fresh EXCEPT ![p] = TRUE]
    /\ UNCHANGED <<disk, mem>>

\* FindTaskByName: p takes a copy of the task file.
ReadTask(p) ==
    /\ mem' = [mem EXCEPT ![p] = disk]
    /\ fresh' = [fresh EXCEPT ![p] = TRUE]
    /\ UNCHANGED disk

\* WriteTask: the whole file is replaced, every other copy goes stale.
WriteTask(t) ==
    /\ disk' = t
    /\ fresh' = [p \in Procs |-> FALSE]

--------------------------------------------------------------------------
(* Execute: find the task, resolve the launcher, enter the workflow.       *)

Find(p) ==
    /\ pc[p] = "find"
    /\ ReadTask(p)
    /\ Goto(p, "enter")
    /\ UNCHANGED <<tgt, inv, lock, child, edits>>

FindError(p) == "storage" \in Faults /\ Silent(p, "find", "failed")

\* sessionPair: an explicitly chosen launcher must offer what this run needs.
LauncherMissing(p) ==
    /\ inv[p].explicit
    /\ \/ mem[p].sid = NoSid /\ ~inv[p].starter
       \/ inv[p].interactive /\ ~inv[p].resumer

\* Mutant: the inbox is forgotten.
InInbox_Never(t) == FALSE

\* advancePhaseIfEntering: a row in the approval inbox is not worked on.
InInbox(t) == t.phase = "todo"

\* Mutant: the matrix always assigns the current user.
Assign_Always(a, user) == user

\* applyAssigneeMatrix: only a blank assignee is filled in.
Assign(a, user) == IF a = Nobody THEN user ELSE a

\* advancePhaseIfEntering, SetStatus and applyAssigneeMatrix on the copy.
Entered(t, user) ==
    [t EXCEPT !.phase = IF @ = "none" THEN "planning" ELSE @,
              !.status = "in_progress",
              !.assignee = Assign(@, user)]

Enter(p) ==
    /\ pc[p] = "enter"
    /\ ~LauncherMissing(p)
    /\ ~InInbox(mem[p])
    /\ mem' = [mem EXCEPT ![p] = Entered(@, User[p])]
    /\ Goto(p, "write")
    /\ UNCHANGED <<disk, fresh, tgt, inv, lock, child, edits>>

\* A goal conflict or unreadable goal (ResolveTaskLauncher), a missing
\* launcher or the inbox: nothing was written.
EnterRefused(p) ==
    /\ Silent(p, "enter", "failed")
    /\ "launcher" \in Faults \/ LauncherMissing(p) \/ InInbox(mem[p])

Write(p) ==
    /\ pc[p] = "write"
    /\ WriteTask(mem[p])
    /\ Goto(p, "session")
    /\ UNCHANGED <<mem, tgt, inv, lock, child, edits>>

WriteError(p) == "storage" \in Faults /\ Silent(p, "write", "failed")

--------------------------------------------------------------------------
(* handleClaudeSession: cached id, no starter, or a fresh id.              *)

\* The copy read at the start names a session: it is re-persisted.
UseCached(p) ==
    /\ pc[p] = "session"
    /\ mem[p].sid # NoSid
    /\ tgt' = [tgt EXCEPT ![p] = mem[p].sid]
    /\ Goto(p, "reread")
    /\ UNCHANGED <<disk, mem, fresh, inv, lock, child, edits>>

\* ErrStarterUnavailable is a warning: work-on succeeds with no session.
NoStarter(p) ==
    /\ mem[p].sid = NoSid
    /\ ~inv[p].starter
    /\ Silent(p, "session", "done")

\* Mutant: the generated id is not passed on.
Mint_Unset(p) ==
    /\ mem[p].sid = NoSid
    /\ inv[p].starter
    /\ Silent(p, "session", "reread")

Mint(p) ==
    /\ pc[p] = "session"
    /\ mem[p].sid = NoSid
    /\ inv[p].starter
    /\ tgt' = [tgt EXCEPT ![p] = p]
    /\ Goto(p, "reread")
    /\ UNCHANGED <<disk, mem, fresh, inv, lock, child, edits>>

\* persistSessionAndMetrics, the read.
Reread(p) ==
    /\ pc[p] = "reread"
    /\ ReadTask(p)
    /\ Goto(p, "persist")
    /\ UNCHANGED <<tgt, inv, lock, child, edits>>

RereadError(p) == "storage" \in Faults /\ Silent(p, "reread", "failed")

\* The session is settled: exec into it, or return its id.
Settled(p) ==
    IF inv[p].interactive /\ inv[p].resumer THEN "resume" ELSE "done"

\* persistSessionAndMetrics, the write: a fresh id is now on disk before its
\* child exists; a cached one needs no child.
Persist(p) ==
    /\ pc[p] = "persist"
    /\ WriteTask([mem[p] EXCEPT !.sid = IF @ = NoSid THEN tgt[p] ELSE @,
                                !.metrics = @ \cup {tgt[p]}])
    /\ Goto(p, IF tgt[p] = p THEN "lock" ELSE Settled(p))
    /\ UNCHANGED <<mem, tgt, inv, lock, child, edits>>

PersistError(p) == "storage" \in Faults /\ Silent(p, "persist", "failed")

--------------------------------------------------------------------------
(* The lock: an open file description per acquisition; flock excludes all  *)
(* others until every descriptor of that description is closed.            *)

\* Mutant: Acquire does not look at the lock.
Free_Always(s) == TRUE

Free(s) == lock[s] = {}

Taken(s, p) == [lock EXCEPT ![s] = @ \cup {p}]

\* Mutant: Release unlocks (LOCK_UN) whoever else has the description open.
Released_Unlock(s, p) == [lock EXCEPT ![s] = {}]

\* Mutant: Release is forgotten.
Released_Forgotten(s, p) == lock

\* Release closes p's descriptor; it does not unlock the description.
Released(s, p) == [lock EXCEPT ![s] = @ \ {p}]

--------------------------------------------------------------------------
(* StartSession: lock, spawn, wait for the headless turn.                  *)

Acquire(p) ==
    /\ pc[p] = "lock"
    /\ Free(tgt[p])
    /\ lock' = Taken(tgt[p], p)
    /\ Goto(p, "spawn")
    /\ UNCHANGED <<disk, mem, fresh, tgt, inv, child, edits>>

\* ErrSessionBusy or an unusable lock directory.
AcquireFails(p) ==
    /\ Silent(p, "lock", "clear")
    /\ "lockdir" \in Faults \/ ~Free(tgt[p])

\* The child inherits the lock's descriptor: close-on-exec is off.
Spawn(p) ==
    /\ pc[p] = "spawn"
    /\ child' = [child EXCEPT ![p] = "running"]
    /\ lock' = Taken(p, Child)
    /\ Goto(p, "wait")
    /\ UNCHANGED <<disk, mem, fresh, tgt, inv, edits>>

SpawnFails(p) ==
    /\ pc[p] = "spawn"
    /\ "spawn" \in Faults
    /\ lock' = Released(p, p)
    /\ Goto(p, "clear")
    /\ UNCHANGED <<disk, mem, fresh, tgt, inv, child, edits>>

\* A validated result outranks the exit status, except that the blocking
\* runner fails first on a non-zero exit.
TurnValid(p) ==
    \/ child[p] = "good"
    \/ child[p] = "nonzero" /\ ~inv[p].interactive

\* Mutant: the deferred release is missing on this path.
TurnEnds_KeepsLock(p) ==
    /\ pc[p] = "wait"
    /\ child[p] # "running"
    /\ Goto(p, IF TurnValid(p) THEN Settled(p) ELSE "clear")
    /\ UNCHANGED <<disk, mem, fresh, tgt, inv, lock, child, edits>>

TurnEnds(p) ==
    /\ pc[p] = "wait"
    /\ child[p] # "running"
    /\ lock' = Released(p, p)
    /\ Goto(p, IF TurnValid(p) THEN Settled(p) ELSE "clear")
    /\ UNCHANGED <<disk, mem, fresh, tgt, inv, child, edits>>

\* Mutant: expiry is reported as success.
TurnAbandoned_Success(p) ==
    /\ pc[p] = "wait"
    /\ ~inv[p].interactive
    /\ lock' = Released(p, p)
    /\ Goto(p, Settled(p))
    /\ UNCHANGED <<disk, mem, fresh, tgt, inv, child, edits>>

\* Headless: cancelled, or 30 minutes passed.  The child is left running; the
\* select may also pick this branch when the child has just exited.
TurnAbandoned(p) ==
    /\ pc[p] = "wait"
    /\ ~inv[p].interactive
    /\ lock' = Released(p, p)
    /\ Goto(p, "clear")
    /\ UNCHANGED <<disk, mem, fresh, tgt, inv, child, edits>>

\* Mutant: the blocking runner has no deadline.
TurnKilled_Never(p) == FALSE /\ UNCHANGED vars

\* Interactive: cancelled, or 5 minutes passed.  The child is killed.
TurnKilled(p) ==
    /\ pc[p] = "wait"
    /\ inv[p].interactive
    /\ child[p] = "running"
    /\ child' = [child EXCEPT ![p] = "bad"]
    /\ lock' = [lock EXCEPT ![p] = @ \ {p, Child}]
    /\ Goto(p, "clear")
    /\ UNCHANGED <<disk, mem, fresh, tgt, inv, edits>>

--------------------------------------------------------------------------
(* clearSessionAndMetrics after a failed StartSession.                     *)

ClearRead(p) ==
    /\ pc[p] = "clear"
    /\ ReadTask(p)
    /\ Goto(p, "clearwrite")
    /\ UNCHANGED <<tgt, inv, lock, child, edits>>

\* A failed re-read or write of the clear is a warning.
ClearReadError(p) == "storage" \in Faults /\ Silent(p, "clear", "failed")

\* Mutant: the id stays.
Cleared_MetricsOnly(t, s) == [t EXCEPT !.metrics = @ \ {s}]

\* What the clear makes of the copy it read.
Cleared(t, s) == [t EXCEPT !.sid = NoSid, !.metrics = @ \ {s}]

ClearWrite(p) ==
    /\ pc[p] = "clearwrite"
    /\ WriteTask(Cleared(mem[p], tgt[p]))
    /\ Goto(p, "failed")
    /\ UNCHANGED <<mem, tgt, inv, lock, child, edits>>

ClearWriteError(p) ==
    "storage" \in Faults /\ Silent(p, "clearwrite", "failed")

--------------------------------------------------------------------------
(* ResumeSession: lock again, change directory, exec claude --resume.      *)

ResumeAcquire(p) ==
    /\ pc[p] = "resume"
    /\ Free(tgt[p])
    /\ lock' = Taken(tgt[p], p)
    /\ Goto(p, "exec")
    /\ UNCHANGED <<disk, mem, fresh, tgt, inv, child, edits>>

ResumeRefused(p) ==
    /\ Silent(p, "resume", "refused")
    /\ "lockdir" \in Faults \/ ~Free(tgt[p])

\* The process image is replaced; the descriptor survives.
Exec(p) == Silent(p, "exec", "claude")

ExecFails(p) ==
    /\ pc[p] = "exec"
    /\ "spawn" \in Faults
    /\ lock' = Released(tgt[p], p)
    /\ Goto(p, "failed")
    /\ UNCHANGED <<disk, mem, fresh, tgt, inv, child, edits>>

ClaudeExits(p) ==
    /\ pc[p] = "claude"
    /\ lock' = Released(tgt[p], p)
    /\ Goto(p, "done")
    /\ UNCHANGED <<disk, mem, fresh, tgt, inv, child, edits>>

--------------------------------------------------------------------------
(* The environment.                                                        *)

\* An invocation, or the claude it became, is killed: the kernel closes its
\* descriptors.  A headless child lives on.
Crash(p) ==
    /\ "crash" \in Faults
    /\ pc[p] \notin Ended
    /\ lock' = [s \in Sessions |-> lock[s] \ {p}]
    /\ Goto(p, "dead")
    /\ UNCHANGED <<disk, mem, fresh, tgt, inv, child, edits>>

\* The child's session-connect: it claims a task without an owner
\* (agents/work-on-task-assistant.md, "Session connect").
ChildConnects(s) ==
    /\ child[s] = "running"
    /\ disk.sid = NoSid
    /\ WriteTask([disk EXCEPT !.sid = s, !.metrics = @ \cup {s}])
    /\ UNCHANGED <<mem, pc, tgt, inv, lock, child, edits>>

\* plan-task chains into execute-task.
ChildWorks(s) ==
    /\ child[s] = "running"
    /\ disk.phase = "planning"
    /\ WriteTask([disk EXCEPT !.phase = "execution"])
    /\ UNCHANGED <<mem, pc, tgt, inv, lock, child, edits>>

ChildExits(s) ==
    /\ child[s] = "running"
    /\ \E r \in {"good", "nonzero", "bad"} :
           child' = [child EXCEPT ![s] = r]
    /\ lock' = Released(s, Child)
    /\ UNCHANGED <<disk, mem, fresh, pc, tgt, inv, edits>>

\* Another vault-cli command, the operator's editor or a resumed claude.
Edit ==
    /\ edits < MaxEdits
    /\ edits' = edits + 1
    /\ \/ \E ph \in Phases : WriteTask([disk EXCEPT !.phase = ph])
       \/ \E a \in Users \cup {Nobody} :
              WriteTask([disk EXCEPT !.assignee = a])
       \/ WriteTask([disk EXCEPT !.sid = NoSid])
    /\ UNCHANGED <<mem, pc, tgt, inv, lock, child>>

--------------------------------------------------------------------------
\* What invocation p does of its own accord.
Step(p) ==
    \/ Find(p) \/ FindError(p) \/ Enter(p) \/ EnterRefused(p)
    \/ Write(p) \/ WriteError(p)
    \/ UseCached(p) \/ NoStarter(p) \/ Mint(p)
    \/ Reread(p) \/ RereadError(p) \/ Persist(p) \/ PersistError(p)
    \/ Acquire(p) \/ AcquireFails(p) \/ Spawn(p) \/ SpawnFails(p)
    \/ TurnEnds(p) \/ TurnAbandoned(p) \/ TurnKilled(p)
    \/ ClearRead(p) \/ ClearReadError(p)
    \/ ClearWrite(p) \/ ClearWriteError(p)
    \/ ResumeAcquire(p) \/ ResumeRefused(p) \/ Exec(p) \/ ExecFails(p)

ChildStep(s) == ChildConnects(s) \/ ChildWorks(s) \/ ChildExits(s)

Next ==
    \/ \E p \in Procs : Step(p) \/ ClaudeExits(p) \/ Crash(p)
    \/ \E s \in Procs : ChildStep(s)
    \/ Edit

Spec == Init /\ [][Next]_vars

\* A running invocation keeps running and its timers expire.  Nothing is
\* assumed of the child, of a resumed claude or of other programs.
FairSpec == Spec /\ \A p \in Procs : WF_vars(Step(p))

--------------------------------------------------------------------------
(* Properties.                                                             *)

\* The claude processes appending to the transcript of s.
LiveWriters(s) ==
    {p \in Procs : pc[p] = "claude" /\ tgt[p] = s}
        \cup (IF child[s] = "running" THEN {Child} ELSE {})

\* No transcript ever has two live claude processes, however invocations,
\* timed-out turns, crashes and resumes interleave.
SingleWriter == \A s \in Sessions : \A a, b \in LiveWriters(s) : a = b

\* Who has which lock open, exactly.  The inductive form of the two
\* properties around it: an invocation's descriptor follows its pc, a child's
\* its life; two invocations never share a lock; and an invocation shares one
\* with a child only while it waits for that child.
HeldRightly(s) ==
    /\ \A p \in Procs : p \in lock[s] <=> pc[p] \in Holding /\ tgt[p] = s
    /\ Child \in lock[s] <=> child[s] = "running"
    /\ \A p, q \in Procs \cap lock[s] : p = q
    /\ \A p \in Procs \cap lock[s] : Child \in lock[s] => pc[p] = "wait"

LockInv == \A s \in Sessions : HeldRightly(s)

\* The session an invocation handles: its own until it has spawned, a real
\* one from then on.
TargetRight(p) ==
    /\ pc[p] \in {"lock", "spawn", "wait"} => tgt[p] = p
    /\ pc[p] \in {"reread", "persist", "clear", "clearwrite", "resume",
                  "exec", "claude"} => tgt[p] \in Sessions

TargetInv == \A p \in Procs : TargetRight(p)

IInv == TypeOK /\ LockInv /\ TargetInv

\* An up to date copy is what it was read as, or what Enter made of it.
FreshInv ==
    \A p \in Procs : fresh[p] =>
        /\ pc[p] \in {"enter", "persist", "clearwrite"} => mem[p] = disk
        /\ pc[p] = "write" => /\ mem[p] = Entered(disk, User[p])
                              /\ disk.phase # "todo"

\* The id of an invocation is nowhere before that invocation mints it, and
\* is past its turn only when the turn was validated.
Unminted(p) ==
    /\ child[p] = "unborn"
    /\ disk.sid # p
    /\ \A q \in Procs : mem[q].sid # p /\ tgt[q] # p

MintInv ==
    \A p \in Procs :
        /\ Unminted(p) \/ tgt[p] = p
        /\ tgt[p] = p =>
              /\ pc[p] \notin {"find", "enter", "write", "session"}
              /\ pc[p] \in {"resume", "exec", "claude", "done"} => TurnValid(p)

\* No stale lock: whoever blocks a session is an invocation that is using
\* it, or the session's own running child.
LockHeldByLiving ==
    \A s \in Sessions :
        /\ \A p \in Procs \cap lock[s] : pc[p] \in Holding /\ tgt[p] = s
        /\ Child \in lock[s] => child[s] = "running"

\* An interactive run is never refused its second turn by what its first
\* turn left behind: by then neither it nor its child has the lock.
OwnTurnReleased ==
    \A p \in Procs :
        pc[p] = "resume" /\ tgt[p] = p => lock[p] \cap {p, Child} = {}

\* A freshly minted id is used or returned only after a turn that finished
\* with a validated result, whatever the race between exit and expiry.
FreshIdValidated ==
    \A p \in Procs :
        pc[p] \in {"resume", "exec", "claude", "done"} /\ tgt[p] = p
            => child[p] \in (IF inv[p].interactive THEN {"good"}
                                                  ELSE {"good", "nonzero"})

\* p's write of the task file, at any of the three places it writes.
Writes(p) == Write(p) \/ Persist(p) \/ ClearWrite(p)

\* The session bookkeeping of an invocation, when nobody wrote between its
\* re-read and its write, changes nothing but the session fields, and of
\* the metrics entries none but its own.  (What the child or another
\* program wrote while the turn ran survives.)
BookkeepingConfined ==
    [][\A p \in Procs :
        fresh[p] /\ (Persist(p) \/ ClearWrite(p)) =>
            /\ \A f \in {"phase", "status", "assignee"} : disk'[f] = disk[f]
            /\ disk'.metrics \ {tgt[p]} = disk.metrics \ {tgt[p]}]_vars

\* With an up to date copy, a task in the approval inbox is not entered into
\* the workflow, and the session bookkeeping never takes it out of the inbox:
\* only the approval does.
InboxKept ==
    [][\A p \in Procs : fresh[p] /\ Writes(p) /\ disk.phase = "todo"
            => ~Write(p) /\ disk'.phase = "todo"]_vars

\* Up to date copies never take a task from a teammate.
TeammateKept ==
    [][\A p \in Procs :
        fresh[p] /\ Writes(p) /\ disk.assignee # Nobody
            => disk'.assignee = disk.assignee]_vars

\* Nothing is under way.
Quiescent == \A p \in Procs : pc[p] \in Ended

\* When all is over, an id on the task names a session that was started.
IdNamesStartedSession ==
    Quiescent /\ disk.sid # NoSid => child[disk.sid] # "unborn"

\* Every invocation comes to an end or becomes the resumed claude, although
\* children may hang, locks may be busy and files unwritable.
Termination == \A p \in Procs : <>(pc[p] \in Ended \cup {"claude"})

--------------------------------------------------------------------------
\* The transcript mutex that the sessions implement.
MemberOrNone(S) == IF S = {} THEN None ELSE CHOOSE w \in S : TRUE
WriterOf(s) == MemberOrNone(LiveWriters(s))

Mutex == INSTANCE TranscriptMutex
    WITH Writers <- Procs \cup {Child},
         writer <- [s \in Sessions |-> WriterOf(s)]

\* Every behaviour of the sessions is one of the transcript mutex.
MutexSpec == Mutex!Spec
==========================================================================
