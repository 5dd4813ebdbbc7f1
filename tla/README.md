# vault-cli: models and proofs

vault-cli keeps tasks, goals, topics and objectives as Markdown files with YAML
frontmatter in an Obsidian vault. Many short-lived processes work on the same
files: the CLI in several terminals, a Vault UI that shells out to it, headless
claude children that call it back, Obsidian itself and git. There is no server
and no lock on a vault file; the one lock there is protects a claude session's
transcript. What can go wrong is therefore almost always an interleaving of
processes over one file, or a legal sequence of commands that ends in a state
no single command would produce.

This directory has TLA+ modules of the parts where that matters, TLC
configurations that check them on small instances, and proofs, checked by
TLAPS, of what holds for every instance. `PROJECT.json` is the index: the
components, the runs, the source lines of every definition, the hazards and the
theorems.

To check a run: `tlc -config MCWorkOnSession_mutex.cfg MCWorkOnSession`. To check
proofs: `tlapm WorkOnSession_proofs.tla`.

## 1. The system

### Components, their state and their operations

| Component | Source | State | Operations | Hard behaviour | What makes it correct | Module |
|---|---|---|---|---|---|---|
| Task work-on session | `ops/workon.go`, `claude_session.go`, `claude_resume.go`, `session_lock.go` | `claude_session_id`, `metrics_sessions`, phase, status, assignee in the file; the flock per session; the claude child | find, enter, write, persist the id, lock, spawn, wait, clear, resume, exec | two invocations, crash, failed spawn, time bound against the child's exit, a child that writes the same file | one writer per transcript; no lock without a living owner; only validated fresh ids are used; bookkeeping touches only its own fields | `WorkOnSession` |
| Task lifecycle commands | `ops/frontmatter.go`, `task_approve.go`, `complete.go`, `defer.go`, `update.go`, `metrics_session_*.go` | the task's frontmatter and checkboxes | set, clear, approve, complete, defer, update, append/remove session | read-compute-write without a lock; sequences of commands; guards spread over many files | approval recorded, abort explained, flag attributed, no silent regression, owners resolvable, losses announced | `TaskLifecycle` |
| Vault watcher | `ops/watch.go` | `pending` map of timers, mutex | event, re-arm, expire, call the handler, cancel | timers that have fired but wait for the mutex; order of deliveries | nothing lost, last delivery true | `WatchDebouncer` |
| Goal and topic work-on | `ops/goal_workon.go`, `topic_workon.go` | like tasks, without the flock | claim, start a turn, read again, bind the session | several at once on one page, each minutes long | a session that was reported as bound can be found from the page | `PageLifecycle` |
| Goal, topic, objective, theme, vision commands | `ops/goal_*.go`, `topic_*.go`, `objective_complete.go`, `frontmatter_entity.go`, `blocked_by_write.go`, `domain/*_frontmatter.go` | frontmatter of the page, the tasks that link to it | set, clear, add, remove, approve, complete, defer | five kinds of page with five sets of guards; a guard over other files that is stale when the page is written; keys that people wrote in another form | approval recorded, close-outs whole, no goal completed with open tasks, blockers kept | `PageLifecycle` |
| Daily notes | `ops/daily_note_entry.go`, `storage/daily_note.go`, parts of workon, complete and defer | one note per day | add, tick, remove, move a task's line | several files per command, warnings instead of errors, entries people wrote by hand | a task is listed once as pending, on the day it belongs to; other lines stay | `DailyNote` |
| Lint | `ops/lint.go` | one file's text | detect, fix | fixes run in sequence on one text, by regular expressions that read it differently from YAML | what is reported fixed is gone; the meaning stays; it settles | `LintFix` |
| Open questions, identifiers, task storage | `ops/task_answer.go`, `ensure_task_identifiers.go`, `storage/task.go`, `base.go` | the files of the tasks directory | show, answer by number, backfill, write, fix | a write is truncate and fill; the numbers belong to an earlier reading; every write may mint an identifier | an answer lands on its question and reads back; an identifier stays | `VaultTasks` |
| Escalation, launcher, dispatcher | `ops/escalation.go`, `launcher.go`, `vault_dispatcher.go` | none | publish, resolve, try each vault | best effort, silent failure | the right person is named | in the two task modules |
| Baseline, decisions | `ops/baseline.go`, `decision_*.go` | a file of their own | write, acknowledge | – | – | – |
| Readers | `ops/list.go`, `show.go`, `search.go`, `resolve.go`, `interaction_count.go`, `rollup_weekly.go` | none | read, filter, count | week and interval boundaries | – | – |
| CLI, configuration | `cli/*.go`, `config/*.go`, `main.go` | configuration file | wiring | – | – | – |
| Scripts, commands, agents | `scripts/`, `commands/`, `agents/` | – | called by claude sessions | processes that end themselves | – | – |

### How they interact

Operations call the storage (`FindTaskByName`, `WriteTask`), which reads and
replaces whole files. `work-on` calls the session starter, which takes the
flock, spawns a detached `claude -p` child that outlives it, and waits for the
child's result or a bound; in interactive mode it then replaces itself with
`claude --resume`. The child runs `vault-cli task append-metrics-session`,
`set` and so on against the same task file. `goal work-on` and `topic work-on`
start the same kind of session but bind it only after the turn, and lock
nothing. `work-on`, `complete` and `defer` go on to the daily notes once the task
is written; a failure there is only a warning. `goal complete` looks at the
tasks that link to the goal. `lint --fix` bypasses the storage and rewrites
the text of whatever it finds, also of a file that another command has just
truncated. Writes that blank an assignee publish an escalation. The watcher sees every write of every process as
fsnotify events and passes them, debounced, to its caller.

## 2. The modules

| Module | Role |
|---|---|
| `TranscriptMutex` | abstract: a transcript has at most one writer, and passes from one to the next through a moment without |
| `WorkOnSession` | several `task work-on` invocations, their children and other programs on one task; implements `TranscriptMutex` |
| `WorkOnSession_proofs` | its theorems |
| `TaskLifecycle` | every command that changes a task, several processes, one file |
| `TaskLifecycle_proofs` | its theorems |
| `DailyNote` | the daily-note edits of work-on, complete and defer, several processes, one note per day |
| `DailyNote_proofs` | its theorems |
| `PageLifecycle` | every command on one goal, topic, objective, theme or vision, with the tasks that link to it; the list verbs, for tasks too; goal and topic work-on |
| `PageLifecycle_proofs` | its theorems |
| `LintFix` | lint, validate and lint --fix on one page |
| `LintFix_proofs` | its theorems |
| `VaultTasks` | answers, updates, backfill and fixes over the files of a tasks directory, down to truncate and fill |
| `VaultTasks_proofs` | its theorems |
| `WatchDebouncer` | the watcher's event loop, debounce map and timers |
| `WatchDebouncer_proofs` | its theorems |
| `Selections` | the elements of a sequence at a set of places: what the loops over lines and list entries leave; used by the models of notes, pages, lint and bodies |
| `SelectionFacts` | lemmas on selections, for the proof modules |
| `MC...` | instances for TLC: model values, initial pages, launch configurations |

How they divide a command: `complete`, say, is a `Prepare` and a `Write` of
`TaskLifecycle`, which abstracts that write to one step; then a `Begin` and the
edits of `DailyNote`, which starts where the task is written. `VaultTasks` takes
such a write apart (`Truncate`, `Fill`), knows of the task only its identifier
and its body, and lets it race every other command. The three need nothing of
each other's state: no guard on a task looks at a note, none on a note looks at
the task, and the storage looks at neither.

### WorkOnSession

One invocation `p` is a program counter `pc[p]`, a private copy of the task
`mem[p]`, the session id it handles `tgt[p]` and its launch configuration
`inv[p]`. Shared are the file `disk`, the holders `lock[s]` of each session's
flock and the state `child[s]` of each session's headless turn. Each action is
the code between two points where somebody else can act:

- `Find`, `Enter`, `Write`: the read, the private computation (inbox guard,
  phase, status, assignee matrix, launcher) and the first write of
  `workon.go:93-134`.
- `UseCached`, `NoStarter`, `Mint`: `handleClaudeSession`, which uses the id
  that is there or mints one. A minted id is modelled by the invocation that
  mints it: UUIDs do not collide.
- `Reread`, `Persist`: `persistSessionAndMetrics`, before the spawn for a
  fresh id and at the end for a cached one.
- `Acquire`, `Spawn`, `TurnEnds`, `TurnAbandoned`, `TurnKilled`:
  `StartSession`. The lock's descriptor is inherited by the child
  (`session_lock.go:82-89` clears close-on-exec), so `lock[s]` is the set of
  parties that have it open, and the flock is free when that set is empty.
  A headless parent that waits long enough abandons the child; an interactive
  one kills it.
- `ClearRead`, `ClearWrite`: the compensation after a failed start.
- `ResumeAcquire`, `Exec`: `ResumeSession`, after which the invocation is
  claude (`pc = "claude"`).
- `...Error`, `...Fails`, `...Refused`: the error path of each of these.
- `Crash`, `ChildConnects`, `ChildWorks`, `ChildExits`, `ClaudeExits`, `Edit`:
  the environment. A crash closes the dead process's descriptors and leaves
  the file, the child and the child's descriptor.

`fresh[p]` is a history variable: nobody wrote the file since `p` read it. The
code has no protection against stale copies, so a property of what a write may
change is stated of fresh writes (`fresh[p] /\ Write(p) => ...`): it says that
the command's own logic is right, and the violation runs show what the missing
lock costs. (The same variable serves `TaskLifecycle`.)

### TaskLifecycle

`disk` is a record of the keys the guards and the properties are about, and
the set of kinds of checkbox in the body. A command is `Prepare`: it reads the
file and computes its result `mem[p]` from that copy; then `Write` or `Drop`
(the write failed, or the process died). The disjuncts of `Next` are the
commands; their guards are the refusals of the code, in `Regresses`
(`checkPhaseRegression`), `LeavesInbox` (`todoPlanningSetRefusal`), `MayBecome`
(the close-out guard), `Unfinished` and so on. `task set` is split by key, as
`SetField` and the hooks around it are. `today` is a calendar of `Days` days.
`tell[p]` is whom the escalation after the write will name. A status alias is
read as its canonical value, as `Status()` does; a phase alias is not, as
`Phase()` does not, which is why `in_progress` is a phase of its own here.

### WatchDebouncer

`queue` is what fsnotify has yet to hand over; `HandleEvent` is the loop's
body, with `Schedule` as the debouncer's critical section. Timers are numbered
in the order in which they were armed; each is armed, stopped, expired (its
function has started but does not have the mutex), unlisted (it has deleted its
map entry) or called. `pending` maps a path to a timer's number.

### DailyNote

A note is the sequence of its headings and checkbox lines; `Mark`, `Tick`,
`Strike` and `Add` are what work-on, complete and defer do to a copy of it, as
functions. A checkbox line is the task's own entry or a mention
(`IsOwnDailyNoteEntry`), and an own entry has the form the commands write, or one
a person gave it. A command is a list `todo[p]` of edits, two for `defer`; each
is a `Read` and a `Write`, and after `EditFails` the command goes on with the
next. `clean[p]` (history) is a command that nobody disturbed.

### PageLifecycle

One page of any of the six kinds, its frontmatter as a record, and the tasks
whose `goals` list has it. `Prepare` reads and computes, `Write` replaces,
`Drop` is the failed write and the kill; the disjuncts of `Next` are the
commands, with a `...Values` operator per kind for what its `SetField` accepts.
Status, phase, session, assignee and metrics are kept as values; texts and dates
as whether they are there; a list key as its items and whether it is a YAML list
or a text, since the readers of one disagree on the other. Work-on is longer:
`Claim` writes the page and starts the turn, `...TurnEnds` reads the page again,
`Bind` writes it.

### LintFix

A line of the frontmatter is a key and the text after its colon, or a list
item; a line of the body is a checkbox, or prose that looks like a key. There are
two readings of it: `FirstWord` and its like, what the regular expressions of
the rules find; and `Parses`, `Reading`, what a YAML parser makes of it. `Issues`
is a set of findings, `Stages` the texts a run goes through, one per fix in the
code's order (`Unquoted`, `Deduplicated`, `Numbered`, `Promoted`, `Completed`),
`Fixed` text and report together. `Texts` is what a key or a value can be: any
string in the runs, any set with the words the fixes write in the proofs. What a key reads as after
the fixes is `Reading`, which no fix uses.

### VaultTasks

`file[t]` is whole or truncated (`Empty`). A write of any command is `Truncate`,
which mints the identifier as `WriteTask` does, then `Fill`; in between others
read the empty file, fill it themselves, or the process dies. A backfill reads
one file after the other and then writes one after the other from those
copies. Bodies are lines; the text of a question is a sequence of pieces, so
that the delimiter can turn up in a question and in an answer. Answers go to
what `shown[p]` showed, an earlier reading of the file.

## 3. The runs

Runs that pass:

| Run | Instance | Shows |
|---|---|---|
| `session_mutex` | 2 invocations of 2 users, both modes, crashes, unwritable files, lock directory failures, failed spawns | the type invariant, `SingleWriter`, `LockHeldByLiving`, `OwnTurnReleased`, `FreshIdValidated`, and that the sessions implement `TranscriptMutex` (`MutexSpec`) |
| `shared_task_file` | 2 invocations, failed spawns, one edit by another program | what is written from an up to date copy: `BookkeepingConfined`, `InboxKept`, `TeammateKept` |
| `one_invocation` | 1 invocation, all 16 launch configurations, launcher, lock and spawn failures | `IdNamesStartedSession` and, under fairness, `Termination` |
| `watch` | a watched and an unwatched file, 4 changes | a prompt timer is the only live one of its path (`OneLiveWhenPrompt`), the last thing told of a path is true (`LastWordTrue`), and under fairness no change goes unreported (`NothingLost`) |
| `task_commands` | 2 processes, 2 commands, all keys, seven kinds of task, 2 days | the type invariant and the six action properties `InboxGuarded`, `AbortExplained`, `FlagExplained`, `NoRegression`, `OwnersResolvable`, `LossesAnnounced` |
| `task_evidence` | 2 processes, 2 commands, all keys but the evidence keys | `EvidenceWhole`: no interleaving and no lost update separates a flag from its writer, an abort from its reason, an approver from the time |
| `daily_notes` | 2 processes, 3 commands, 2 tasks, 2 days, four drafts of a note | headings, mentions and other tasks stay (`OthersKept`); a task is pending at most once per note, however commands interleave and fail (`ListedOnce`); an undisturbed command achieves what it promises, whatever failures left behind (`CommandAchieves`); repeating an edit changes nothing (`RepeatHarmless`) |
| `pages` | 2 processes, 2 commands, all kinds of page, 1 task, 3 sessions | a session reported as bound can be found from the page (`SessionsResolvable`), `ApprovalRecorded`, `ClosedWhole`, `CompletionJustified`, and no blocker lost in any form of the key (`BlockersKept`) |
| `lint` | some ten thousand pages in four families, up to 3 runs | two runs settle a page (`FixSettles`); what is reported fixed is gone (`FixedIsGone`); on a page that parses every key keeps its meaning (`MeaningKept`) and no new kind of issue appears (`NoNewTrouble`) |
| `vault_tasks` | 2 processes, 2 tasks, 2 commands, 1 edit by hand | an answer lands on the question it was given for and reads back (`AnswersLand`); an identifier everyone agrees on stays (`IdentifierSettled`) |

Runs that fail, each with one property that a document states and the code does
not keep (`findings` quotes it):

| Run | What happens |
|---|---|
| `goal_open_tasks` | a task links to its goal as a `[[wikilink]]`, `goal complete` compares it with the bare name and completes the goal although the task is open |
| `lint_last_kept` | the fix for a duplicated list key removes the key's line but not its items, which become items of the list above |

Other behaviours met while modelling that differ from a comment or document.
Most can be seen in the models when the corresponding property is stated; they
are recorded here and have no run of their own.

- The detached child keeps the parent's lock open: its descriptor is made
  inheritable (`session_lock.go:82-89`), while
  `docs/work-on-session-lifecycle.md:274-275` has it run without the lock. The
  stronger exclusion is what `SingleWriter` then relies on.
- After a failed start has cleared its id (`workon.go:413-415`), a second run
  that had read the id writes it back (`workon.go:369`).
- The compensating clear of a failed start removes whatever id the task has
  at that moment, another run's included.
- A crash between persisting the id and spawning leaves the id of a session
  that never started.
- Of two fresh starts, one returns an id that was not stored.
- Two runs may assign the same blank task; the second one wins silently.
- An edit between the re-read and the write of a session id is reverted.
- A timer that expired and waits for the mutex deletes its successor's map entry
  (`watch.go:193-195`), so that two timers of a path are armed and the calls are
  not collapsed (`watch.go:172`).
- Each timer calls the handler from a goroutine of its own, outside the mutex
  (`watch.go:196`): of two late deliveries for a path the older can come last.
- A task reopened between the check over the open tasks and the write of the goal
  leaves a completed goal with an open task (`goal_complete.go:96`).
- The old phase name `in_progress` escapes the guard against going back
  (`frontmatter.go:385`, stated at `:336-338`).
- `task clear phase` and then `work-on` take a task out of the inbox without an
  approval (`frontmatter.go:327`, `workon.go:301-302`).
- A completed task may be put back into the inbox without force: the guard on
  completed tasks refuses `planning` only (`frontmatter.go:366-377`). An approval
  then leaves it in planning with status `completed`. Likewise `clear phase` and then
  `work-on` take a completed task to planning, but reopen it.
- Two approvals race, and the second approver replaces the first.
- `clear flag_set_by` leaves a flag that nobody is recorded to have set.
- Two session writes race and the displaced id is lost.
- A write from a stale copy takes a task from its owner unannounced.
- `set phase done --reason` writes a close-out reason on a path that does not
  complete the task.
- `update` puts a deferred task back to `next`, and completes a task without
  moving its phase to `done`.
- A recurring task's new cycle keeps boxes written `* [x]` ticked, since the
  reset looks for `- [x]` only.
- `work-on` leaves an indented pending entry of the daily note as it is and
  counts it as changed (`workon.go:509`, against `docs/daily-notes.md:61`).
- The expression that reads a list of goals goes on to the end of the
  frontmatter, so items of later lists are reported as orphan goals
  (`lint.go:32`, against `:475`).
- The expression for dates goes over the end of the line: a bare `defer_date:`
  above another bare key counts as dated, and a task is started for it.
- The fixes of priority and status rewrite lines of the body as well.
- A fix that meets a file another command has just truncated makes a page with
  status `backlog` of it.
- The checkbox fix completes a page whose phase is not `done`, and an aborted one.
- Two writes of a task without an identifier that overlap mint two, and the
  second replaces the first (`specs/completed/007-task-identifier-field.md:82`
  has it never overwritten).
- The backfill does not count files it cannot parse as skipped: the listing has
  left them out already (`specs/completed/032-*.md:189`).

### Bounds, and why they are enough

- Two invocations: every guard and lock relates at most two parties, the
  holder and the one that tries; a third would only repeat the second. Each
  invocation mints at most one id by construction of the code.
- One session before the first invocation (`Old`) stands for any id already on
  the task.
- `WorkOnSession!MaxEdits = 1`: one foreign write suffices to make every copy
  stale.
- `TaskLifecycle!MaxCommands = 2` with two processes: what can go wrong between
  two commands (one reads, the other writes, the first writes) needs two. The
  seven initial tasks are the states that longer sequences would reach first:
  filed, before the phase lifecycle, worked on, nearly aborted, recurring, with
  the old phase name, and finished (completed, phase done). The theorems remove the bound.
- `WatchDebouncer!MaxEvents = 4`: a timer that fired, its replacement, the
  deletion of the replacement's entry and one more event.
- Two days: today and a later one, so that a date can be past, present and
  future, and a deferral goes to the same note or another.
- `DailyNote!MaxCommands = 3`: two that overlap and one that meets what they left
  behind. Two tasks, so that an edit for one can harm the other. The drafts are a
  missing note, one with all sections, one without any, one with an indented entry;
  between them an own entry has every form.
- `PageLifecycle!MaxCommands = 2`, two processes: as for tasks. One of the three
  sessions is on the page already, two can start. One user suffices, as no guard
  compares two. Of a task's statuses two are open for the check and two are not,
  and the code treats the members of each group alike. Two names: one that is in
  a list and one that is not. The failing run has two tasks and both link forms.
- `LintFix!MaxRuns = 3`: two runs settle a page, the third shows it. The rules fall
  into groups that read the same keys, and there is a family of pages for each: all
  combinations of status, phase, dates, priority, flag, recurrence and
  checkboxes; lists with lines prepended to them; the keys that one rule reads;
  bare dates. In each every key keeps its place.
- `VaultTasks`: two processes and two commands, since a write is disturbed by one
  other; two tasks, so that the backfill goes on after a failure; one edit by
  hand, which exempts the task's answers from then on. The bodies have a
  question, one that was answered and contains the delimiter, a blank item and a
  bullet of the next section; the answers an arrow at the end, and one that has to
  be refused. Three identifiers are more than can be minted for one task.
- `CHECK_DEADLOCK FALSE`, where it is given: all invocations end, all commands
  are issued, the watch returns; these systems really stop.

### Fairness

`WorkOnSession!FairSpec` has weak fairness of `Step(p)` for each invocation: a
process that can take its next step is scheduled, and its time bounds expire.
Nothing is assumed of children, resumed claudes, crashes or other programs; the
code waits for a child only together with a timer. `WatchDebouncer!FairSpec` has
weak fairness of the event loop and of every timer's steps while the loop runs:
goroutines are scheduled and timers fire. After `Execute` has returned the
process may end, so nothing is promised then.

## 4. What is proved

`WorkOnSession_proofs`, for every set of invocations, users, launch
configurations and faults, and any bound on foreign edits:

- The inductive invariant is `IInv == TypeOK /\ LockInv /\ TargetInv`.
  `SingleWriter` alone is not inductive: one must know who has each lock open.
  `LockInv` says it exactly: an invocation has the descriptor of `s` open iff
  its `pc` is between acquiring and releasing and its target is `s`; the child
  iff it runs; two invocations never; an invocation and a child only while the
  former waits. `TargetInv` says which id an invocation handles when.
- From it: `TypeCorrect`, `OneWriter` (`SingleWriter`), `NoStaleLock`
  (`LockHeldByLiving`) and `Refinement`: initial states map to initial states
  of `TranscriptMutex`, and every step to `Open`, `Close` or a stutter.
- With `FreshInv` (a fresh copy is the file, or what `Enter` made of it):
  `Confined`, `Inbox`, `Teammate`.
- With `MintInv` (an id is nowhere before it is minted, and is past its turn
  only when the turn was validated): `Validated`, `OwnTurn`.
- `IdStarted` (`IdNamesStartedSession`) has three hypotheses: one invocation, none
  killed, and a task file that can be read and written, in other words the setting
  of the run `one_invocation`. Each is needed: with two, a stale copy of one
  brings back the id that the other took back; a crash, or a clear that fails,
  leaves it. Turns, locks, launchers and other programs may do what they like.
  `StartInv` says who is responsible for an id whose session was never started: the
  invocation that is about to spawn it, or about to clear it.

`TaskLifecycle_proofs`, for any processes, users, sessions, initial tasks,
calendar, keys and number of commands:

- One lemma per command shows that its result is a task and a lawful successor
  of the file. `Inductive` then has to look at `Prepare`, `Write`, `Drop` and
  `NewDay` only; the invariant is `TypeOK /\ LawfulInv`, where `LawfulInv` says
  that what is about to be written from a fresh copy is lawful.
- `ApprovalGate`, `CloseOutGuard`, `FlagProvenance`, `PhaseOrder`,
  `SessionsResolvable` and `Announcement` follow, one per action property.
- `PhaseOrder` (`NoRegression`) has two parts. `UnderWayKept`: a task in progress
  that is in execution or a review goes back to planning or the inbox only by a
  forced set. `FinishedKept`: a completed task, whatever its phase, `done` as a rule,
  goes to planning only by a forced set, by an approval from the inbox, or by a
  `work-on` that finds no phase and sets the status to `in_progress`. The last two
  are not calls of `checkPhaseRegression`, and both need an earlier command that
  moved or cleared the phase.
- `RecordsWhole`: if the evidence keys are in neither `SetKeys` nor `ClearKeys`
  and the initial tasks are whole, then `[]EvidenceWhole`, with no assumption
  on freshness. Its invariant says that every pending write is whole as well:
  a lost update loses a record together with its evidence.

`VaultTasks_proofs`, for any tasks, processes, bodies, answers and number of
commands:

- `TypeCorrect` and `TidyWrites` (a process has a file cut only in the midst of a
  write, and writes only what is a task).
- `IdentifierKept` (`IdentifierSettled`). `Settled(t)` is itself the invariant: it
  says that the file and every pending write agree on the identifier, and that an
  emptied file has a writer who will fill it. There is one lemma for each step
  that may touch a settled task; a prepared write carries its identifier because
  it was read from it, and `Truncate` mints nothing because the copy has one.
  `WritesTidy` is needed to know that what fills the file is a task.
- `AnswersWhereShown` (`AnswersLand`). `LandInv` adds `QuestionsStay`: whatever is in
  the directory, about to be written or shown has the questions its task started
  with, in their order, or is the text of a file read while it was cut. So no
  command and no torn write moves a question, and a position that was read from
  one reading means the same question in another. Tasks whose lines were changed
  by hand, or filled by a fix, are exempt (`handled`). The questions of a body are
  a selection of its lines; that an answer changes one item and no position is the
  lemma about it.
- `AnswerReadsBack`: an answer that may be written reads back as given and its
  question unharmed, whatever the question contains. It is a statement about
  sequences: the last delimiter before the closing stars is the one that was
  written, since an allowed answer contains no stars.

`PageLifecycle_proofs`, for any page, any tasks that link to it, any processes,
users, sessions, values and number of commands:

- `Follows(c, k, e, f)` says what a page `e` of kind `k` may become by command `c`:
  sessions are kept, an approval has its record, a closed goal is whole. One lemma
  per command shows that what it prepares follows what it read.
- The invariant is `Shape /\ PendingFollows /\ BindsOwn /\ CompletesClosed /\
  SessionsResolvable`. `PendingFollows`: what is about to be written from a fresh
  copy follows the page. `BindsOwn`: a work-on that is in its turn has a
  session, and the copy it is about to bind names it. `CompletesClosed`: a completion that is about to be written,
  while no task has moved, has no open task to overlook. `SessionsResolvable` is
  not inductive without the second and third: a bind adds its own session to those
  that can be found, and drops no other because its page follows the one on disk.
- `BoundSessionsKept`, `ApprovalGate`, `GoalClosedWhole`, one per property.
- `CompletedClosed` (`CompletionJustified`) assumes `OneForm`: tasks name their goal
  in the form the command compares with. The run `goal_open_tasks` shows that the
  condition is needed.
- `TypeCorrect` and `BlockersSurvive` (`BlockersKept`) have an invariant of their own,
  `TInv`: every page and copy is typed, and what is about to be written from a
  fresh copy keeps the blockers (`BlockersFollow`), in whichever form the key is.
  A removal selects the entries of a list that stay.

`WatchDebouncer_proofs`, for any files and any number of changes:

- `TypeCorrect`, which needs to know that no more events are queued than changes
  happened.
- `OneLive` (`OneLiveWhenPrompt`). It is not inductive alone: `schedule` stops only
  the timer the map has, so one must know that the armed timer of a path is in the
  map (`ArmedPending`). That fails when a goroutine comes late and deletes the
  entry of its successor (`watch.go:194`), which is what `prompt` excludes; within a
  prompt path the deleting timer is the only live one, and the two parts carry each
  other.
- `LastWord` (`LastWordTrue`). `NewsInv` follows a change through the three places it
  can be in: the last event in the queue agrees with the file; when no event of the
  file is left, its newest timer does (`LastTimerTrue`); a stopped timer has a newer
  one that is not stopped (`Replaced`); and calls of a prompt path are made in the
  order of their timers (`CallsInOrder`). At rest the last call is therefore the
  newest timer's.

`DailyNote_proofs`, for any tasks, days, processes, drafts and number of commands:

- The invariant is `TypeOK /\ Plans /\ Current /\ Cleared`: a running command
  still owes one edit, or the two of a deferral (`Plans`); what it is about to edit
  is the note, unless somebody wrote since (`Current`); an undisturbed deferral at
  its second edit has done its first (`Cleared`).
- `TypeCorrect`; `Repeatable` (`RepeatHarmless`), a statement about each edit of each
  note; `OnlyOwnEntries` (`OthersKept`), by which lines an edit selects;
  `CommandsAchieve` (`CommandAchieves`), for which `Cleared` is needed.
- `NeverListedTwice` (`ListedOnce`) supposes that no draft lists a task twice. Its
  invariant says it of every note and of every copy that is about to be edited, and
  does not ask whether the copy is stale: a lost edit loses an entry and never
  doubles one.

`LintFix_proofs`, for any pages, any kinds of page, any texts and number of runs:

- `Edited(f, g)`: `g` is `f` but for lines of a priority, a boolean key or a status
  whose text became one of the words the fixes write. Every fix but the removal of
  duplicates edits, wherever its expression happens to match; most lemmas are about
  what an edit cannot disturb (keys, boxes, dates, goals, which lines a rule fits).
  A removal selects lines and is described by the places it keeps (`Kept`).
- `Settles` (`FixSettles`): `AfterOne` is what the first run leaves (no quoted
  boolean, no duplicate it could still remove), `AfterTwo` what the second leaves
  (nothing to fix). One run is not enough because the issues are collected before
  the first fix: removing a duplicate uncovers the line that the reader then takes.
  `PageInv` says both of the page on disk, by the number of runs.
- `ReportedGone` (`FixedIsGone`): a stage that changed the text has its issue gone
  from the text after the last stage as well (`FixesHold`), since the edits after
  it bring none back; and what a run counts as fixed is the kinds whose stage
  changed the text (`WorkedIs`).
- `KeepsMeaning` (`MeaningKept`), where the page parses: then no key comes twice, no
  line is removed, and what a YAML parser reads for a key changes only with its own
  line.
- `NoTrouble` (`NoNewTrouble`), where the page parses: for each rule, that it finds
  after the edits only what it found before, or the status became `completed`
  (`TroubleBefore`).

`SelectionFacts` has what these proofs share: a selection is a sequence as long as
its set of places, each chosen place turns up once and in order, and the selection
of a changed sequence is that of the old one, where the change is outside.

Assumptions on the constants are the named `ASSUME`s of the modules, which TLC
evaluates in the runs: the blank name is nobody's, keys are keys, bounds are
natural numbers; the drafts of a note and the bodies of tasks are sequences of
lines (`DailyAssumption`, `VaultTexts`); an arrow is not stars and neither is a word
(`VaultNames`); pages are made of texts, the words the fixes write are texts, and a
text with brackets or a comment is not one of these words (`LintTexts`).

Every invariant and action property of the passing runs is stated by a theorem.
Four of them have a hypothesis. `OneForm` of `CompletedClosed`, `Alone` and
`Undisturbed` of `IdStarted` and the untouched evidence keys of `RecordsWhole` are
there because the property fails without them, as a run or the list above shows;
`NeverListedTwice` supposes the same of the notes it starts from as it says of those
it ends with. Only model-checked: the liveness properties `Termination` and
`NothingLost`, since fairness is beyond the prover.

## 5. What is not modelled, and why

Left out of the modules: wording, formatting, warnings; the time of day; how many
times a session is listed; in `TaskLifecycle` and `PageLifecycle` that a write
truncates first, which `VaultTasks` has.

Narrower than the code, where no property depends on it:

- `LintFix` has no phase words outside the known ones, for which the checks
  of phase and status would report a mismatch too, and does not read `null` as an
  absent `defer_date` or `blocked_by`.
- `DailyNote` takes a note with nothing but text that no command reads for a
  missing one.
- `PageLifecycle` has no task files that cannot be parsed, which a listing skips.
- `VaultTasks` exempts a task from `AnswersLand` for good after one edit by hand.
- Five hazards are races or crashes that the code does not prevent, and section 3
  records what they lead to. The crash between persisting and spawning, and two
  fresh starts for one field, have no property. The late timer goroutine, the
  deliveries that overtake each other, and the task reopened while a goal is
  completed are excluded by the conditions of `OneLiveWhenPrompt`, `LastWordTrue`
  and `CompletionJustified` (a prompt timer, nothing moved since the listing);
  these say that nothing else goes wrong. `NothingLost` holds with late timers too.

Parts that are not modelled:

- `update` copies ticked boxes into the goal pages of its task by the text of
  their lines (`update.go:176-217`): a second read and write of another file whose
  effect is on text alone.
- The look-up of a page by a partial name, and the quoting of wikilinks in
  YAML: which file is meant and how it is spelt, decided before the first step
  and after the last one of the models.
- Resolving a blocker or a launcher through other pages, the readers, the
  counting of interactions, the weekly rollup: pure functions of files, without
  state; calendar arithmetic (months, weekdays, week boundaries) is the standard
  library's.
- `PatchFrontmatter`: no command calls it, and what it promises is about
  characters.
- The vault dispatcher (tries one vault after the other), decisions and the
  baseline (one process, one file of their own), the configuration (read once),
  the command line.
- Scripts, prompts and agents: not part of the program; what they make a claude
  child do to a task is an external action of `WorkOnSession`.
- Hazards without a property, besides the crash and the two fresh starts named
  above: a grandchild that keeps the pipe of a killed claude open
  (`claude_session.go:98`) and an overflow of the kernel's event queue
  (`watch.go:82`) are decided outside the program; the handler may be called after
  the watch was cancelled (`watch.go:78`), which the model allows and nobody
  observes. The forms of checkbox that a recurring task's reset misses
  (`complete.go:381`) are in the model as the code has it and recorded above.

What would come next: the copying of ticked boxes into goal pages as a module of its
own, and the look-up of a page by a partial name, whose result every command
depends on.
