----------------------------- MODULE VaultTasks -----------------------------
(***************************************************************************)
(* The tasks directory under several commands at once (pkg/storage/task.go *)
(* and base.go, pkg/ops/task_answer.go, ensure_task_identifiers.go, and    *)
(* the reads and writes of lint.go).                                       *)
(*                                                                         *)
(* Every command reads whole files and writes whole files, without a lock. *)
(* A write truncates the file, then fills it: a reader or a crash between  *)
(* the two meets an empty file, which is no task.  Storage mints an        *)
(* identifier whenever it writes a task without one; lint does not go      *)
(* through storage.                                                        *)
(*                                                                         *)
(* A body is a sequence of lines.  The text of a list item is a sequence   *)
(* of pieces: words, the arrow ` -> ` and the stars `**`; arrow and stars  *)
(* together separate a question from its answer, and stars end it.         *)
(***************************************************************************)
EXTENDS Naturals, Sequences, FiniteSets, Selections

CONSTANTS
    Tasks,        \* files of the tasks directory
    Procs,        \* command line processes
    Ids,          \* uuids
    NoId,         \* task_identifier missing or empty
    NoTask,       \* no file
    Words,        \* pieces of text without marks
    Arrow, Stars, \* the marks
    Bodies,       \* bodies to start from, by task
    Identified,   \* tasks that have an identifier at the start, by task
    Answers,      \* what a person may answer
    MaxCommands,  \* bound on commands issued
    MaxEdits      \* bound on edits by hand

ASSUME VaultNames == /\ NoId \notin Ids
                     /\ NoTask \notin Tasks
                     /\ Arrow # Stars
                     /\ {Arrow, Stars} \cap Words = {}
                     /\ Identified \in [Tasks -> Ids \cup {NoId}]

\* The text of a line is any sequence of words and marks.
Pieces == Words \cup {Arrow, Stars}
Lines == [kind : {"questions", "heading", "item", "note"}, text : Seq(Pieces)]

ASSUME VaultTexts == /\ Bodies \in [Tasks -> Seq(Lines)]
                     /\ Answers \subseteq Seq(Pieces)

VARIABLES
    file,     \* what is in the directory, by task
    cmd,      \* the command a process runs
    stage,    \* "list" while it reads, "write", and "cut" in a write
    unread,   \* tasks it has yet to read
    todo,     \* tasks it has yet to write
    at,       \* the task it is writing
    copy,     \* the text it will write, by task
    shown,    \* the questions it was shown last, and of which task
    batch,    \* the answers it records
    spent,    \* commands and edits so far
    handled,  \* tasks whose lines were changed by hand, or mixed up
    last      \* the identifier in the last text of a task

vars == <<file, cmd, stage, unread, todo, at, copy, shown, batch, spent,
          handled, last>>

----------------------------------------------------------------------------
(* Open questions. *)

Line(kind, text) == [kind |-> kind, text |-> text]

\* The lines from the first heading `Open Questions` to the next heading.
InSection(body, i) ==
    \E h \in 1..(i - 1) :
        /\ body[h].kind = "questions"
        /\ \A j \in 1..i : body[j].kind = "questions" => j = h
        /\ \A j \in h..i : body[j].kind # "heading"

IsQuestion(body, i) ==
    body[i].kind = "item" /\ body[i].text # <<>> /\ InSection(body, i)

\* The lines that are questions, in order; a blank item counts for nothing.
QuestionLines(body) == {i \in DOMAIN body : IsQuestion(body, i)}
Items(body) == Selected([i \in DOMAIN body |-> i], QuestionLines(body))

Marks(text) == {i \in 1..(Len(text) - 1) : text[i] = Arrow /\ text[i + 1] = Stars}

LastMark(text) == CHOOSE i \in Marks(text) : \A j \in Marks(text) : j <= i

\* The text of an item without and with its answer.
Trimmed(text) == SubSeq(text, 1, Len(text) - 1)

IsAnswered(text) ==
    text # <<>> /\ text[Len(text)] = Stars /\ Marks(Trimmed(text)) # {}

Question(text) ==
    IF IsAnswered(text) THEN SubSeq(text, 1, LastMark(Trimmed(text)) - 1)
                        ELSE text
Answer(text) ==
    IF IsAnswered(text)
    THEN SubSeq(text, LastMark(Trimmed(text)) + 2, Len(text) - 1) ELSE <<>>

Formatted(question, answer) == question \o <<Arrow, Stars>> \o answer \o <<Stars>>

Questions(body) ==
    [n \in DOMAIN Items(body) |-> Question(body[Items(body)[n]].text)]

\* Mutant: an answer may contain anything.
Carries_Anything(answer) == TRUE

\* An answer that cannot be written on one line and read back is refused.
Carries(answer) == \A i \in DOMAIN answer : answer[i] # Stars

\* A batch maps positions to answers: one that answers a question twice is
\* refused, as is one with a single answer that will not do.
Accepted(body, answers) ==
    /\ DOMAIN answers \subseteq DOMAIN Items(body)
    /\ \A n \in DOMAIN answers : Carries(answers[n])

Answered(body, answers) ==
    LET position(i) == {n \in DOMAIN answers : Items(body)[n] = i} IN
    [i \in DOMAIN body |->
        IF position(i) = {} THEN body[i]
        ELSE [body[i] EXCEPT !.text =
                Formatted(Question(@), answers[CHOOSE n \in position(i) : TRUE])]]

----------------------------------------------------------------------------
(* Files and processes. *)

Task(id, body) == [whole |-> TRUE, id |-> id, body |-> body]

\* A truncated file: no frontmatter, so no task for storage.
Empty == [whole |-> FALSE, id |-> NoId, body |-> <<>>]

NothingShown == [task |-> NoTask, list |-> <<>>]

UsedIds == {file[t].id : t \in Tasks} \cup {last[t] : t \in Tasks}
               \cup {copy[p][t].id : p \in Procs, t \in Tasks}

Init ==
    /\ file = [t \in Tasks |-> Task(Identified[t], Bodies[t])]
    /\ cmd = [p \in Procs |-> "none"]
    /\ stage = [p \in Procs |-> "list"]
    /\ unread = [p \in Procs |-> {}]
    /\ todo = [p \in Procs |-> {}]
    /\ at = [p \in Procs |-> {}]
    /\ copy = [p \in Procs |-> [t \in Tasks |-> Empty]]
    /\ shown = [p \in Procs |-> NothingShown]
    /\ batch = [p \in Procs |-> <<>>]
    /\ spent = [commands |-> 0, edits |-> 0]
    /\ handled = {}
    /\ last = Identified

Idle(p) == cmd[p] = "none"

Issue(p, c) ==
    /\ Idle(p)
    /\ spent.commands < MaxCommands
    /\ spent' = [spent EXCEPT !.commands = @ + 1]
    /\ cmd' = [cmd EXCEPT ![p] = c]

\* p has read t and will write new.
Prepares(p, t, new) ==
    /\ stage' = [stage EXCEPT ![p] = "write"]
    /\ todo' = [todo EXCEPT ![p] = {t}]
    /\ copy' = [copy EXCEPT ![p][t] = new]
    /\ UNCHANGED <<file, unread, at, handled, last>>

\* `task show` lists the questions of a task, if it has any, with their
\* positions.
ShowQuestions(p, t) ==
    /\ Idle(p)
    /\ file[t].whole /\ Items(file[t].body) # <<>>
    /\ shown' = [shown EXCEPT ![p] =
                    [task |-> t, list |-> Questions(file[t].body)]]
    /\ UNCHANGED <<file, cmd, stage, unread, todo, at, copy, batch, spent,
                   handled, last>>

\* `task answer` for questions that p was shown.  A refused batch, and a file
\* that is no task, are no step.
AnswerQuestions(p, t) ==
    /\ Issue(p, "answer")
    /\ shown[p].task = t
    /\ file[t].whole
    /\ \E S \in SUBSET DOMAIN shown[p].list : \E answers \in [S -> Answers] :
           /\ S # {}
           /\ Accepted(file[t].body, answers)
           /\ batch' = [batch EXCEPT ![p] = answers]
           /\ Prepares(p, t, [file[t] EXCEPT !.body = Answered(@, answers)])
    /\ UNCHANGED shown

\* Any other command that reads one task and writes it through storage.
Update(p, t) ==
    /\ Issue(p, "update")
    /\ file[t].whole
    /\ Prepares(p, t, file[t])
    /\ UNCHANGED <<shown, batch>>

\* lint --fix on one file of its walk: it rewrites the text it read, and puts
\* frontmatter on a file that has none.
LintFix(p, t) ==
    /\ Issue(p, "lint")
    /\ Prepares(p, t, [file[t] EXCEPT !.whole = TRUE])
    /\ UNCHANGED <<shown, batch>>

Backfill(p) ==
    /\ Issue(p, "backfill")
    /\ stage' = [stage EXCEPT ![p] = "list"]
    /\ unread' = [unread EXCEPT ![p] = Tasks]
    /\ UNCHANGED <<file, todo, at, copy, shown, batch, handled, last>>

\* The listing reads one file after the other.  A file it cannot read is
\* left out; one with an identifier will not be written.
ReadNext(p, t) ==
    /\ cmd[p] = "backfill" /\ stage[p] = "list" /\ t \in unread[p]
    /\ unread' = [unread EXCEPT ![p] = @ \ {t}]
    /\ IF file[t].whole /\ file[t].id = NoId
       THEN /\ todo' = [todo EXCEPT ![p] = @ \cup {t}]
            /\ copy' = [copy EXCEPT ![p][t] = file[t]]
       ELSE UNCHANGED <<todo, copy>>
    /\ UNCHANGED <<file, cmd, stage, at, shown, batch, spent, handled, last>>

EndsList(p) ==
    /\ cmd[p] = "backfill" /\ stage[p] = "list" /\ unread[p] = {}
    /\ stage' = [stage EXCEPT ![p] = "write"]
    /\ UNCHANGED <<file, cmd, unread, todo, at, copy, shown, batch, spent,
                   handled, last>>

\* Mutant: every write mints an identifier.
Mints_Always(p, t) == cmd[p] # "lint"

\* WriteTask gives a task an identifier that has none.
Mints(p, t) == cmd[p] # "lint" /\ copy[p][t].id = NoId

\* The first half of a write.
Truncate(p, t) ==
    /\ stage[p] = "write" /\ t \in todo[p]
    /\ file' = [file EXCEPT ![t] = Empty]
    /\ stage' = [stage EXCEPT ![p] = "cut"]
    /\ todo' = [todo EXCEPT ![p] = @ \ {t}]
    /\ at' = [at EXCEPT ![p] = {t}]
    /\ IF Mints(p, t)
       THEN \E id \in Ids \ UsedIds : copy' = [copy EXCEPT ![p][t].id = id]
       ELSE UNCHANGED copy
    /\ UNCHANGED <<cmd, unread, shown, batch, spent, handled, last>>

\* The second half.  When another process has filled the file since, what was
\* longer sticks out behind the new text.
Fill(p, t) ==
    /\ stage[p] = "cut" /\ at[p] = {t}
    /\ \/ /\ file' = [file EXCEPT ![t] = copy[p][t]]
          /\ UNCHANGED handled
       \/ /\ file[t].whole /\ file[t] # copy[p][t]
          /\ \E w \in Words :
                 file' = [file EXCEPT ![t] =
                    [copy[p][t] EXCEPT !.body = Append(@, Line("item", <<w>>))]]
          /\ handled' = handled \cup {t}
    /\ last' = [last EXCEPT ![t] = copy[p][t].id]
    /\ stage' = [stage EXCEPT ![p] = "write"]
    /\ at' = [at EXCEPT ![p] = {}]
    /\ UNCHANGED <<cmd, unread, todo, copy, shown, batch, spent>>

\* A write that fails, before it touches the file or after it has cut it: the
\* backfill goes on with the next task, every other command ends.
WriteFails(p, t) ==
    /\ \/ stage[p] = "write" /\ t \in todo[p]
       \/ stage[p] = "cut" /\ at[p] = {t}
    /\ stage' = [stage EXCEPT ![p] = "write"]
    /\ todo' = [todo EXCEPT ![p] = @ \ {t}]
    /\ at' = [at EXCEPT ![p] = {}]
    /\ UNCHANGED <<file, cmd, unread, copy, shown, batch, spent, handled, last>>

Ends(p) ==
    /\ stage[p] = "write" /\ todo[p] = {}
    /\ cmd' = [cmd EXCEPT ![p] = "none"]
    /\ stage' = [stage EXCEPT ![p] = "list"]
    /\ copy' = [copy EXCEPT ![p] = [t \in Tasks |-> Empty]]
    /\ batch' = [batch EXCEPT ![p] = <<>>]
    /\ UNCHANGED <<file, unread, todo, at, shown, spent, handled, last>>

Crash(p) ==
    /\ ~Idle(p)
    /\ cmd' = [cmd EXCEPT ![p] = "none"]
    /\ stage' = [stage EXCEPT ![p] = "list"]
    /\ unread' = [unread EXCEPT ![p] = {}]
    /\ todo' = [todo EXCEPT ![p] = {}]
    /\ at' = [at EXCEPT ![p] = {}]
    /\ copy' = [copy EXCEPT ![p] = [t \in Tasks |-> Empty]]
    /\ batch' = [batch EXCEPT ![p] = <<>>]
    /\ UNCHANGED <<file, shown, spent, handled, last>>

\* Someone takes a line out in an editor, and the ones below move up.
EditByHand(t) ==
    /\ spent.edits < MaxEdits
    /\ file[t].whole
    /\ \E i \in DOMAIN file[t].body :
           file' = [file EXCEPT ![t].body =
                        SubSeq(@, 1, i - 1) \o SubSeq(@, i + 1, Len(@))]
    /\ handled' = handled \cup {t}
    /\ spent' = [spent EXCEPT !.edits = @ + 1]
    /\ UNCHANGED <<cmd, stage, unread, todo, at, copy, shown, batch, last>>

Next ==
    \/ \E p \in Procs, t \in Tasks :
           \/ ShowQuestions(p, t) \/ AnswerQuestions(p, t) \/ Update(p, t)
           \/ LintFix(p, t) \/ ReadNext(p, t) \/ Truncate(p, t)
           \/ Fill(p, t) \/ WriteFails(p, t)
    \/ \E p \in Procs : Backfill(p) \/ EndsList(p) \/ Ends(p) \/ Crash(p)
    \/ \E t \in Tasks : EditByHand(t)

Spec == Init /\ [][Next]_vars

----------------------------------------------------------------------------
(* Properties. *)

Commands == {"none", "answer", "update", "lint", "backfill"}

\* A text has the three parts, whatever its body.
IsText(f) ==
    /\ DOMAIN f = {"whole", "id", "body"}
    /\ f.whole \in BOOLEAN
    /\ f.id \in Ids \cup {NoId}

TypeOK ==
    /\ DOMAIN file = Tasks
    /\ \A t \in Tasks : IsText(file[t])
    /\ cmd \in [Procs -> Commands]
    /\ stage \in [Procs -> {"list", "write", "cut"}]
    /\ unread \in [Procs -> SUBSET Tasks]
    /\ todo \in [Procs -> SUBSET Tasks]
    /\ at \in [Procs -> SUBSET Tasks]
    /\ DOMAIN copy = Procs
    /\ \A p \in Procs :
           DOMAIN copy[p] = Tasks /\ \A t \in Tasks : IsText(copy[p][t])
    /\ handled \subseteq Tasks
    /\ last \in [Tasks -> Ids \cup {NoId}]

\* A process writes only what it has read as a task or made one, and has a
\* file cut only in the midst of a write.
WritesTidy ==
    \A p \in Procs :
        /\ \A t \in todo[p] \cup at[p] : copy[p][t].whole
        /\ stage[p] # "cut" => at[p] = {}
        /\ cmd[p] = "none" => todo[p] = {} /\ at[p] = {}

\* An answer lands on the question the person was shown, and reads back as it
\* was given, with the question unharmed - as long as nobody changed the lines
\* of the task by hand since, other commands may (task_answer.go:52-100,
\* base.go:377-447).
AnswersLand ==
    \A p \in Procs : \A t \in (todo[p] \cup at[p]) \ handled :
        cmd[p] = "answer" =>
            LET body == copy[p][t].body IN
            /\ Questions(body) = shown[p].list
            /\ \A n \in DOMAIN batch[p] :
                   Answer(body[Items(body)[n]].text) = batch[p][n]

\* The task has an identifier, the file and every pending write agree on it,
\* and the file has its text or is about to get it back.
Settled(t) ==
    /\ last[t] # NoId
    /\ file[t].whole => file[t].id = last[t]
    /\ ~file[t].whole => \E p \in Procs : at[p] = {t}
    /\ \A p \in Procs : t \in todo[p] \cup at[p] => copy[p][t].id = last[t]

\* Once settled, an identifier is neither replaced nor lost by any order of
\* answers, updates, backfills and fixes.  Two things can take it away: a write
\* cut short, and a fix that read a file another command had just truncated
\* (task.go:46-64, lint.go:1188).
IdentifierSettled ==
    [][\A t \in Tasks : Settled(t) =>
           \/ Settled(t)' /\ last'[t] = last[t]
           \/ \E p \in Procs : at[p] = {t} /\ at'[p] = {} /\ ~file'[t].whole
           \/ \E p \in Procs : cmd'[p] = "lint" /\ t \in todo'[p] /\ ~file[t].whole
      ]_vars
=============================================================================
