---------------------------- MODULE DailyNote ----------------------------
(***************************************************************************)
(* The tasks' lines in the daily notes: what `task work-on`, `complete`    *)
(* and `defer` do to them after they wrote the task file (workon.go,       *)
(* complete.go, defer.go, daily_note_entry.go, storage/daily_note.go).     *)
(*                                                                         *)
(* A command reads a whole note, edits the copy and writes it back; there  *)
(* is no lock, a failure is only a warning, and `defer` edits two notes.   *)
(* A note is the sequence of the lines that matter: section headings and   *)
(* checkbox lines.  A missing note and an empty one both read as <<>>.     *)
(* The calendar turns only while no command runs.                          *)
(***************************************************************************)
EXTENDS Naturals, Sequences, SequencesExt, Selections

CONSTANTS
    Procs,        \* processes that run commands
    Tasks,        \* names of tasks
    Days,         \* the last day of the calendar
    Drafts,       \* notes a day may start with
    MaxCommands   \* bound on commands

VARIABLES
    note,      \* note[d]: the note of day d
    today,     \* the calendar
    todo,      \* todo[p]: edits of notes that p's command has yet to make
    mem,       \* mem[p]: the note p read for the first of them
    pc,        \* "idle", "read" or "write"
    fresh,     \* fresh[p] (history): nobody wrote a note since p read it
    clean,     \* clean[p] (history): no step of p's command failed, and
               \* nobody else wrote a note while it ran
    commands   \* commands begun so far

vars == <<note, today, todo, mem, pc, fresh, clean, commands>>

Sections == {"Must", "Should", "Other"}

\* A checkbox line that starts with the task's link is the task's own entry:
\* as the commands write it ("plain"), after white space ("indented"), or
\* with decoration, an alias or a `*` marker ("decorated").  One that has the
\* link after prose is a "mention".
OwnShapes == {"plain", "indented", "decorated"}

Line == [shape : OwnShapes \cup {"mention"}, of : Tasks, box : {" ", "/", "x"}]
        \cup [shape : {"heading"}, of : Sections, box : {"-"}]

Heading(s) == [shape |-> "heading", of |-> s, box |-> "-"]
Entry(t, b) == [shape |-> "plain", of |-> t, box |-> b]

\* IsOwnDailyNoteEntry on a line that CheckboxRegex matches.
Own(l, t) == l.shape \in OwnShapes /\ l.of = t

Owned(n, t) == {i \in DOMAIN n : Own(n[i], t)}

ASSUME DailyAssumption == /\ Days \in Nat \ {0} /\ MaxCommands \in Nat
                          /\ Drafts \subseteq Seq(Line)

--------------------------------------------------------------------------
(* The edits, as functions of the note they read.                          *)

\* The first heading of a section, 0 for none.
SectionIndex(n, s) ==
    LET at == {i \in DOMAIN n : n[i] = Heading(s)}
    IN IF at = {} THEN 0 ELSE CHOOSE i \in at : \A j \in at : i <= j

\* The place of the next heading after i, or the place after the last line.
SectionEnd(n, i) ==
    LET next == {j \in DOMAIN n : j > i /\ n[j].shape = "heading"}
    IN IF next = {} THEN Len(n) + 1
       ELSE CHOOSE j \in next : \A k \in next : j <= k

\* appendTaskToDaily: below the Must heading, else at the end.
AppendStarted(n, t) ==
    LET must == SectionIndex(n, "Must")
    IN InsertAt(n, IF must = 0 THEN Len(n) + 1 ELSE must + 1, Entry(t, "/"))

\* findAndUpdateTaskCheckbox marks the first own entry as begun if it is
\* pending.  The text it replaces starts with the entry's white space, so an
\* indented entry stays as it is.
Started(n, i) ==
    IF n[i].box = " " /\ n[i].shape # "indented"
    THEN [n EXCEPT ![i].box = "/"] ELSE n

\* Mutant: an entry is always added.
Mark_Append(n, t) == IF n = <<>> THEN n ELSE AppendStarted(n, t)

\* updateDailyNote of work-on.
Mark(n, t) ==
    IF n = <<>> THEN n
    ELSE IF Owned(n, t) = {} THEN AppendStarted(n, t)
    ELSE Started(n, CHOOSE i \in Owned(n, t) : \A j \in Owned(n, t) : i <= j)

\* Mutant: only a pending entry is ticked.
Tick_Pending(n, t) ==
    [i \in DOMAIN n |->
        IF i \in Owned(n, t) /\ n[i].box = " "
        THEN [n[i] EXCEPT !.box = "x"] ELSE n[i]]

\* Mutant: the box is ticked with a capital letter.
Tick_Capital(n, t) ==
    [i \in DOMAIN n |->
        IF i \in Owned(n, t) THEN [n[i] EXCEPT !.box = "X"] ELSE n[i]]

\* updateDailyNote of complete: every own entry.
Tick(n, t) ==
    [i \in DOMAIN n |->
        IF i \in Owned(n, t) THEN [n[i] EXCEPT !.box = "x"] ELSE n[i]]

\* Mutant: every line that links to the task.
Strike_Mention(n, t) ==
    Selected(n, {i \in DOMAIN n : n[i].shape = "heading" \/ n[i].of # t})

\* removeFromDailyNote: every own entry.
Strike(n, t) == Selected(n, DOMAIN n \ Owned(n, t))

\* Mutant: only the first own entry is compared.
Listed_First(n, t) ==
    \E i \in Owned(n, t) :
        /\ \A j \in Owned(n, t) : i <= j
        /\ n[i].box = " " /\ n[i].shape # "decorated"

\* strings.Contains(content, taskLine): the line as addToDailyNote writes it,
\* indented or not.
Listed(n, t) ==
    \E i \in Owned(n, t) : n[i].box = " " /\ n[i].shape # "decorated"

\* insertTaskIntoSection: at the end of Should, else of Must, else of the
\* note.
InsertPending(n, t) ==
    LET should == SectionIndex(n, "Should")
        must == SectionIndex(n, "Must")
        place == IF should # 0 THEN SectionEnd(n, should)
                 ELSE IF must # 0 THEN SectionEnd(n, must) ELSE Len(n) + 1
    IN InsertAt(n, place, Entry(t, " "))

\* addToDailyNote: a missing note is created.
Add(n, t) ==
    IF n = <<>> THEN <<Heading("Should"), Entry(t, " ")>>
    ELSE IF Listed(n, t) THEN n ELSE InsertPending(n, t)

\* An edit is of a kind, for a task, in the note of a day.
Edit == [kind : {"mark", "tick", "remove", "add"}, task : Tasks, day : 1..Days]

Apply(kind, n, t) ==
    CASE kind = "mark" -> Mark(n, t)
      [] kind = "tick" -> Tick(n, t)
      [] kind = "remove" -> Strike(n, t)
      [] kind = "add" -> Add(n, t)

\* Whether the edit writes the note; a write may change nothing.
Writes(kind, n, t) ==
    CASE kind = "mark" -> /\ n # <<>>
                          /\ Owned(n, t) = {} \/ n[CHOOSE i \in Owned(n, t) :
                                 \A j \in Owned(n, t) : i <= j].box = " "
      [] kind = "tick" -> Owned(n, t) # {}
      [] kind = "remove" -> n # <<>>
      [] kind = "add" -> n = <<>> \/ ~Listed(n, t)

--------------------------------------------------------------------------
TypeOK ==
    /\ note \in [1..Days -> Seq(Line)]
    /\ today \in 1..Days
    /\ todo \in [Procs -> Seq(Edit)]
    /\ mem \in [Procs -> Seq(Line)]
    /\ pc \in [Procs -> {"idle", "read", "write"}]
    /\ fresh \in [Procs -> BOOLEAN]
    /\ clean \in [Procs -> BOOLEAN]
    /\ commands \in 0..MaxCommands

Init ==
    /\ note \in [1..Days -> Drafts]
    /\ today = 1
    /\ todo = [p \in Procs |-> <<>>]
    /\ mem = [p \in Procs |-> <<>>]
    /\ pc = [p \in Procs |-> "idle"]
    /\ fresh = [p \in Procs |-> FALSE]
    /\ clean = [p \in Procs |-> FALSE]
    /\ commands = 0

\* The command has written the task file; its edits follow, even if that
\* file is written again meanwhile.  A failed find, guard or write of the
\* task ends the command before it begins here.
Begin(p, edits) ==
    /\ pc[p] = "idle"
    /\ commands < MaxCommands
    /\ commands' = commands + 1
    /\ todo' = [todo EXCEPT ![p] = edits]
    /\ pc' = [pc EXCEPT ![p] = "read"]
    /\ clean' = [clean EXCEPT ![p] = \A q \in Procs : pc[q] = "idle"]
    /\ UNCHANGED <<note, today, mem, fresh>>

On(kind, t, d) == [kind |-> kind, task |-> t, day |-> d]

WorkOn(p, t) == Begin(p, <<On("mark", t, today)>>)

Complete(p, t) == Begin(p, <<On("tick", t, today)>>)

Defer(p, t, d) ==
    /\ d >= today
    /\ Begin(p, <<On("remove", t, today), On("add", t, d)>>)

\* The next edit; when none is left the command is over.
Advance(p) ==
    /\ todo' = [todo EXCEPT ![p] = Tail(@)]
    /\ mem' = [mem EXCEPT ![p] = <<>>]
    /\ pc' = [pc EXCEPT ![p] = IF Len(todo[p]) > 1 THEN "read" ELSE "idle"]

Read(p) ==
    /\ pc[p] = "read"
    /\ LET e == Head(todo[p])
           n == note[e.day]
       IN IF Writes(e.kind, n, e.task)
          THEN /\ mem' = [mem EXCEPT ![p] = n]
               /\ pc' = [pc EXCEPT ![p] = "write"]
               /\ fresh' = [fresh EXCEPT ![p] = TRUE]
               /\ UNCHANGED todo
          ELSE Advance(p) /\ UNCHANGED fresh
    /\ UNCHANGED <<note, today, clean, commands>>

Write(p) ==
    /\ pc[p] = "write"
    /\ LET e == Head(todo[p])
       IN note' = [note EXCEPT ![e.day] = Apply(e.kind, mem[p], e.task)]
    /\ Advance(p)
    /\ fresh' = [q \in Procs |-> FALSE]
    /\ clean' = [q \in Procs |-> q = p /\ clean[p]]
    /\ UNCHANGED <<today, commands>>

\* A read or a write fails: a warning, and the command goes on.
EditFails(p) ==
    /\ pc[p] # "idle"
    /\ Advance(p)
    /\ clean' = [clean EXCEPT ![p] = FALSE]
    /\ UNCHANGED <<note, today, fresh, commands>>

\* The process is killed.
Crash(p) ==
    /\ pc[p] # "idle"
    /\ pc' = [pc EXCEPT ![p] = "idle"]
    /\ todo' = [todo EXCEPT ![p] = <<>>]
    /\ mem' = [mem EXCEPT ![p] = <<>>]
    /\ clean' = [clean EXCEPT ![p] = FALSE]
    /\ UNCHANGED <<note, today, fresh, commands>>

Midnight ==
    /\ today < Days
    /\ \A p \in Procs : pc[p] = "idle"
    /\ today' = today + 1
    /\ UNCHANGED <<note, todo, mem, pc, fresh, clean, commands>>

Next ==
    \/ \E p \in Procs, t \in Tasks :
           \/ WorkOn(p, t)
           \/ Complete(p, t)
           \/ \E d \in 1..Days : Defer(p, t, d)
    \/ \E p \in Procs : Read(p) \/ Write(p) \/ EditFails(p) \/ Crash(p)
    \/ Midnight

Spec == Init /\ [][Next]_vars

--------------------------------------------------------------------------
(* Properties.                                                             *)

Others(n, t) == Selected(n, DOMAIN n \ Owned(n, t))

\* docs/daily-notes.md:16-53: an edit from an up to date copy changes the
\* task's own entries only: headings, mentions and the entries of other tasks
\* stay, in their order.
OthersKept ==
    [][\A p \in Procs :
         pc[p] = "write" /\ fresh[p] /\ Write(p) =>
            LET e == Head(todo[p])
            IN note[e.day] # <<>> =>
                  Others(note'[e.day], e.task) = Others(note[e.day], e.task)]_vars

\* However commands of several processes interleave, fail and are repeated,
\* a note never lists a task twice as pending in the form the commands write.
ListedOnce ==
    \A d \in 1..Days, t \in Tasks : \A i, j \in DOMAIN note[d] :
        note[d][i] = Entry(t, " ") /\ note[d][j] = Entry(t, " ") => i = j

\* A command that nothing disturbed leaves the notes as it promises, whatever
\* earlier commands that failed half way left behind: a completed task has no
\* open entry today, a task worked on has one that is not pending (unless
\* indented), a deferred one is listed on its day and on no other day it had
\* to leave.
Achieved(e, n) ==
    CASE e.kind = "mark" ->
            n[e.day] # <<>> =>
               \E i \in Owned(n[e.day], e.task) :
                   n[e.day][i].box # " " \/ n[e.day][i].shape = "indented"
      [] e.kind = "tick" ->
            \A i \in Owned(n[e.day], e.task) : n[e.day][i].box = "x"
      [] e.kind = "add" ->
            /\ \E i \in Owned(n[e.day], e.task) : n[e.day][i].box = " "
            /\ e.day # today => Owned(n[today], e.task) = {}
      [] OTHER -> FALSE

CommandAchieves ==
    [][\A p \in Procs :
         clean[p] /\ Len(todo[p]) = 1 /\ (Read(p) \/ Write(p))
            /\ pc'[p] = "idle" =>
               Achieved(Head(todo[p]), note')]_vars

\* Repeating an edit changes nothing more: after a failure or a crash a
\* command can simply be given again.
RepeatHarmless ==
    \A d \in 1..Days, t \in Tasks, kind \in {"mark", "tick", "remove", "add"} :
        LET once == Apply(kind, note[d], t)
        IN Apply(kind, once, t) = once

==========================================================================
