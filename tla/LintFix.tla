------------------------------ MODULE LintFix ------------------------------
(***************************************************************************)
(* lint and lint --fix on one page of the vault (pkg/ops/lint.go).         *)
(*                                                                         *)
(* lint reads the text of a page with regular expressions, and with a YAML *)
(* parser where a rule says so; its fixes rewrite the text and never       *)
(* serialize it.  The two readings can differ, and the fixes of a run work *)
(* one after the other on one text, after all its findings were collected  *)
(* from the text before the first.                                         *)
(*                                                                         *)
(* A page is a sequence of lines.  A line of the frontmatter is a key with *)
(* the text after its colon, or an indented list item; a line of the body  *)
(* is a checkbox, or prose that looks like `key: text`.  Left out: blank   *)
(* lines, quotes around a word, and keys no rule is about.                 *)
(***************************************************************************)
EXTENDS Naturals, SequencesExt, Selections

CONSTANTS
    Texts,      \* what a key, or the text after a colon, can be
    GoalFiles,  \* names of the goals that exist
    FlowLists,  \* what a list written as `[a, b]` holds, by its text
    Commented,  \* the word of a text that ends in a comment
    Files,      \* <<the kind of page a command lints, page>> at the start
    MaxRuns     \* bound on the runs with --fix

VARIABLES
    type,    \* "task", "goal" or another kind, as the command was called
    page,    \* the text of the page
    report,  \* the issues of the last run
    runs,    \* runs with --fix so far
    fixes    \* runs with --fix since someone else wrote the page

vars == <<type, page, report, runs, fixes>>

----------------------------------------------------------------------------
(* The text. *)

Item == "-"
Box == "[]"
None == "none"

Line(k, v) == [key |-> k, val |-> v]

\* No block at the top: head is FALSE and every line is body.
Page(head, fm, body) == [head |-> head, fm |-> fm, body |-> body]

CanonicalStatuses == {"next", "in_progress", "backlog", "completed", "hold",
                      "aborted"}
Aliases == {"todo", "current", "done", "deferred"}
StatusWords == CanonicalStatuses \cup Aliases \cup {"urgent"}

Phases == {"todo", "planning", "execution", "in_progress", "ai_review",
           "human_review", "done"}
ActivePhases == {"execution", "in_progress", "ai_review", "human_review"}

NumberedWords == {"high", "must", "medium", "should", "low"}
PriorityOf(word) ==
    CASE word \in {"high", "must"} -> "1"
      [] word \in {"medium", "should"} -> "2"
      [] word = "low" -> "3"
PriorityWords == NumberedWords \cup {"urgent"}

DateKeys == {"planned_date", "defer_date", "due_date"}

BooleanKeys == {"flag", "manager_pin", "goal_loop", "auto_abort_prior",
                "spawn_notification", "shipping", "reviewed", "fixture",
                "needs_review", "fresh", "awaiting_input"}
Quoted == {"quoted_true", "quoted_false"}
Unquote(text) == IF text = "quoted_true" THEN "true" ELSE "false"

Identifiers == {"uuid1", "uuid2"}

Lines == [key : Texts, val : Texts]
PageTexts == [head : BOOLEAN, fm : Seq(Lines), body : Seq(Lines)]

\* What the fixes write is text; a list in brackets or a text with a comment
\* is none of the words.
ASSUME LintTexts ==
    /\ {"status", "priority", "backlog", "in_progress", "completed",
        "1", "2", "3", "true", "false"} \subseteq Texts
    /\ Files \subseteq Texts \X PageTexts
    /\ (DOMAIN FlowLists \cup DOMAIN Commented)
          \cap (StatusWords \cup PriorityWords
                   \cup {"1", "2", "3", "true", "false"}) = {}
    /\ MaxRuns \in Nat

----------------------------------------------------------------------------
(* The reading of a regular expression: the first line that fits. *)

Fits(lines, key, words) ==
    {i \in DOMAIN lines : lines[i].key = key /\ lines[i].val \in words}

FirstWord(lines, key, words) ==
    IF Fits(lines, key, words) = {} THEN None
    ELSE lines[Min(Fits(lines, key, words))].val

FirstStatus(lines) == FirstWord(lines, "status", StatusWords)
FirstPriority(lines) == FirstWord(lines, "priority", PriorityWords)

\* The expressions of the fixes are not anchored to the frontmatter.
Text(p) == p.fm \o p.body

Keys(fm) == {fm[i].key : i \in DOMAIN fm} \ {Item}

KeyLines(fm, key) == {i \in DOMAIN fm : fm[i].key = key}

Follows(fm, i, key) == \E j \in DOMAIN fm : j > i /\ fm[j].key = key

(* The reading of the YAML parser: nothing when a key comes twice, or when *)
(* an item has no key above it or one whose text cannot go on.             *)

Owner(fm, i) == Max({0} \cup {j \in 1..i : fm[j].key # Item})

Closed == DOMAIN FlowLists \cup DOMAIN Commented \cup Quoted

Parses(fm) ==
    /\ \A i, j \in DOMAIN fm :
           fm[i].key = fm[j].key /\ fm[i].key # Item => i = j
    /\ \A i \in KeyLines(fm, Item) :
           /\ Owner(fm, i) # 0
           /\ fm[Owner(fm, i)].val \notin Closed

Word(v) == IF v \in DOMAIN Commented THEN Commented[v] ELSE v

\* What a reader of a page that parses gets for a key: the text after the
\* colon and the items below.  With text and items they are folded together.
Reading(fm, key) ==
    LET i == Max(KeyLines(fm, key))
        below == {j \in KeyLines(fm, Item) : Owner(fm, j) = i}
    IN  [val |-> Word(fm[i].val),
         items |-> Selected([j \in DOMAIN fm |-> fm[j].val], below)]

IsList(r) == r.val \in DOMAIN FlowLists \/ (r.val = "" /\ r.items # <<>>)

\* A field of type string: absent reads as "", folded text as no known word.
Field(fm, key) ==
    IF key \notin Keys(fm) THEN ""
    ELSE LET r == Reading(fm, key)
         IN  IF r.items = <<>> THEN r.val ELSE "folded"

\* Decoding fails on a list where a string is expected.
Decodes(fm, keys) ==
    Parses(fm) /\ \A k \in keys \cap Keys(fm) : ~IsList(Reading(fm, k))

----------------------------------------------------------------------------
(* The rules. *)

Duplicated(fm) == {k \in Keys(fm) : \E i, j \in KeyLines(fm, k) : i # j}

InvalidPriority(fm) == FirstPriority(fm) \in NumberedWords

InvalidStatus(fm) ==
    FirstStatus(fm) \notin CanonicalStatuses \cup Aliases \cup {None}

PhaseMismatch(fm) ==
    LET status == FirstStatus(fm)
        phase == FirstWord(fm, "phase", Phases)
        over == status \in {"completed", "aborted"}
    IN  /\ status # None
        /\ phase # None
        /\ \/ over # (phase = "done")
           \/ status \in {"backlog", "hold"} /\ phase \in ActivePhases

\* The expression for a date goes over the end of the line: after a bare key
\* it takes the next line for the date when that is a bare key too.
Dated(fm, i) ==
    \/ fm[i].val # ""
    \/ i < Len(fm) /\ fm[i + 1].key # Item /\ fm[i + 1].val = ""

DateMismatch(fm) ==
    /\ FirstStatus(fm) \in {"next", "backlog"}
    /\ \E i \in DOMAIN fm : fm[i].key \in DateKeys /\ Dated(fm, i)

HoldWithDefer(fm) ==
    /\ Decodes(fm, {"status", "defer_date", "created_by", "recurring"})
    /\ Field(fm, "status") = "hold"
    /\ Field(fm, "defer_date") # ""
    /\ Field(fm, "created_by") # "recurring-task-creator"
    /\ Field(fm, "recurring") = ""

\* A list in brackets anywhere comes first.  The expression for a list of
\* lines lets its dot match a newline: it takes all lines to the end.
GoalItems(fm) ==
    LET inline == {i \in KeyLines(fm, "goals") : fm[i].val \in DOMAIN FlowLists}
        lists == {i \in KeyLines(fm, "goals") :
                     fm[i].val = "" /\ i + 1 \in KeyLines(fm, Item)}
    IN  IF inline # {} THEN ToSet(FlowLists[fm[Min(inline)].val])
        ELSE IF lists = {} THEN {}
        ELSE {fm[i].val : i \in {i \in KeyLines(fm, Item) : i > Min(lists)}}

OrphanGoals(fm) == GoalItems(fm) \ GoalFiles

Boxes(p) == {i \in DOMAIN Text(p) :
                Text(p)[i].key = Box /\ Text(p)[i].val # "/"}

\* Mutant: only the last checkbox is looked at.
AllChecked_Last(p) ==
    Boxes(p) # {} /\ Text(p)[Max(Boxes(p))].val = "x"

AllChecked(p) ==
    /\ Boxes(p) # {}
    /\ \A i \in Boxes(p) : Text(p)[i].val = "x"

\* Checkboxes count unless the word `recurring:` is in the block.
CountsBoxes(p) ==
    /\ "recurring" \notin Keys(p.fm)
    /\ FirstStatus(p.fm) # None
    /\ Boxes(p) # {}
Unfinished(p) ==
    CountsBoxes(p) /\ FirstStatus(p.fm) = "completed" /\ ~AllChecked(p)
Finished(p) ==
    CountsBoxes(p) /\ FirstStatus(p.fm) # "completed" /\ AllChecked(p)

BlockedByScalar(fm) ==
    /\ Parses(fm)
    /\ "blocked_by" \in Keys(fm)
    /\ LET r == Reading(fm, "blocked_by")
       IN  ~IsList(r) /\ r.val # ""

CreatedMissing(fm) ==
    LET status == FirstWord(fm, "status", StatusWords \cup DOMAIN Commented)
    IN  /\ Word(status) = "completed"
        /\ LET created == KeyLines(fm, "created")
           IN  \/ created = {}
               \/ fm[Min(created)].val \in {"", "null"}

QuotedBooleans(fm) ==
    {k \in BooleanKeys : \E i \in KeyLines(fm, k) : fm[i].val \in Quoted}

IdentifierMissing(fm) ==
    /\ Decodes(fm, {"task_identifier"})
    /\ Field(fm, "task_identifier") = ""
IdentifierInvalid(fm) ==
    /\ Decodes(fm, {"task_identifier"})
    /\ Field(fm, "task_identifier") \notin Identifiers \cup {""}

----------------------------------------------------------------------------
(* The findings on a page with frontmatter.  An issue names a key or goal, *)
(* where a rule can find several.                                          *)

Issue(kind, of) == [kind |-> kind, of |-> of]

If(kind, rule) == IF rule THEN {Issue(kind, "")} ELSE {}

Found(t, p, orphans) ==
    If("INVALID_PRIORITY", InvalidPriority(p.fm))
        \cup If("INVALID_STATUS", InvalidStatus(p.fm))
        \cup If("STATUS_PHASE_MISMATCH", PhaseMismatch(p.fm))
        \cup If("STATUS_DATE_MISMATCH", DateMismatch(p.fm))
        \cup If("HOLD_WITH_DEFER_DATE", t = "task" /\ HoldWithDefer(p.fm))
        \cup If("UNFINISHED_CHECKBOXES", Unfinished(p))
        \cup If("STATUS_CHECKBOX_MISMATCH", Finished(p))
        \cup If("BLOCKED_BY_SCALAR", BlockedByScalar(p.fm))
        \cup If("COMPLETED_GOAL_MISSING_CREATED", t = "goal" /\ CreatedMissing(p.fm))
        \cup If("MISSING_TASK_IDENTIFIER", t = "task" /\ IdentifierMissing(p.fm))
        \cup If("INVALID_TASK_IDENTIFIER", t = "task" /\ IdentifierInvalid(p.fm))
        \cup {Issue("DUPLICATE_KEY", k) : k \in Duplicated(p.fm)}
        \cup {Issue("QUOTED_BOOLEAN", k) : k \in QuotedBooleans(p.fm)}
        \cup {Issue("ORPHAN_GOAL", g) : g \in orphans}

Issues(t, p) ==
    IF p.head THEN Found(t, p, OrphanGoals(p.fm))
              ELSE {Issue("MISSING_FRONTMATTER", "")}

----------------------------------------------------------------------------
(* The fixes. *)

Rewritten(lines, key, words, new) ==
    [i \in DOMAIN lines |-> IF lines[i].key = key /\ lines[i].val \in words
                            THEN Line(key, new) ELSE lines[i]]

\* Every line of the file that fits, in the body too.
Rewrite(p, key, words, new) ==
    [p EXCEPT !.fm = Rewritten(@, key, words, new),
              !.body = Rewritten(@, key, words, new)]

Unquoted(p) ==
    [p EXCEPT !.fm = [i \in DOMAIN @ |->
        IF @[i].key \in BooleanKeys /\ @[i].val \in Quoted
        THEN Line(@[i].key, Unquote(@[i].val)) ELSE @[i]]]

\* Drops the line of a key that comes again, not the items below it.
LastOnes(fm) ==
    Selected(fm, {i \in DOMAIN fm : fm[i].key = Item \/ ~Follows(fm, i, fm[i].key)})

Deduplicated(p) ==
    IF Parses(LastOnes(p.fm)) THEN [p EXCEPT !.fm = LastOnes(@)] ELSE p

Numbered(p) ==
    LET word == FirstPriority(Text(p))
    IN  IF word \in NumberedWords
        THEN Rewrite(p, "priority", PriorityWords, PriorityOf(word)) ELSE p

\* Mutant: a dated task that was not started is parked.
Promoted_Hold(p) ==
    IF FirstStatus(Text(p)) \in {"next", "backlog"}
    THEN Rewrite(p, "status", StatusWords, "hold") ELSE p

Promoted(p) ==
    IF FirstStatus(Text(p)) \in {"next", "backlog"}
    THEN Rewrite(p, "status", StatusWords, "in_progress") ELSE p

Completed(p) ==
    IF Finished(p) THEN Rewrite(p, "status", StatusWords, "completed") ELSE p

FixOrder == <<"QUOTED_BOOLEAN", "DUPLICATE_KEY", "INVALID_PRIORITY",
              "STATUS_DATE_MISMATCH", "STATUS_CHECKBOX_MISMATCH">>

\* The texts of a run: before its first fix, and after each.
Stages(p, kinds) ==
    LET unquoted == IF "QUOTED_BOOLEAN" \in kinds THEN Unquoted(p) ELSE p
        single == IF "DUPLICATE_KEY" \in kinds
                  THEN Deduplicated(unquoted) ELSE unquoted
        numbered == IF "INVALID_PRIORITY" \in kinds THEN Numbered(single) ELSE single
        promoted == IF "STATUS_DATE_MISMATCH" \in kinds
                    THEN Promoted(numbered) ELSE numbered
        completed == IF "STATUS_CHECKBOX_MISMATCH" \in kinds
                     THEN Completed(promoted) ELSE promoted
    IN  <<p, unquoted, single, numbered, promoted, completed>>

\* Mutant: every fix that was tried counts.
Worked_All(p, kinds) == kinds \cap ToSet(FixOrder)

\* The kinds of issue whose fix changed the text.
Worked(p, kinds) ==
    LET texts == Stages(p, kinds)
    IN  {FixOrder[n] : n \in {n \in DOMAIN FixOrder : texts[n + 1] # texts[n]}}

\* Several duplicated keys are several issues; the first fix removes them all
\* and the others report no change.
FirstDuplicate(fm) ==
    LET again == {i \in DOMAIN fm : fm[i].key # Item
                      /\ \E j \in 1..(i - 1) : fm[j].key = fm[i].key}
    IN  fm[Min(again)].key

Reported(issues, fixed) ==
    {[issue |-> i, fixed |-> i \in fixed] : i \in issues}

\* Mutant: the block has no closing line.
WithFrontmatter_Unclosed(p) ==
    Page(FALSE, <<>>, <<Line("status", "backlog")>> \o p.body)

WithFrontmatter(p) == Page(TRUE, <<Line("status", "backlog")>>, p.body)

\* <<text, report>> of a run with --fix.
Fixed(t, p) ==
    LET issues == Issues(t, p)
        kinds == {i.kind : i \in issues}
        worked == Worked(p, kinds)
        counted(i) == /\ i.kind \in worked
                      /\ i.kind = "DUPLICATE_KEY" => i.of = FirstDuplicate(p.fm)
        new == WithFrontmatter(p)
    IN  IF p.head
        THEN <<Last(Stages(p, kinds)),
               Reported(issues, {i \in issues : counted(i)})>>
        ELSE <<new, Reported(issues, issues) \cup Reported(Issues(t, new), {})>>

----------------------------------------------------------------------------
Init ==
    /\ \E f \in Files : type = f[1] /\ page = f[2]
    /\ report = {}
    /\ runs = 0
    /\ fixes = 0

FixRun ==
    /\ runs < MaxRuns
    /\ runs' = runs + 1
    /\ UNCHANGED type

\* `lint` without --fix.
Lint ==
    /\ report' = Reported(Issues(type, page), {})
    /\ UNCHANGED <<type, page, runs, fixes>>

\* `validate` of one page: it has no directory of goals to look into.
Validate ==
    /\ report' = Reported(IF page.head THEN Found(type, page, {})
                          ELSE Issues(type, page), {})
    /\ UNCHANGED <<type, page, runs, fixes>>

LintFix ==
    /\ FixRun
    /\ \E done \in {Fixed(type, page)} : page' = done[1] /\ report' = done[2]
    /\ fixes' = fixes + 1

\* The file is truncated before it is written; the run dies in between.
LintFixDies ==
    /\ FixRun
    /\ page # Page(FALSE, <<>>, <<>>)
    /\ Fixed(type, page)[1] # page
    /\ page' = Page(FALSE, <<>>, <<>>)
    /\ report' = {}
    /\ fixes' = 0

Next == Lint \/ Validate \/ LintFix \/ LintFixDies

Spec == Init /\ [][Next]_vars
----------------------------------------------------------------------------
(* Properties. *)

\* Two runs of --fix are enough: a third one changes nothing, whatever was
\* wrong with the page.  Each run looks for issues once, before its fixes, and
\* a fix can uncover what the next run finds (fixIssues).
FixSettles == fixes >= 2 => Fixed(type, page)[1] = page

\* What a run reports as fixed is gone from the page it leaves: no later fix
\* of the run brings it back, and none is reported that did nothing.
FixedIsGone ==
    LET now == Issues(type, page)
    IN  \A r \in report : r.fixed => r.issue \notin now

\* A run with --fix went through.
FixDone == fixes' = fixes + 1

\* On a page that parses, --fix keeps every key and every checkbox, and what
\* each key means: a priority becomes a number, a quoted boolean a boolean, a
\* status moves only to in_progress, from an unstarted one beside a date key,
\* or to completed, with no open checkbox and no recurrence.
MeaningKept ==
    [][FixDone /\ page.head /\ Parses(page.fm) =>
        /\ Parses(page'.fm)
        /\ Keys(page'.fm) = Keys(page.fm)
        /\ \A i \in DOMAIN page.body :
               page.body[i].key = Box => page'.body[i] = page.body[i]
        /\ \A k \in Keys(page.fm) :
            LET old == Reading(page.fm, k)
                new == Reading(page'.fm, k)
            IN  \/ new = old
                \/ k = "priority" /\ new.val \in {"1", "2", "3"}
                \/ k \in BooleanKeys /\ new.val \in {"true", "false"}
                \/ /\ k = "status"
                   /\ new.val = "in_progress"
                   /\ old.val \in {"next", "backlog"}
                   /\ DateKeys \cap Keys(page.fm) # {}
                \/ /\ k = "status"
                   /\ new.val = "completed"
                   /\ "recurring" \notin Keys(page.fm)
                   /\ Line(Box, " ") \notin ToSet(page.body)]_vars

\* On a page that parses, --fix leads to no issue the page did not have, but
\* for what completing it leads to: a phase that is not done, and for a goal
\* the missing start date.
NoNewTrouble ==
    [][FixDone /\ page.head /\ Parses(page.fm) =>
        \A i \in IF page' = page THEN {}
                 ELSE Issues(type, page') \ Issues(type, page) :
            /\ FirstStatus(page'.fm) = "completed"
            /\ i.kind \in {"STATUS_PHASE_MISMATCH",
                           "COMPLETED_GOAL_MISSING_CREATED"}]_vars

\* What the comment on fixDuplicateKeys says: the last occurrence of a key is
\* kept, and no other key is touched.
LastKept ==
    [][FixDone /\ page.head =>
        \A k \in Keys(page.fm) :
            Reading(page'.fm, k).items = Reading(page.fm, k).items]_vars

============================================================================
