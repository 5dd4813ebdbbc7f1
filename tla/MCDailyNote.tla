--------------------------- MODULE MCDailyNote ---------------------------
(* Instances of DailyNote for TLC. *)
EXTENDS DailyNote, TLC

CONSTANTS p1, p2, fish, hell

MCProcs == {p1, p2}
MCTasks == {fish, hell}

\* Symmetric: no draft tells the processes apart.
MCSymmetry == Permutations(MCProcs)

Line1(s, t, b) == [shape |-> s, of |-> t, box |-> b]

\* No note; a note with both sections, one pending entry, a mention of it and
\* an entry of another task; one without sections whose entry is decorated;
\* one with an indented entry.
Sectioned == <<Heading("Must"), Line1("plain", hell, "/"),
               Line1("mention", fish, " "), Heading("Should"),
               Line1("plain", fish, " "), Heading("Other")>>
Bare == <<Line1("decorated", fish, " ")>>
Nested == <<Heading("Must"), Line1("plain", hell, " "),
            Line1("indented", fish, " ")>>

MCDrafts == {<<>>, Sectioned, Bare, Nested}
==========================================================================
