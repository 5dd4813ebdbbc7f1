------------------------- MODULE VaultTasks_proofs -------------------------
(***************************************************************************)
(* What VaultTasks says of identifiers, and of the text of an answer, for  *)
(* any tasks, processes, bodies and answers.                               *)
(*                                                                         *)
(* Copies and files are functions of tasks, and all that matters of a text *)
(* here is whether it is whole and which identifier it has: one lemma for  *)
(* each way a step makes a new text from an old one, one for a new copy,   *)
(* and then one step per action.                                           *)
(***************************************************************************)
EXTENDS VaultTasks, SelectionFacts

USE VaultNames

\* A new body leaves the other parts of a text alone.
LEMMA Rebodied ==
    ASSUME NEW f, IsText(f), NEW b
    PROVE  /\ IsText([f EXCEPT !.body = b])
           /\ [f EXCEPT !.body = b].id = f.id
           /\ [f EXCEPT !.body = b].whole = f.whole
  BY DEF IsText

\* ... and so does frontmatter put on it.
LEMMA Made ==
    ASSUME NEW f, IsText(f)
    PROVE  /\ IsText([f EXCEPT !.whole = TRUE])
           /\ [f EXCEPT !.whole = TRUE].whole
           /\ [f EXCEPT !.whole = TRUE].id = f.id
  BY DEF IsText

LEMMA Emptied == IsText(Empty) /\ ~Empty.whole
  BY DEF IsText, Empty

\* Copies of all tasks by all processes.
IsCopies(c) ==
    /\ DOMAIN c = Procs
    /\ \A p \in Procs : DOMAIN c[p] = Tasks /\ \A t \in Tasks : IsText(c[p][t])

\* The texts in the directory.
IsFiles(f) == DOMAIN f = Tasks /\ \A t \in Tasks : IsText(f[t])

\* The other variables.
ControlOK ==
    /\ cmd \in [Procs -> Commands]
    /\ stage \in [Procs -> {"list", "write", "cut"}]
    /\ unread \in [Procs -> SUBSET Tasks]
    /\ todo \in [Procs -> SUBSET Tasks]
    /\ at \in [Procs -> SUBSET Tasks]
    /\ handled \subseteq Tasks
    /\ last \in [Tasks -> Ids \cup {NoId}]

----------------------------------------------------------------------------
\* What the steps that prepare one write do to the copies.
LEMMA Prepared ==
    ASSUME TypeOK, NEW p \in Procs, NEW t \in Tasks, NEW c \in Commands,
           NEW f, IsText(f), Issue(p, c), Prepares(p, t, f)
    PROVE  /\ TypeOK'
           /\ copy'[p][t] = f /\ cmd'[p] = c /\ cmd[p] = "none"
           /\ todo'[p] = {t} /\ at' = at /\ stage'[p] = "write"
           /\ \A u \in Tasks \ {t} : copy'[p][u] = copy[p][u]
           /\ \A q \in Procs \ {p} :
                  /\ todo'[q] = todo[q] /\ stage'[q] = stage[q] /\ cmd'[q] = cmd[q]
                  /\ \A u \in Tasks : copy'[q][u] = copy[q][u]
<1>1. copy' = [copy EXCEPT ![p][t] = f] /\ IsCopies(copy)
  BY DEF Prepares, TypeOK, IsCopies
<1>2. /\ IsCopies(copy') /\ copy'[p][t] = f
      /\ \A q \in Procs, u \in Tasks :
             q # p \/ u # t => copy'[q][u] = copy[q][u]
  BY <1>1 DEF IsCopies
<1>3. ControlOK'
  BY DEF Prepares, Issue, Idle, ControlOK, TypeOK
<1>4. IsFiles(file')
  BY DEF Prepares, TypeOK, IsFiles
<1>5. TypeOK'
  BY <1>2, <1>3, <1>4 DEF TypeOK, IsFiles, IsCopies, ControlOK
<1>6. QED
  BY <1>2, <1>5 DEF Prepares, Issue, Idle, TypeOK

----------------------------------------------------------------------------
\* The induction step of the type invariant.
LEMMA TypeStep ==
    ASSUME TypeOK, [Next]_vars
    PROVE  TypeOK'
<1>1. CASE UNCHANGED vars
  BY <1>1 DEF vars, TypeOK
<1>2. ASSUME NEW p \in Procs, NEW t \in Tasks, ShowQuestions(p, t)
      PROVE  TypeOK'
  BY <1>2 DEF ShowQuestions, TypeOK
<1>3. ASSUME NEW p \in Procs, NEW t \in Tasks, AnswerQuestions(p, t)
      PROVE  TypeOK'
  <2>1. PICK answers : Prepares(p, t, [file[t] EXCEPT !.body = Answered(@, answers)])
    BY <1>3 DEF AnswerQuestions
  <2>2. IsText([file[t] EXCEPT !.body = Answered(@, answers)])
    BY Rebodied DEF TypeOK, IsText
  <2>3. Issue(p, "answer") /\ "answer" \in Commands
    BY <1>3 DEF AnswerQuestions, Commands
  <2>4. QED
    BY <2>1, <2>2, <2>3, Prepared
<1>4. ASSUME NEW p \in Procs, NEW t \in Tasks, Update(p, t)
      PROVE  TypeOK'
  <2>1. IsText(file[t]) /\ "update" \in Commands
    BY DEF TypeOK, Commands
  <2>2. QED
    BY <1>4, <2>1, Prepared DEF Update
<1>5. ASSUME NEW p \in Procs, NEW t \in Tasks, LintFix(p, t)
      PROVE  TypeOK'
  <2>1. IsText([file[t] EXCEPT !.whole = TRUE]) /\ "lint" \in Commands
    BY Made DEF TypeOK, IsText, Commands
  <2>2. QED
    BY <1>5, <2>1, Prepared DEF LintFix
<1>6. ASSUME NEW p \in Procs, NEW t \in Tasks, ReadNext(p, t)
      PROVE  TypeOK'
  <2>1. IsCopies(copy')
    BY <1>6 DEF ReadNext, TypeOK, IsCopies
  <2>2. IsFiles(file') /\ ControlOK'
    BY <1>6 DEF ReadNext, TypeOK, IsFiles, ControlOK
  <2>3. QED
    BY <2>1, <2>2 DEF TypeOK, IsCopies, IsFiles, ControlOK
<1>7. ASSUME NEW p \in Procs, NEW t \in Tasks, Truncate(p, t)
      PROVE  TypeOK'
  <2>1. IsFiles(file')
    BY <1>7, Emptied DEF Truncate, TypeOK, IsFiles
  <2>2. IsCopies(copy')
    <3>1. CASE UNCHANGED copy
      BY <3>1 DEF TypeOK, IsCopies
    <3>2. ASSUME NEW id \in Ids, copy' = [copy EXCEPT ![p][t].id = id]
          PROVE  IsCopies(copy')
      BY <3>2 DEF TypeOK, IsCopies, IsText
    <3>3. QED
      BY <1>7, <3>1, <3>2 DEF Truncate
  <2>3. ControlOK'
    BY <1>7 DEF Truncate, TypeOK, ControlOK
  <2>4. QED
    BY <2>1, <2>2, <2>3 DEF TypeOK, IsCopies, IsFiles, ControlOK
<1>8. ASSUME NEW p \in Procs, NEW t \in Tasks, Fill(p, t)
      PROVE  TypeOK'
  <2>1. IsText(copy[p][t]) /\ copy[p][t].id \in Ids \cup {NoId}
    BY DEF TypeOK, IsText
  <2>2. IsFiles(file')
    <3>1. ASSUME NEW f, IsText(f), file' = [file EXCEPT ![t] = f]
          PROVE  IsFiles(file')
      BY <3>1 DEF TypeOK, IsFiles
    <3>2. ASSUME NEW w \in Words
          PROVE  IsText([copy[p][t] EXCEPT !.body = Append(@, Line("item", <<w>>))])
      BY <2>1 DEF IsText
    <3>3. QED
      BY <1>8, <2>1, <3>1, <3>2 DEF Fill
  <2>3. IsCopies(copy') /\ ControlOK'
    BY <1>8, <2>1 DEF Fill, TypeOK, IsCopies, ControlOK
  <2>4. QED
    BY <2>2, <2>3 DEF TypeOK, IsCopies, IsFiles, ControlOK
<1>9. ASSUME NEW p \in Procs, NEW t \in Tasks, WriteFails(p, t)
      PROVE  TypeOK'
  BY <1>9 DEF WriteFails, TypeOK
<1>10. ASSUME NEW p \in Procs, Backfill(p)
      PROVE  TypeOK'
  BY <1>10 DEF Backfill, Issue, Commands, TypeOK
<1>11. ASSUME NEW p \in Procs, EndsList(p)
      PROVE  TypeOK'
  BY <1>11 DEF EndsList, TypeOK
<1>12. ASSUME NEW p \in Procs, Ends(p)
      PROVE  TypeOK'
  BY <1>12, Emptied DEF Ends, Commands, TypeOK
<1>13. ASSUME NEW p \in Procs, Crash(p)
      PROVE  TypeOK'
  BY <1>13, Emptied DEF Crash, Commands, TypeOK
<1>14. ASSUME NEW t \in Tasks, EditByHand(t)
      PROVE  TypeOK'
  <2>1. ASSUME NEW b, file' = [file EXCEPT ![t].body = b]
        PROVE  IsFiles(file')
    BY <2>1 DEF TypeOK, IsFiles, IsText
  <2>2. IsFiles(file')
    BY <1>14, <2>1 DEF EditByHand
  <2>3. IsCopies(copy') /\ ControlOK'
    BY <1>14 DEF EditByHand, TypeOK, IsCopies, ControlOK
  <2>4. QED
    BY <2>2, <2>3 DEF TypeOK, IsCopies, IsFiles, ControlOK
<1>15. QED
  BY <1>1, <1>2, <1>3, <1>4, <1>5, <1>6, <1>7, <1>8, <1>9, <1>10, <1>11,
     <1>12, <1>13, <1>14 DEF Next

----------------------------------------------------------------------------
\* The induction step of the writes' invariant: a command that begins has
\* nothing to write, and what is added to its writes is whole.
LEMMA TidyStep ==
    ASSUME TypeOK, WritesTidy, [Next]_vars
    PROVE  WritesTidy'
<1>1. CASE UNCHANGED vars
  BY <1>1 DEF vars, WritesTidy
<1>2. ASSUME NEW p \in Procs, NEW t \in Tasks, NEW c \in Commands, NEW f,
             c # "none", IsText(f), f.whole, Issue(p, c), Prepares(p, t, f)
      PROVE  WritesTidy'
  <2>1. at[p] = {}
    BY <1>2, Prepared DEF WritesTidy
  <2>2. /\ copy'[p][t] = f /\ cmd'[p] = c /\ todo'[p] = {t} /\ at' = at
        /\ stage'[p] = "write"
        /\ \A q \in Procs \ {p} :
               /\ todo'[q] = todo[q] /\ stage'[q] = stage[q] /\ cmd'[q] = cmd[q]
               /\ \A u \in Tasks : copy'[q][u] = copy[q][u]
    BY <1>2, Prepared
  <2>3. QED
    BY <1>2, <2>1, <2>2 DEF WritesTidy, TypeOK
<1>3. ASSUME NEW p \in Procs, NEW t \in Tasks, ShowQuestions(p, t)
      PROVE  WritesTidy'
  BY <1>3 DEF ShowQuestions, WritesTidy
<1>4. ASSUME NEW p \in Procs, NEW t \in Tasks, AnswerQuestions(p, t)
      PROVE  WritesTidy'
  <2>1. PICK answers : Prepares(p, t, [file[t] EXCEPT !.body = Answered(@, answers)])
    BY <1>4 DEF AnswerQuestions
  <2>2. LET f == [file[t] EXCEPT !.body = Answered(@, answers)]
        IN  IsText(f) /\ f.whole
    BY <1>4, Rebodied DEF TypeOK, IsText, AnswerQuestions
  <2>3. Issue(p, "answer") /\ "answer" \in Commands
    BY <1>4 DEF AnswerQuestions, Commands
  <2>4. QED
    BY <2>1, <2>2, <2>3, <1>2
<1>5. ASSUME NEW p \in Procs, NEW t \in Tasks, Update(p, t)
      PROVE  WritesTidy'
  <2>1. IsText(file[t]) /\ "update" \in Commands
    BY DEF TypeOK, Commands
  <2>2. QED
    BY <1>5, <2>1, <1>2 DEF Update
<1>6. ASSUME NEW p \in Procs, NEW t \in Tasks, LintFix(p, t)
      PROVE  WritesTidy'
  <2>1. LET f == [file[t] EXCEPT !.whole = TRUE]
        IN  IsText(f) /\ f.whole /\ "lint" \in Commands
    BY Made DEF TypeOK, IsText, Commands
  <2>2. QED
    BY <1>6, <2>1, <1>2 DEF LintFix
<1>7. ASSUME NEW p \in Procs, NEW t \in Tasks, ReadNext(p, t)
      PROVE  WritesTidy'
  BY <1>7 DEF ReadNext, WritesTidy, TypeOK
<1>8. ASSUME NEW p \in Procs, NEW t \in Tasks, Truncate(p, t)
      PROVE  WritesTidy'
  <2>1. \A q \in Procs, u \in Tasks : copy'[q][u].whole = copy[q][u].whole
    <3>1. CASE UNCHANGED copy
      BY <3>1
    <3>2. ASSUME NEW id \in Ids, copy' = [copy EXCEPT ![p][t].id = id]
          PROVE  \A q \in Procs, u \in Tasks :
                     copy'[q][u].whole = copy[q][u].whole
      BY <3>2 DEF TypeOK, IsText
    <3>3. QED
      BY <1>8, <3>1, <3>2 DEF Truncate
  <2>2. cmd[p] # "none"
    BY <1>8 DEF Truncate, WritesTidy
  <2>3. QED
    BY <1>8, <2>1, <2>2 DEF Truncate, WritesTidy, TypeOK
<1>9. ASSUME NEW p \in Procs, NEW t \in Tasks, Fill(p, t)
      PROVE  WritesTidy'
  BY <1>9 DEF Fill, WritesTidy, TypeOK
<1>10. ASSUME NEW p \in Procs, NEW t \in Tasks, WriteFails(p, t)
      PROVE  WritesTidy'
  BY <1>10 DEF WriteFails, WritesTidy, TypeOK
<1>11. ASSUME NEW p \in Procs, Backfill(p)
      PROVE  WritesTidy'
  BY <1>11 DEF Backfill, Issue, Idle, WritesTidy, TypeOK
<1>12. ASSUME NEW p \in Procs, EndsList(p)
      PROVE  WritesTidy'
  BY <1>12 DEF EndsList, WritesTidy, TypeOK
<1>13. ASSUME NEW p \in Procs, Ends(p)
      PROVE  WritesTidy'
  BY <1>13 DEF Ends, WritesTidy, TypeOK
<1>14. ASSUME NEW p \in Procs, Crash(p)
      PROVE  WritesTidy'
  BY <1>14 DEF Crash, WritesTidy, TypeOK
<1>15. ASSUME NEW t \in Tasks, EditByHand(t)
      PROVE  WritesTidy'
  BY <1>15 DEF EditByHand, WritesTidy
<1>16. QED
  BY <1>1, <1>3, <1>4, <1>5, <1>6, <1>7, <1>8, <1>9, <1>10, <1>11, <1>12,
     <1>13, <1>14, <1>15 DEF Next

LEMMA Start ==
    ASSUME Init
    PROVE  TypeOK /\ WritesTidy
  BY Emptied DEF Init, TypeOK, WritesTidy, Task, IsText, Commands

\* The type invariant of the tasks directory (task.go, base.go:505-561).
THEOREM TypeCorrect == Spec => []TypeOK
  BY Start, TypeStep, PTL DEF Spec

\* A process has a file cut only in the midst of a write, and writes only what
\* it has read as a task or made one (task.go:46-64).
THEOREM TidyWrites == Spec => []WritesTidy
<1>1. Spec => []TypeOK
  BY TypeCorrect
<1>2. TypeOK /\ WritesTidy /\ [Next]_vars => WritesTidy'
  BY TidyStep
<1>3. QED
  BY <1>1, <1>2, Start, PTL DEF Spec

----------------------------------------------------------------------------
\* What may become of a settled identifier in a step.
Kept(t) ==
    \/ Settled(t)' /\ last'[t] = last[t]
    \/ \E p \in Procs : at[p] = {t} /\ at'[p] = {} /\ ~file'[t].whole
    \/ \E p \in Procs : cmd'[p] = "lint" /\ t \in todo'[p] /\ ~file[t].whole

\* One lemma for each step that may touch it.  A prepared write of a settled
\* task carries its identifier.
LEMMA SettledPrepared ==
    ASSUME TypeOK, WritesTidy, NEW t \in Tasks, Settled(t), NEW p \in Procs,
           NEW u \in Tasks, NEW c \in Commands, NEW f, IsText(f), Issue(p, c),
           Prepares(p, u, f), u = t => f.id = last[t]
    PROVE  Settled(t)' /\ last'[t] = last[t]
<1>1. /\ copy'[p][u] = f /\ todo'[p] = {u} /\ at' = at /\ cmd[p] = "none"
      /\ \A q \in Procs \ {p} :
             todo'[q] = todo[q] /\ \A v \in Tasks : copy'[q][v] = copy[q][v]
  BY Prepared
<1>2. at[p] = {}
  BY <1>1 DEF WritesTidy
<1>3. UNCHANGED <<file, last, at>>
  BY DEF Prepares
<1>4. ASSUME NEW q \in Procs, t \in todo'[q] \cup at'[q]
      PROVE  copy'[q][t].id = last[t]
  <2>1. CASE q = p
    BY <1>1, <1>2, <1>4, <2>1
  <2>2. CASE q # p
    BY <1>1, <1>4, <2>2 DEF Settled
  <2>3. QED
    BY <2>1, <2>2
<1>5. QED
  BY <1>3, <1>4 DEF Settled

\* A write of it mints nothing,
LEMMA SettledTruncate ==
    ASSUME TypeOK, WritesTidy, NEW t \in Tasks, Settled(t), NEW p \in Procs,
           NEW u \in Tasks, Truncate(p, u)
    PROVE  Settled(t)' /\ last'[t] = last[t]
<1>1. at[p] = {}
  BY DEF Truncate, WritesTidy
<1>2. /\ last' = last /\ at' = [at EXCEPT ![p] = {u}] /\ u \in todo[p]
      /\ todo' = [todo EXCEPT ![p] = @ \ {u}]
      /\ file' = [file EXCEPT ![u] = Empty]
  BY DEF Truncate
<1>3. \A q \in Procs : t \in todo[q] \cup at[q] => copy'[q][t] = copy[q][t]
  <2>1. CASE UNCHANGED copy
    BY <2>1
  <2>2. ASSUME NEW id \in Ids, Mints(p, u), copy' = [copy EXCEPT ![p][u].id = id]
        PROVE  \A q \in Procs : t \in todo[q] \cup at[q] => copy'[q][t] = copy[q][t]
    <3>1. copy[p][u].id = NoId
      BY <2>2 DEF Mints
    <3>2. u # t
      BY <1>2, <3>1 DEF Settled
    <3>3. QED
      BY <2>2, <3>2 DEF TypeOK
  <2>3. QED
    BY <2>1, <2>2 DEF Truncate
<1>4. \A q \in Procs : t \in todo'[q] \cup at'[q] => copy'[q][t].id = last[t]
  BY <1>1, <1>2, <1>3 DEF TypeOK, Settled
<1>5. CASE u = t
  <2>1. at'[p] = {t} /\ ~file'[t].whole
    BY <1>2, <1>5, Emptied DEF TypeOK
  <2>2. QED
    BY <1>2, <1>4, <2>1 DEF Settled
<1>6. CASE u # t
  <2>1. file'[t] = file[t]
    BY <1>2, <1>6 DEF TypeOK
  <2>2. \A q \in Procs : at[q] = {t} => at'[q] = {t}
    BY <1>1, <1>2 DEF TypeOK
  <2>3. QED
    BY <1>2, <1>4, <2>1, <2>2 DEF Settled
<1>7. QED
  BY <1>5, <1>6

\* ... and gives it its text back, with the identifier,
LEMMA SettledFill ==
    ASSUME TypeOK, WritesTidy, NEW t \in Tasks, Settled(t), NEW p \in Procs,
           NEW u \in Tasks, Fill(p, u)
    PROVE  Settled(t)' /\ last'[t] = last[t]
<1>1. /\ at[p] = {u} /\ at' = [at EXCEPT ![p] = {}]
      /\ last' = [last EXCEPT ![u] = copy[p][u].id]
      /\ UNCHANGED <<todo, copy>>
  BY DEF Fill
<1>2. \A q \in Procs : t \in todo'[q] \cup at'[q] => t \in todo[q] \cup at[q]
  BY <1>1 DEF TypeOK
<1>3. last'[t] = last[t]
  BY <1>1 DEF TypeOK, Settled
<1>4. CASE u = t
  <2>1. copy[p][t].whole /\ copy[p][t].id = last[t] /\ IsText(copy[p][t])
    BY <1>1, <1>4 DEF WritesTidy, Settled, TypeOK
  <2>2. file'[t].whole /\ file'[t].id = last[t]
    <3>1. ASSUME NEW f, f.whole, f.id = last[t], file' = [file EXCEPT ![t] = f]
          PROVE  file'[t].whole /\ file'[t].id = last[t]
      BY <3>1 DEF TypeOK
    <3>2. ASSUME NEW w \in Words
          PROVE  LET f == [copy[p][t] EXCEPT !.body = Append(@, Line("item", <<w>>))]
                 IN  f.whole /\ f.id = last[t]
      BY <2>1 DEF IsText
    <3>3. QED
      BY <1>4, <2>1, <3>1, <3>2 DEF Fill
  <2>3. QED
    BY <1>1, <1>2, <1>3, <2>2 DEF Settled
<1>5. CASE u # t
  <2>1. file'[t] = file[t]
    BY <1>5 DEF Fill, TypeOK
  <2>2. \A q \in Procs : at[q] = {t} => at'[q] = {t}
    BY <1>1, <1>5 DEF TypeOK
  <2>3. QED
    BY <1>1, <1>2, <1>3, <2>1, <2>2 DEF Settled
<1>6. QED
  BY <1>4, <1>5

\* ... unless it fails after it has cut the file.
LEMMA SettledFails ==
    ASSUME TypeOK, WritesTidy, NEW t \in Tasks, Settled(t), NEW p \in Procs,
           NEW u \in Tasks, WriteFails(p, u)
    PROVE  Kept(t)
<1>1. /\ at' = [at EXCEPT ![p] = {}] /\ todo' = [todo EXCEPT ![p] = @ \ {u}]
      /\ UNCHANGED <<file, last, copy>>
  BY DEF WriteFails
<1>2. \A q \in Procs : t \in todo'[q] \cup at'[q] => t \in todo[q] \cup at[q]
  BY <1>1 DEF TypeOK
<1>3. CASE at[p] = {t} /\ ~file[t].whole
  BY <1>1, <1>3 DEF Kept, TypeOK
<1>4. CASE file[t].whole
  BY <1>1, <1>2, <1>4 DEF Kept, Settled
<1>5. CASE at[p] # {t}
  <2>1. \A q \in Procs : at[q] = {t} => at'[q] = {t}
    BY <1>1, <1>5 DEF TypeOK
  <2>2. QED
    BY <1>1, <1>2, <2>1 DEF Kept, Settled
<1>6. QED
  BY <1>3, <1>4, <1>5

LEMMA SettledCrash ==
    ASSUME TypeOK, WritesTidy, NEW t \in Tasks, Settled(t), NEW p \in Procs,
           Crash(p)
    PROVE  Kept(t)
<1>1. /\ at' = [at EXCEPT ![p] = {}] /\ todo' = [todo EXCEPT ![p] = {}]
      /\ copy' = [copy EXCEPT ![p] = [v \in Tasks |-> Empty]]
      /\ UNCHANGED <<file, last>>
  BY DEF Crash
<1>2. \A q \in Procs : t \in todo'[q] \cup at'[q] =>
          t \in todo[q] \cup at[q] /\ copy'[q][t] = copy[q][t]
  BY <1>1 DEF TypeOK
<1>3. CASE at[p] = {t} /\ ~file[t].whole
  BY <1>1, <1>3 DEF Kept, TypeOK
<1>4. CASE file[t].whole
  BY <1>1, <1>2, <1>4 DEF Kept, Settled
<1>5. CASE at[p] # {t}
  <2>1. \A q \in Procs : at[q] = {t} => at'[q] = {t}
    BY <1>1, <1>5 DEF TypeOK
  <2>2. QED
    BY <1>1, <1>2, <2>1 DEF Kept, Settled
<1>6. QED
  BY <1>3, <1>4, <1>5

\* Every step keeps what is settled, or is one of the two that may not.
LEMMA SettledStep ==
    ASSUME TypeOK, WritesTidy, [Next]_vars, NEW t \in Tasks, Settled(t)
    PROVE  Kept(t)
<1>1. CASE UNCHANGED vars
  BY <1>1 DEF vars, Kept, Settled
<1>2. ASSUME NEW p \in Procs, NEW u \in Tasks, ShowQuestions(p, u)
      PROVE  Kept(t)
  BY <1>2 DEF ShowQuestions, Kept, Settled
<1>3. ASSUME NEW p \in Procs, NEW u \in Tasks, AnswerQuestions(p, u)
      PROVE  Kept(t)
  <2>1. PICK answers : Prepares(p, u, [file[u] EXCEPT !.body = Answered(@, answers)])
    BY <1>3 DEF AnswerQuestions
  <2>2. LET f == [file[u] EXCEPT !.body = Answered(@, answers)]
        IN  IsText(f) /\ f.id = file[u].id /\ file[u].whole
    BY <1>3, Rebodied DEF TypeOK, IsText, AnswerQuestions
  <2>3. Issue(p, "answer") /\ "answer" \in Commands
    BY <1>3 DEF AnswerQuestions, Commands
  <2>4. u = t => file[u].id = last[t]
    BY <2>2 DEF Settled
  <2>5. QED
    BY <2>1, <2>2, <2>3, <2>4, SettledPrepared DEF Kept
<1>4. ASSUME NEW p \in Procs, NEW u \in Tasks, Update(p, u)
      PROVE  Kept(t)
  <2>1. /\ IsText(file[u]) /\ Issue(p, "update") /\ "update" \in Commands
        /\ Prepares(p, u, file[u]) /\ (u = t => file[u].id = last[t])
    BY <1>4 DEF Update, TypeOK, Commands, Settled
  <2>2. QED
    BY <2>1, SettledPrepared DEF Kept
<1>5. ASSUME NEW p \in Procs, NEW u \in Tasks, LintFix(p, u)
      PROVE  Kept(t)
  <2> DEFINE f == [file[u] EXCEPT !.whole = TRUE]
  <2>1. IsText(f) /\ f.id = file[u].id
    BY Made DEF TypeOK, IsText
  <2>2. Issue(p, "lint") /\ "lint" \in Commands /\ Prepares(p, u, f)
    BY <1>5 DEF LintFix, Commands
  <2>3. CASE u = t /\ ~file[t].whole
    <3>1. todo'[p] = {t} /\ cmd'[p] = "lint"
      BY <2>2, <2>3 DEF Issue, Prepares, TypeOK
    <3>2. QED
      BY <2>3, <3>1 DEF Kept
  <2>4. CASE u # t \/ file[t].whole
    <3>1. u = t => f.id = last[t]
      BY <2>1, <2>4 DEF Settled
    <3>2. QED
      BY <2>1, <2>2, <3>1, SettledPrepared DEF Kept
  <2>5. QED
    BY <2>3, <2>4
<1>6. ASSUME NEW p \in Procs, NEW u \in Tasks, ReadNext(p, u)
      PROVE  Kept(t)
  <2>1. /\ UNCHANGED <<file, last, at>> /\ at[p] = {}
    BY <1>6 DEF ReadNext, WritesTidy
  <2>2. \A q \in Procs : t \in todo'[q] => t \in todo[q]
    BY <1>6 DEF ReadNext, TypeOK, Settled
  <2>3. \A q \in Procs : t \in todo[q] \cup at[q] => copy'[q][t] = copy[q][t]
    BY <1>6, <2>1 DEF ReadNext, TypeOK, Settled
  <2>4. QED
    BY <2>1, <2>2, <2>3 DEF Kept, Settled
<1>7. ASSUME NEW p \in Procs, NEW u \in Tasks, Truncate(p, u)
      PROVE  Kept(t)
  BY <1>7, SettledTruncate DEF Kept
<1>8. ASSUME NEW p \in Procs, NEW u \in Tasks, Fill(p, u)
      PROVE  Kept(t)
  BY <1>8, SettledFill DEF Kept
<1>9. ASSUME NEW p \in Procs, NEW u \in Tasks, WriteFails(p, u)
      PROVE  Kept(t)
  BY <1>9, SettledFails
<1>10. ASSUME NEW p \in Procs, Backfill(p)
      PROVE  Kept(t)
  BY <1>10 DEF Backfill, Kept, Settled
<1>11. ASSUME NEW p \in Procs, EndsList(p)
      PROVE  Kept(t)
  BY <1>11 DEF EndsList, Kept, Settled
<1>12. ASSUME NEW p \in Procs, Ends(p)
      PROVE  Kept(t)
  <2>1. UNCHANGED <<file, last, at, todo>> /\ at[p] = {} /\ todo[p] = {}
    BY <1>12 DEF Ends, WritesTidy
  <2>2. \A q \in Procs \ {p} : copy'[q] = copy[q]
    BY <1>12 DEF Ends, TypeOK
  <2>3. QED
    BY <2>1, <2>2 DEF Kept, Settled
<1>13. ASSUME NEW p \in Procs, Crash(p)
      PROVE  Kept(t)
  BY <1>13, SettledCrash
<1>14. ASSUME NEW u \in Tasks, EditByHand(u)
      PROVE  Kept(t)
  <2>1. file'[t].whole = file[t].whole /\ file'[t].id = file[t].id
    BY <1>14 DEF EditByHand, TypeOK, IsText
  <2>2. UNCHANGED <<last, at, todo, copy>>
    BY <1>14 DEF EditByHand
  <2>3. QED
    BY <2>1, <2>2 DEF Kept, Settled
<1>15. QED
  BY <1>1, <1>2, <1>3, <1>4, <1>5, <1>6, <1>7, <1>8, <1>9, <1>10, <1>11,
     <1>12, <1>13, <1>14 DEF Next

\* Once every pending write and the file agree on an identifier, no order of
\* answers, updates, backfills and fixes replaces or loses it, but for a write
\* cut short and a fix that met an emptied file (task.go:46-64, lint.go:1188).
THEOREM IdentifierKept == Spec => IdentifierSettled
<1>1. Spec => []TypeOK
  BY TypeCorrect
<1>2. Spec => []WritesTidy
  BY TidyWrites
<1>3. TypeOK /\ WritesTidy /\ [Next]_vars =>
          [\A t \in Tasks : Settled(t) =>
              \/ Settled(t)' /\ last'[t] = last[t]
              \/ \E p \in Procs : at[p] = {t} /\ at'[p] = {} /\ ~file'[t].whole
              \/ \E p \in Procs : cmd'[p] = "lint" /\ t \in todo'[p] /\ ~file[t].whole
          ]_vars
  BY SettledStep DEF Kept
<1>4. QED
  BY <1>1, <1>2, <1>3, PTL DEF Spec, IdentifierSettled

----------------------------------------------------------------------------
\* An answer that may be written reads back, and so does its question, whatever
\* the question contains, also the delimiter or an older answer: the last
\* delimiter before the closing stars is the one that was written
\* (task_answer.go:127-149, base.go:361-392).
THEOREM AnswerReadsBack ==
    ASSUME NEW S, Arrow \in S, Stars \in S,
           NEW question \in Seq(S), NEW answer \in Seq(S), Carries(answer)
    PROVE  /\ IsAnswered(Formatted(question, answer))
           /\ Question(Formatted(question, answer)) = question
           /\ Answer(Formatted(question, answer)) = answer
<1> DEFINE text == Formatted(question, answer)
           q == Len(question)
           a == Len(answer)
           inner == question \o <<Arrow, Stars>> \o answer
<1>1. q \in Nat /\ a \in Nat
  OBVIOUS
<1>2. /\ inner \in Seq(S) /\ Len(inner) = q + 2 + a
      /\ \A i \in 1..q : inner[i] = question[i]
      /\ inner[q + 1] = Arrow /\ inner[q + 2] = Stars
      /\ \A i \in 1..a : inner[q + 2 + i] = answer[i]
  OBVIOUS
<1>3. /\ text \in Seq(S) /\ Len(text) = q + 3 + a
      /\ text[q + 3 + a] = Stars
      /\ \A i \in 1..(q + 2 + a) : text[i] = inner[i]
  <2>1. text = inner \o <<Stars>>
    BY DEF Formatted
  <2> HIDE DEF inner, text, q, a
  <2>2. <<Stars>> \in Seq(S) /\ Len(<<Stars>>) = 1 /\ <<Stars>>[1] = Stars
    OBVIOUS
  <2>3. text \in Seq(S) /\ Len(text) = q + 3 + a
    <3>1. inner \o <<Stars>> \in Seq(S) /\ Len(inner \o <<Stars>>) = Len(inner) + 1
      BY <1>2, <2>2, ConcatProperties
    <3>2. QED
      BY <2>1, <3>1, <1>1, <1>2
  <2>4. \A i \in 1..(q + 2 + a) : text[i] = inner[i]
    BY <2>1, <2>2, <1>1, <1>2
  <2>5. text[q + 3 + a] = Stars
    BY <2>1, <2>2, <1>1, <1>2
  <2>6. QED
    BY <2>3, <2>4, <2>5
<1> HIDE DEF inner, text, q, a
<1>4. /\ Trimmed(text) \in Seq(S) /\ Len(Trimmed(text)) = q + 2 + a
      /\ \A i \in 1..(q + 2 + a) : Trimmed(text)[i] = inner[i]
  BY <1>1, <1>2, <1>3 DEF Trimmed
<1>5. q + 1 \in Marks(Trimmed(text))
  BY <1>1, <1>2, <1>4 DEF Marks
<1>6. ASSUME NEW i \in Marks(Trimmed(text))
      PROVE  i <= q + 1
  <2>1. SUFFICES ASSUME i > q + 1
                 PROVE  FALSE
    BY <1>1, <1>4 DEF Marks
  <2>2. /\ i \in 1..(q + 1 + a) /\ inner[i + 1] = Stars
    BY <1>1, <1>4 DEF Marks
  <2>3. i - q - 1 \in 1..a /\ inner[i + 1] = answer[i - q - 1]
    BY <1>1, <1>2, <2>1, <2>2
  <2>4. QED
    BY <2>2, <2>3 DEF Carries, a
<1>7. LastMark(Trimmed(text)) = q + 1
  <2>1. \A i \in Marks(Trimmed(text)) :
            (\A j \in Marks(Trimmed(text)) : j <= i) => i = q + 1
    BY <1>1, <1>4, <1>5, <1>6 DEF Marks
  <2>2. QED
    BY <1>5, <1>6, <2>1 DEF LastMark
<1>8. IsAnswered(text)
  BY <1>1, <1>3, <1>5 DEF IsAnswered
<1>9. Question(text) = question
  <2>1. Question(text) = SubSeq(text, 1, q)
    BY <1>1, <1>7, <1>8 DEF Question
  <2>2. QED
    BY <2>1, <1>1, <1>2, <1>3 DEF q
<1>10. Answer(text) = answer
  <2>1. Answer(text) = SubSeq(text, q + 3, q + 2 + a)
    BY <1>1, <1>3, <1>7, <1>8 DEF Answer
  <2>2. Len(SubSeq(text, q + 3, q + 2 + a)) = a
    BY <1>1, <1>3
  <2>3. \A i \in 1..a : SubSeq(text, q + 3, q + 2 + a)[i] = answer[i]
    BY <1>1, <1>2, <1>3
  <2>4. SubSeq(text, q + 3, q + 2 + a) \in Seq(S)
    BY <1>1, <1>3
  <2>5. QED
    BY <2>1, <2>2, <2>3, <2>4, <1>1 DEF a
<1>11. QED
  BY <1>8, <1>9, <1>10 DEF text

----------------------------------------------------------------------------
(* Answers land.                                                           *)

HIDE VaultNames

\* A text that has a mark has a last one.
LEMMA LastMarkIs ==
    ASSUME NEW text \in Seq(Pieces), Marks(text) # {}
    PROVE  LastMark(text) \in Marks(text)
<1>1. Len(text) \in Nat /\ Marks(text) \subseteq 1..(Len(text) - 1)
  BY DEF Marks
<1>2. IsFiniteSet(1..(Len(text) - 1))
  BY <1>1, FS_Interval
<1>3. IsFiniteSet(Marks(text))
  BY <1>1, <1>2, FS_Subset
<1>4. Marks(text) \in SUBSET Nat
  BY <1>1
<1>5. \E i \in Marks(text) : \A j \in Marks(text) : j <= i
  BY <1>3, <1>4, Greatest
<1> QED
  BY <1>5 DEF LastMark

\* A question is a text.
LEMMA QuestionIs ==
    ASSUME NEW text \in Seq(Pieces)
    PROVE  Question(text) \in Seq(Pieces)
<1>1. CASE ~IsAnswered(text)
  BY <1>1 DEF Question
<1>2. CASE IsAnswered(text)
  <2> DEFINE inner == Trimmed(text)
             m == LastMark(inner)
  <2>1. Len(text) \in Nat /\ Len(text) # 0
    BY <1>2 DEF IsAnswered
  <2>2. inner \in Seq(Pieces) /\ Len(inner) = Len(text) - 1
    <3> DEFINE n == Len(text) - 1
    <3>1. 1 \in Int /\ n \in Int /\ \A i \in 1..n : text[i] \in Pieces
      <4>1. DOMAIN text = 1..Len(text) /\ n \in Nat /\ n <= Len(text)
        BY <2>1
      <4>2. ASSUME NEW i \in 1..n PROVE text[i] \in Pieces
        <5>1. i \in DOMAIN text
          BY <2>1, <4>1
        <5> QED
          BY <5>1
      <4> QED
        BY <4>1, <4>2
    <3>2. 1 <= n \/ n = 0
      <4>1. \A l \in Nat : l # 0 => 1 <= l - 1 \/ l - 1 = 0
        OBVIOUS
      <4> QED
        BY <2>1, <4>1, Zenon
    <3> HIDE DEF n
    <3>3. /\ SubSeq(text, 1, n) \in Seq(Pieces)
          /\ Len(SubSeq(text, 1, n)) = IF 1 <= n THEN n - 1 + 1 ELSE 0
      BY <3>1, SubSeqProperties
    <3>4. Len(SubSeq(text, 1, n)) = n
      BY <3>1, <3>2, <3>3
    <3> QED
      BY <3>3, <3>4 DEF Trimmed, n
  <2>3. m \in Marks(inner)
    BY <1>2, <2>2, LastMarkIs DEF IsAnswered
  <2>4. m \in Nat /\ 1 <= m /\ m <= Len(text)
    BY <2>1, <2>2, <2>3 DEF Marks
  <2>5. Question(text) = SubSeq(text, 1, m - 1)
    BY <1>2 DEF Question
  <2> HIDE DEF inner, m
  <2> QED
    BY <2>1, <2>4, <2>5
<1> QED
  BY <1>1, <1>2

\* The items are the question lines, each once.
LEMMA ItemsAre ==
    ASSUME NEW body \in Seq(Lines)
    PROVE  /\ Cardinality(QuestionLines(body)) \in Nat
           /\ Items(body) \in Seq(Nat)
           /\ DOMAIN Items(body) = 1..Cardinality(QuestionLines(body))
           /\ Len(Items(body)) = Cardinality(QuestionLines(body))
           /\ \A n \in DOMAIN Items(body) :
                  /\ Items(body)[n] \in QuestionLines(body)
                  /\ Items(body)[n] \in 1..Len(body)
           /\ \A m, n \in DOMAIN Items(body) :
                  Items(body)[m] = Items(body)[n] => m = n
<1> DEFINE places == [i \in DOMAIN body |-> i]
           K == QuestionLines(body)
<1>1. Len(body) \in Nat /\ DOMAIN body = 1..Len(body)
  OBVIOUS
<1>2. places \in Seq(Nat) /\ DOMAIN places = 1..Len(body)
  BY <1>1
<1>3. K \in SUBSET DOMAIN places
  BY <1>1 DEF QuestionLines
<1> HIDE DEF K
<1>4. /\ Items(body) = Selected(places, K)
      /\ \A i \in 1..Len(body) : places[i] = i
  BY <1>1 DEF Items, K
<1> HIDE DEF places
<1>5. /\ Cardinality(K) \in Nat
      /\ Items(body) \in Seq(Nat)
      /\ Len(Items(body)) = Cardinality(K)
      /\ DOMAIN Items(body) = 1..Cardinality(K)
      /\ \A i \in 1..Cardinality(K) :
             Nth(K, i) \in K /\ Items(body)[i] = places[Nth(K, i)]
      /\ \A i, j \in 1..Cardinality(K) : i < j => Nth(K, i) < Nth(K, j)
  BY <1>2, <1>3, <1>4, SelectedIs
<1>6. \A n \in 1..Cardinality(K) :
          /\ Items(body)[n] = Nth(K, n) /\ Nth(K, n) \in K
          /\ Nth(K, n) \in 1..Len(body) /\ n \in Nat
  BY <1>2, <1>3, <1>4, <1>5
<1>7. ASSUME NEW m \in 1..Cardinality(K), NEW n \in 1..Cardinality(K),
             Nth(K, m) = Nth(K, n)
      PROVE  m = n
  <2>1. Nth(K, m) \in Nat /\ Nth(K, n) \in Nat /\ m \in Nat /\ n \in Nat
    BY <1>1, <1>6
  <2>2. ~(m < n) /\ ~(n < m)
    BY <1>5, <1>7, <2>1
  <2> QED
    BY <2>1, <2>2
<1> QED
  BY <1>5, <1>6, <1>7 DEF K

\* Bodies whose lines are of the same kinds, with text in the same of them,
\* have their questions in the same places.
LEMMA SameItems ==
    ASSUME NEW body \in Seq(Lines), NEW new \in Seq(Lines),
           Len(new) = Len(body),
           \A i \in 1..Len(body) : /\ new[i].kind = body[i].kind
                                   /\ new[i].text = <<>> <=> body[i].text = <<>>
    PROVE  Items(new) = Items(body)
<1>1. DOMAIN new = 1..Len(body) /\ DOMAIN body = 1..Len(body) /\ Len(body) \in Nat
  OBVIOUS
<1>2. ASSUME NEW i \in 1..Len(body)
      PROVE  InSection(new, i) <=> InSection(body, i)
  <2>1. \A j \in 1..i : new[j].kind = body[j].kind
    BY <1>1
  <2>2. \A h \in 1..(i - 1) : h \in 1..i /\ \A j \in h..i : j \in 1..i
    BY <1>1
  <2> DEFINE Starts(b, h) ==
                 /\ b[h].kind = "questions"
                 /\ \A j \in 1..i : b[j].kind = "questions" => j = h
                 /\ \A j \in h..i : b[j].kind # "heading"
  <2>3. \A h \in 1..(i - 1) : Starts(new, h) <=> Starts(body, h)
    BY <2>1, <2>2, Zenon
  <2>4. /\ InSection(new, i) <=> \E h \in 1..(i - 1) : Starts(new, h)
        /\ InSection(body, i) <=> \E h \in 1..(i - 1) : Starts(body, h)
    BY DEF InSection
  <2> HIDE DEF Starts
  <2> QED
    BY <2>3, <2>4, Zenon
<1>3. QuestionLines(new) = QuestionLines(body)
  BY <1>1, <1>2, Zenon DEF QuestionLines, IsQuestion
<1> QED
  BY <1>1, <1>3, Zenon DEF Items

\* What the command makes of a line: nothing, or a question with its answer.
LEMMA AnsweredLines ==
    ASSUME NEW body \in Seq(Lines), NEW answers, Accepted(body, answers)
    PROVE  /\ DOMAIN Answered(body, answers) = 1..Len(body)
           /\ \A i \in 1..Len(body) :
                  (\A n \in DOMAIN answers : Items(body)[n] # i)
                      => Answered(body, answers)[i] = body[i]
           /\ \A n \in DOMAIN answers :
                  Answered(body, answers)[Items(body)[n]] =
                      [body[Items(body)[n]] EXCEPT !.text =
                           Formatted(Question(@), answers[n])]
<1> DEFINE position(i) == {n \in DOMAIN answers : Items(body)[n] = i}
           line(i) == IF position(i) = {} THEN body[i]
                      ELSE [body[i] EXCEPT !.text =
                        Formatted(Question(@), answers[CHOOSE n \in position(i) : TRUE])]
<1>1. DOMAIN body = 1..Len(body)
  OBVIOUS
<1>2. Answered(body, answers) = [i \in 1..Len(body) |-> line(i)]
  BY <1>1 DEF Answered
<1>3. ASSUME NEW i \in 1..Len(body), \A n \in DOMAIN answers : Items(body)[n] # i
      PROVE  line(i) = body[i]
  <2>1. position(i) = {}
    BY <1>3
  <2> HIDE DEF position
  <2> QED
    BY <2>1
<1>4. ASSUME NEW n \in DOMAIN answers
      PROVE  /\ Items(body)[n] \in 1..Len(body)
             /\ line(Items(body)[n]) =
                    [body[Items(body)[n]] EXCEPT !.text =
                         Formatted(Question(@), answers[n])]
  <2>1. DOMAIN answers \subseteq DOMAIN Items(body)
    BY DEF Accepted
  <2>2. position(Items(body)[n]) = {n}
    BY <2>1, ItemsAre
  <2>3. (CHOOSE m \in position(Items(body)[n]) : TRUE) = n
    BY <2>2
  <2>4. Items(body)[n] \in 1..Len(body)
    BY <2>1, ItemsAre
  <2> HIDE DEF position
  <2> QED
    BY <2>2, <2>3, <2>4
<1> HIDE DEF line
<1> QED
  BY <1>2, <1>3, <1>4

\* The command leaves every question as it is and gives the ones it names their
\* answers.
LEMMA AnsweredKeeps ==
    ASSUME NEW body \in Seq(Lines), NEW S, NEW answers \in [S -> Seq(Pieces)],
           Accepted(body, answers)
    PROVE  LET new == Answered(body, answers) IN
           /\ new \in Seq(Lines)
           /\ Questions(new) = Questions(body)
           /\ \A n \in DOMAIN answers :
                  Answer(new[Items(new)[n]].text) = answers[n]
<1> DEFINE new == Answered(body, answers)
           line(n) == Items(body)[n]
<1>1. /\ DOMAIN answers = S /\ S \subseteq DOMAIN Items(body)
      /\ \A n \in S : Carries(answers[n]) /\ answers[n] \in Seq(Pieces)
  BY DEF Accepted
<1>2. \A i \in 1..Len(body) : body[i] \in Lines
  OBVIOUS
<1>3. \A n \in DOMAIN Items(body) :
          line(n) \in QuestionLines(body) /\ line(n) \in 1..Len(body)
  BY ItemsAre
<1>4. /\ DOMAIN new = 1..Len(body)
      /\ \A i \in 1..Len(body) :
             (\A n \in S : line(n) # i) => new[i] = body[i]
      /\ \A n \in S : new[line(n)] =
             [body[line(n)] EXCEPT !.text = Formatted(Question(@), answers[n])]
  BY <1>1, AnsweredLines
<1> HIDE DEF new, line
<1>5. ASSUME NEW n \in S
      PROVE  /\ new[line(n)] \in Lines
             /\ new[line(n)].kind = body[line(n)].kind
             /\ new[line(n)].text # <<>> /\ body[line(n)].text # <<>>
             /\ Question(new[line(n)].text) = Question(body[line(n)].text)
             /\ Answer(new[line(n)].text) = answers[n]
  <2> DEFINE question == Question(body[line(n)].text)
             answer == answers[n]
  <2>1. body[line(n)] \in Lines /\ line(n) \in QuestionLines(body)
    BY <1>1, <1>2, <1>3
  <2>2. body[line(n)].text \in Seq(Pieces) /\ body[line(n)].text # <<>>
    BY <2>1 DEF Lines, QuestionLines, IsQuestion
  <2>3. question \in Seq(Pieces)
    BY <2>2, QuestionIs
  <2>4. answer \in Seq(Pieces) /\ Carries(answer)
    BY <1>1
  <2>5. Arrow \in Pieces /\ Stars \in Pieces
    BY DEF Pieces
  <2>6. new[line(n)] = [body[line(n)] EXCEPT !.text = Formatted(question, answer)]
    BY <1>4
  <2> HIDE DEF question, answer
  <2>7. /\ IsAnswered(Formatted(question, answer))
        /\ Question(Formatted(question, answer)) = question
        /\ Answer(Formatted(question, answer)) = answer
    BY <2>3, <2>4, <2>5, AnswerReadsBack
  <2>8. Formatted(question, answer) \in Seq(Pieces)
    BY <2>3, <2>4, <2>5 DEF Formatted
  <2>9. Formatted(question, answer) # <<>>
    BY <2>7 DEF IsAnswered
  <2>10. /\ new[line(n)] \in Lines
         /\ new[line(n)].kind = body[line(n)].kind
         /\ new[line(n)].text = Formatted(question, answer)
    BY <2>1, <2>6, <2>8 DEF Lines
  <2> QED
    BY <2>2, <2>7, <2>9, <2>10 DEF question, answer
<1>6. ASSUME NEW i \in 1..Len(body)
      PROVE  /\ new[i] \in Lines /\ new[i].kind = body[i].kind
             /\ new[i].text = <<>> <=> body[i].text = <<>>
             /\ Question(new[i].text) = Question(body[i].text)
  <2>1. CASE \A n \in S : line(n) # i
    BY <1>2, <1>4, <2>1
  <2>2. CASE \E n \in S : line(n) = i
    BY <1>5, <2>2
  <2> QED
    BY <2>1, <2>2
<1>7. new \in Seq(Lines) /\ Len(new) = Len(body)
  <2>1. Len(body) \in Nat
    OBVIOUS
  <2>2. new = [i \in 1..Len(body) |-> new[i]]
    BY <1>4 DEF new, Answered
  <2> QED
    BY <1>6, <2>1, <2>2
<1>8. Items(new) = Items(body)
  BY <1>6, <1>7, SameItems
<1>9. Questions(new) = Questions(body)
  BY <1>3, <1>6, <1>8 DEF Questions, line
<1>10. \A n \in S : Answer(new[Items(new)[n]].text) = answers[n]
  BY <1>5, <1>8 DEF line
<1> QED
  BY <1>1, <1>7, <1>9, <1>10 DEF new

\* A body of a task that nobody changed by hand has the questions the task
\* started with, or none when it was read from a file that had been cut.
Faithful(t, body) ==
    /\ body \in Seq(Lines)
    /\ Questions(body) \in {<<>>, Questions(Bodies[t])}

\* Whatever is in the directory, is about to be written, or was shown, has the
\* questions of its task.
QuestionsStay ==
    \A t \in Tasks \ handled :
        /\ Faithful(t, file[t].body)
        /\ \A p \in Procs :
               /\ Faithful(t, copy[p][t].body)
               /\ shown[p].task = t => shown[p].list = Questions(Bodies[t])

\* The inductive invariant behind AnswersLand.
LandInv ==
    /\ DOMAIN shown = Procs /\ DOMAIN batch = Procs
    /\ QuestionsStay
    /\ AnswersLand

LEMMA NoQuestions == <<>> \in Seq(Lines) /\ Questions(<<>>) = <<>>
<1>1. <<>> \in Seq(Lines) /\ QuestionLines(<<>>) = {}
  BY DEF QuestionLines
<1>2. DOMAIN Items(<<>>) = 1..0
  BY <1>1, ItemsAre, FS_EmptySet
<1> QED
  BY <1>1, <1>2 DEF Questions

\* A file that was cut is faithful, and a body stays so when it is answered.
LEMMA FaithfulEmpty ==
    ASSUME NEW t \in Tasks
    PROVE  Faithful(t, Empty.body)
  BY NoQuestions DEF Faithful, Empty

LEMMA FaithfulAnswered ==
    ASSUME NEW t \in Tasks, NEW body, Faithful(t, body),
           NEW S, NEW answers \in [S -> Answers], Accepted(body, answers)
    PROVE  /\ Faithful(t, Answered(body, answers))
           /\ Questions(Answered(body, answers)) = Questions(body)
           /\ \A n \in DOMAIN answers :
                  Answer(Answered(body, answers)
                             [Items(Answered(body, answers))[n]].text) = answers[n]
<1>1. answers \in [S -> Seq(Pieces)]
  BY VaultTexts
<1>2. body \in Seq(Lines)
  BY DEF Faithful
<1> QED
  BY <1>1, <1>2, AnsweredKeeps DEF Faithful

\* Steps that prepare one write keep the questions if that write does.
LEMMA StayPrepared ==
    ASSUME TypeOK, LandInv, NEW p \in Procs, NEW t \in Tasks,
           NEW c \in Commands, NEW f, IsText(f), Issue(p, c),
           Prepares(p, t, f), UNCHANGED shown,
           t \notin handled => Faithful(t, f.body)
    PROVE  QuestionsStay'
<1>1. /\ copy'[p][t] = f
      /\ \A u \in Tasks \ {t} : copy'[p][u] = copy[p][u]
      /\ \A q \in Procs \ {p} : \A u \in Tasks : copy'[q][u] = copy[q][u]
  BY Prepared
<1>2. UNCHANGED <<file, handled>>
  BY DEF Prepares
<1>3. ASSUME NEW u \in Tasks \ handled, NEW q \in Procs
      PROVE  Faithful(u, copy'[q][u].body)
  BY <1>1 DEF LandInv, QuestionsStay
<1> QED
  BY <1>2, <1>3 DEF LandInv, QuestionsStay

\* A command that is no answer promises nothing of its writes.
LEMMA LandPrepared ==
    ASSUME TypeOK, LandInv, NEW p \in Procs, NEW t \in Tasks,
           NEW c \in Commands, c # "answer", NEW f, IsText(f), Issue(p, c),
           Prepares(p, t, f), UNCHANGED <<shown, batch>>,
           t \notin handled => Faithful(t, f.body)
    PROVE  LandInv'
<1>1. QuestionsStay'
  BY StayPrepared
<1>2. /\ cmd'[p] = c /\ at' = at
      /\ \A q \in Procs \ {p} : /\ todo'[q] = todo[q] /\ cmd'[q] = cmd[q]
                                /\ \A u \in Tasks : copy'[q][u] = copy[q][u]
  BY Prepared
<1>3. handled' = handled
  BY DEF Prepares
<1>4. AnswersLand'
  <2> SUFFICES ASSUME NEW q \in Procs, NEW u \in (todo'[q] \cup at'[q]) \ handled',
                      cmd'[q] = "answer"
               PROVE  LET body == copy'[q][u].body IN
                      /\ Questions(body) = shown'[q].list
                      /\ \A n \in DOMAIN batch'[q] :
                             Answer(body[Items(body)[n]].text) = batch'[q][n]
    BY DEF AnswersLand
  <2>1. q # p
    BY <1>2
  <2>2. /\ u \in (todo[q] \cup at[q]) \ handled /\ u \in Tasks
        /\ copy'[q][u] = copy[q][u] /\ cmd[q] = "answer"
    BY <1>2, <1>3, <2>1 DEF TypeOK
  <2> QED
    BY <2>2 DEF LandInv, AnswersLand
<1> QED
  BY <1>1, <1>4 DEF LandInv

\* An answer promises of its write what AnsweredKeeps gives.
LEMMA LandAnswered ==
    ASSUME TypeOK, WritesTidy, LandInv, NEW p \in Procs, NEW t \in Tasks,
           AnswerQuestions(p, t)
    PROVE  LandInv'
<1>0. PICK S \in SUBSET DOMAIN shown[p].list : \E answers \in [S -> Answers] :
          /\ S # {}
          /\ Accepted(file[t].body, answers)
          /\ batch' = [batch EXCEPT ![p] = answers]
          /\ Prepares(p, t, [file[t] EXCEPT !.body = Answered(@, answers)])
  BY DEF AnswerQuestions
<1>1. PICK answers \in [S -> Answers] :
          /\ S # {}
          /\ Accepted(file[t].body, answers)
          /\ batch' = [batch EXCEPT ![p] = answers]
          /\ Prepares(p, t, [file[t] EXCEPT !.body = Answered(@, answers)])
  BY <1>0
<1> DEFINE body == file[t].body
           new == Answered(body, answers)
           f == [file[t] EXCEPT !.body = new]
<1>2. /\ Issue(p, "answer") /\ "answer" \in Commands /\ UNCHANGED shown
      /\ shown[p].task = t
  BY DEF AnswerQuestions, Commands
<1>3. IsText(f) /\ f.body = new
  BY DEF TypeOK, IsText
<1>4. Prepares(p, t, f)
  BY <1>1
<1>5. ASSUME t \notin handled
      PROVE  /\ Faithful(t, new)
             /\ Questions(new) = shown[p].list
             /\ \A n \in DOMAIN answers :
                    Answer(new[Items(new)[n]].text) = answers[n]
  <2>1. Faithful(t, body) /\ shown[p].list = Questions(Bodies[t])
    BY <1>2, <1>5 DEF LandInv, QuestionsStay
  <2>2. /\ Faithful(t, new) /\ Questions(new) = Questions(body)
        /\ \A n \in DOMAIN answers :
               Answer(new[Items(new)[n]].text) = answers[n]
    BY <1>1, <2>1, FaithfulAnswered
  <2>3. Questions(body) # <<>>
    <3>1. PICK n : n \in DOMAIN answers
      BY <1>1
    <3>2. n \in DOMAIN Items(body)
      BY <1>1, <3>1 DEF Accepted
    <3>3. n \in DOMAIN Questions(body)
      BY <3>2 DEF Questions
    <3> QED
      BY <3>3
  <2> QED
    BY <2>1, <2>2, <2>3 DEF Faithful
<1> HIDE DEF f, new
<1>6. QuestionsStay'
  BY <1>2, <1>3, <1>4, <1>5, StayPrepared
<1>7. /\ copy'[p][t] = f /\ cmd[p] = "none" /\ todo'[p] = {t} /\ at' = at
      /\ \A q \in Procs \ {p} : /\ todo'[q] = todo[q] /\ cmd'[q] = cmd[q]
                                /\ \A u \in Tasks : copy'[q][u] = copy[q][u]
  BY <1>2, <1>3, <1>4, Prepared
<1>8. handled' = handled
  BY <1>4 DEF Prepares
<1>9. at[p] = {}
  BY <1>7 DEF WritesTidy
<1>10. /\ DOMAIN batch' = Procs /\ batch'[p] = answers
      /\ \A q \in Procs \ {p} : batch'[q] = batch[q]
  BY <1>1 DEF LandInv
<1>11. AnswersLand'
  <2> SUFFICES ASSUME NEW q \in Procs, NEW u \in (todo'[q] \cup at'[q]) \ handled',
                      cmd'[q] = "answer"
               PROVE  LET text == copy'[q][u].body IN
                      /\ Questions(text) = shown'[q].list
                      /\ \A n \in DOMAIN batch'[q] :
                             Answer(text[Items(text)[n]].text) = batch'[q][n]
    BY DEF AnswersLand
  <2>1. CASE q = p
    <3>1. u = t /\ t \notin handled
      BY <1>7, <1>9, <1>8, <2>1
    <3> QED
      BY <1>2, <1>3, <1>5, <1>7, <1>10, <2>1, <3>1
  <2>2. CASE q # p
    <3>1. /\ u \in (todo[q] \cup at[q]) \ handled /\ u \in Tasks
          /\ copy'[q][u] = copy[q][u] /\ cmd[q] = "answer"
          /\ batch'[q] = batch[q]
      BY <1>7, <1>10, <1>8, <2>2 DEF TypeOK
    <3> QED
      BY <1>2, <3>1 DEF LandInv, AnswersLand
  <2> QED
    BY <2>1, <2>2
<1> QED
  BY <1>2, <1>6, <1>10, <1>11 DEF LandInv

\* Every other step leaves the writes of an answer alone, or completes one.
LEMMA LandKept ==
    ASSUME TypeOK, LandInv, UNCHANGED shown, DOMAIN batch' = Procs,
           handled \subseteq handled',
           \A t \in Tasks \ handled' : Faithful(t, file'[t].body),
           \A t \in Tasks \ handled', p \in Procs : Faithful(t, copy'[p][t].body),
           \A p \in Procs : cmd'[p] = "answer" =>
               /\ cmd[p] = "answer" /\ batch'[p] = batch[p]
               /\ \A t \in todo'[p] \cup at'[p] :
                      t \in todo[p] \cup at[p] /\ copy'[p][t].body = copy[p][t].body
    PROVE  LandInv'
<1>1. QuestionsStay'
  BY DEF LandInv, QuestionsStay
<1>2. AnswersLand'
  <2> SUFFICES ASSUME NEW p \in Procs, NEW t \in (todo'[p] \cup at'[p]) \ handled',
                      cmd'[p] = "answer"
               PROVE  LET body == copy'[p][t].body IN
                      /\ Questions(body) = shown'[p].list
                      /\ \A n \in DOMAIN batch'[p] :
                             Answer(body[Items(body)[n]].text) = batch'[p][n]
    BY DEF AnswersLand
  <2>1. /\ t \in (todo[p] \cup at[p]) \ handled /\ cmd[p] = "answer"
        /\ copy'[p][t].body = copy[p][t].body /\ batch'[p] = batch[p]
    OBVIOUS
  <2> QED
    BY <2>1 DEF LandInv, AnswersLand
<1> QED
  BY <1>1, <1>2 DEF LandInv

\* What is shown is what the file has, and that is something.
LEMMA LandShown ==
    ASSUME TypeOK, WritesTidy, LandInv, NEW p \in Procs, NEW t \in Tasks,
           ShowQuestions(p, t)
    PROVE  LandInv'
<1>1. /\ UNCHANGED <<file, cmd, todo, at, copy, batch, handled>>
      /\ shown' = [shown EXCEPT ![p] =
                      [task |-> t, list |-> Questions(file[t].body)]]
      /\ Items(file[t].body) # <<>> /\ cmd[p] = "none"
  BY DEF ShowQuestions, Idle
<1>2. /\ DOMAIN shown' = Procs /\ shown'[p].task = t
      /\ shown'[p].list = Questions(file[t].body)
      /\ \A q \in Procs \ {p} : shown'[q] = shown[q]
  BY <1>1 DEF LandInv
<1>3. ASSUME t \notin handled
      PROVE  Questions(file[t].body) = Questions(Bodies[t])
  <2>1. Faithful(t, file[t].body)
    BY <1>3 DEF LandInv, QuestionsStay
  <2>2. DOMAIN Items(file[t].body) # {}
    <3> DEFINE items == Items(file[t].body)
    <3>1. items \in Seq(Nat)
      BY <2>1, ItemsAre DEF Faithful
    <3>2. items # <<>>
      BY <1>1
    <3> HIDE DEF items
    <3>3. Len(items) \in Nat /\ Len(items) # 0 /\ DOMAIN items = 1..Len(items)
      BY <3>1, <3>2
    <3>4. 1 \in DOMAIN items
      BY <3>3
    <3> QED
      BY <3>4 DEF items
  <2>3. Questions(file[t].body) # <<>>
    BY <2>2 DEF Questions
  <2> QED
    BY <2>1, <2>3 DEF Faithful
<1>4. ASSUME NEW u \in Tasks \ handled, NEW q \in Procs, shown'[q].task = u
      PROVE  shown'[q].list = Questions(Bodies[u])
  BY <1>2, <1>3, <1>4 DEF LandInv, QuestionsStay
<1>5. QuestionsStay'
  BY <1>1, <1>4 DEF LandInv, QuestionsStay
<1>6. AnswersLand'
  <2>1. \A q \in Procs : cmd'[q] = "answer" => q # p
    BY <1>1
  <2> QED
    BY <1>1, <1>2, <2>1 DEF LandInv, AnswersLand
<1> QED
  BY <1>1, <1>2, <1>5, <1>6 DEF LandInv

\* One half of a write after the other: the first cuts the file, the second
\* gives it the text that was prepared, or mixes two.
LEMMA LandTruncate ==
    ASSUME TypeOK, LandInv, NEW p \in Procs, NEW t \in Tasks, Truncate(p, t)
    PROVE  LandInv'
<1>1. /\ UNCHANGED <<cmd, shown, batch, handled>> /\ t \in todo[p]
      /\ file' = [file EXCEPT ![t] = Empty]
      /\ todo' = [todo EXCEPT ![p] = @ \ {t}]
      /\ at' = [at EXCEPT ![p] = {t}]
  BY DEF Truncate
<1>2. \A q \in Procs, u \in Tasks : copy'[q][u].body = copy[q][u].body
  <2>1. CASE UNCHANGED copy
    BY <2>1
  <2>2. ASSUME NEW id \in Ids, copy' = [copy EXCEPT ![p][t].id = id]
        PROVE  \A q \in Procs, u \in Tasks : copy'[q][u].body = copy[q][u].body
    BY <2>2 DEF TypeOK, IsText
  <2> QED
    BY <2>1, <2>2 DEF Truncate
<1>3. \A u \in Tasks \ handled' : Faithful(u, file'[u].body)
  BY <1>1, FaithfulEmpty DEF LandInv, QuestionsStay, TypeOK
<1>4. \A u \in Tasks \ handled', q \in Procs : Faithful(u, copy'[q][u].body)
  BY <1>1, <1>2 DEF LandInv, QuestionsStay
<1>5. \A q \in Procs : \A u \in todo'[q] \cup at'[q] :
          u \in todo[q] \cup at[q] /\ u \in Tasks
  BY <1>1 DEF TypeOK
<1>6. DOMAIN batch' = Procs
  BY <1>1 DEF LandInv
<1> QED
  BY <1>1, <1>2, <1>3, <1>4, <1>5, <1>6, LandKept

LEMMA LandFill ==
    ASSUME TypeOK, LandInv, NEW p \in Procs, NEW t \in Tasks, Fill(p, t)
    PROVE  LandInv'
<1>1. /\ UNCHANGED <<cmd, shown, batch, todo, copy>>
      /\ at' = [at EXCEPT ![p] = {}]
      /\ \/ handled' = handled /\ file' = [file EXCEPT ![t] = copy[p][t]]
         \/ /\ handled' = handled \cup {t}
            /\ \A u \in Tasks \ {t} : file'[u] = file[u]
  BY DEF Fill, TypeOK
<1>2. \A u \in Tasks \ handled' : Faithful(u, file'[u].body)
  BY <1>1 DEF LandInv, QuestionsStay, TypeOK
<1>3. \A u \in Tasks \ handled', q \in Procs : Faithful(u, copy'[q][u].body)
  BY <1>1 DEF LandInv, QuestionsStay
<1>4. \A q \in Procs : \A u \in todo'[q] \cup at'[q] :
          u \in todo[q] \cup at[q] /\ copy'[q][u].body = copy[q][u].body
  BY <1>1 DEF TypeOK
<1>5. DOMAIN batch' = Procs /\ handled \subseteq handled'
  BY <1>1 DEF LandInv
<1> QED
  BY <1>1, <1>2, <1>3, <1>4, <1>5, LandKept

\* The induction step.
LEMMA LandStep ==
    ASSUME TypeOK, WritesTidy, LandInv, [Next]_vars
    PROVE  LandInv'
<1>1. CASE UNCHANGED vars
  BY <1>1 DEF vars, LandInv, QuestionsStay, AnswersLand
<1>2. ASSUME NEW p \in Procs, NEW t \in Tasks, ShowQuestions(p, t)
      PROVE  LandInv'
  BY <1>2, LandShown
<1>3. ASSUME NEW p \in Procs, NEW t \in Tasks, AnswerQuestions(p, t)
      PROVE  LandInv'
  BY <1>3, LandAnswered
<1>4. ASSUME NEW p \in Procs, NEW t \in Tasks, Update(p, t)
      PROVE  LandInv'
  <2>1. IsText(file[t]) /\ "update" \in Commands
    BY DEF TypeOK, Commands
  <2>2. t \notin handled => Faithful(t, file[t].body)
    BY DEF LandInv, QuestionsStay
  <2>3. /\ Issue(p, "update") /\ Prepares(p, t, file[t])
        /\ UNCHANGED <<shown, batch>>
    BY <1>4 DEF Update
  <2> QED
    BY <2>1, <2>2, <2>3, LandPrepared
<1>5. ASSUME NEW p \in Procs, NEW t \in Tasks, LintFix(p, t)
      PROVE  LandInv'
  <2> DEFINE f == [file[t] EXCEPT !.whole = TRUE]
  <2>1. IsText(f) /\ f.body = file[t].body /\ "lint" \in Commands
    BY Made DEF TypeOK, IsText, Commands
  <2>2. t \notin handled => Faithful(t, f.body)
    BY <2>1 DEF LandInv, QuestionsStay
  <2>3. /\ Issue(p, "lint") /\ Prepares(p, t, f)
        /\ UNCHANGED <<shown, batch>>
    BY <1>5 DEF LintFix
  <2> HIDE DEF f
  <2> QED
    BY <2>1, <2>2, <2>3, LandPrepared
<1>6. ASSUME NEW p \in Procs, NEW t \in Tasks, ReadNext(p, t)
      PROVE  LandInv'
  <2>1. /\ UNCHANGED <<file, cmd, at, shown, batch, handled>>
        /\ cmd[p] = "backfill"
        /\ \/ UNCHANGED <<todo, copy>>
           \/ /\ todo' = [todo EXCEPT ![p] = @ \cup {t}]
              /\ copy' = [copy EXCEPT ![p][t] = file[t]]
    BY <1>6 DEF ReadNext
  <2>2. \A u \in Tasks \ handled', q \in Procs : Faithful(u, copy'[q][u].body)
    BY <2>1 DEF LandInv, QuestionsStay, TypeOK
  <2>3. \A q \in Procs : cmd'[q] = "answer" =>
            todo'[q] = todo[q] /\ copy'[q] = copy[q]
    BY <2>1 DEF TypeOK
  <2>4. /\ DOMAIN batch' = Procs
        /\ \A u \in Tasks \ handled' : Faithful(u, file'[u].body)
    BY <2>1 DEF LandInv, QuestionsStay
  <2> QED
    BY <2>1, <2>2, <2>3, <2>4, LandKept
<1>7. ASSUME NEW p \in Procs, NEW t \in Tasks, Truncate(p, t)
      PROVE  LandInv'
  BY <1>7, LandTruncate
<1>8. ASSUME NEW p \in Procs, NEW t \in Tasks, Fill(p, t)
      PROVE  LandInv'
  BY <1>8, LandFill
<1>9. ASSUME UNCHANGED <<file, copy, shown, batch, handled>>,
             \A q \in Procs : cmd'[q] = "answer" => cmd[q] = "answer",
             \A q \in Procs : todo'[q] \cup at'[q] \subseteq todo[q] \cup at[q]
      PROVE  LandInv'
  <2>1. /\ DOMAIN batch' = Procs
        /\ \A u \in Tasks \ handled' : Faithful(u, file'[u].body)
        /\ \A u \in Tasks \ handled', q \in Procs : Faithful(u, copy'[q][u].body)
    BY <1>9 DEF LandInv, QuestionsStay
  <2> QED
    BY <1>9, <2>1, LandKept
<1>10. ASSUME NEW p \in Procs, NEW t \in Tasks, WriteFails(p, t)
       PROVE  LandInv'
  <2>1. /\ UNCHANGED <<file, copy, shown, batch, handled, cmd>>
        /\ \A q \in Procs : todo'[q] \cup at'[q] \subseteq todo[q] \cup at[q]
    BY <1>10 DEF WriteFails, TypeOK
  <2> QED
    BY <1>9, <2>1
<1>11. ASSUME NEW p \in Procs, Backfill(p)
       PROVE  LandInv'
  <2>1. /\ UNCHANGED <<file, copy, shown, batch, handled, todo, at>>
        /\ cmd' = [cmd EXCEPT ![p] = "backfill"]
    BY <1>11 DEF Backfill, Issue
  <2>2. \A q \in Procs : cmd'[q] = "answer" => cmd[q] = "answer"
    BY <2>1 DEF TypeOK
  <2> QED
    BY <1>9, <2>1, <2>2
<1>12. ASSUME NEW p \in Procs, EndsList(p)
       PROVE  LandInv'
  <2>1. UNCHANGED <<file, copy, shown, batch, handled, todo, at, cmd>>
    BY <1>12 DEF EndsList
  <2> QED
    BY <1>9, <2>1
<1>13. ASSUME NEW p \in Procs, Ends(p) \/ Crash(p)
       PROVE  LandInv'
  <2>1. /\ UNCHANGED <<file, shown, handled>>
        /\ cmd' = [cmd EXCEPT ![p] = "none"]
        /\ copy' = [copy EXCEPT ![p] = [t \in Tasks |-> Empty]]
        /\ batch' = [batch EXCEPT ![p] = <<>>]
        /\ \A q \in Procs : todo'[q] \cup at'[q] \subseteq todo[q] \cup at[q]
    BY <1>13 DEF Ends, Crash, TypeOK
  <2>2. \A u \in Tasks \ handled', q \in Procs : Faithful(u, copy'[q][u].body)
    BY <2>1, FaithfulEmpty DEF LandInv, QuestionsStay, TypeOK
  <2>3. \A q \in Procs : cmd'[q] = "answer" =>
            cmd[q] = "answer" /\ copy'[q] = copy[q] /\ batch'[q] = batch[q]
    BY <2>1 DEF TypeOK, LandInv
  <2>4. /\ DOMAIN batch' = Procs
        /\ \A u \in Tasks \ handled' : Faithful(u, file'[u].body)
    BY <2>1 DEF LandInv, QuestionsStay
  <2> QED
    BY <2>1, <2>2, <2>3, <2>4, LandKept
<1>14. ASSUME NEW t \in Tasks, EditByHand(t)
       PROVE  LandInv'
  <2>1. /\ UNCHANGED <<cmd, todo, at, copy, shown, batch>>
        /\ handled' = handled \cup {t}
        /\ \A u \in Tasks \ {t} : file'[u] = file[u]
    BY <1>14 DEF EditByHand, TypeOK
  <2>2. \A u \in Tasks \ handled', q \in Procs : Faithful(u, copy'[q][u].body)
    BY <2>1 DEF LandInv, QuestionsStay
  <2>3. /\ DOMAIN batch' = Procs
        /\ \A u \in Tasks \ handled' : Faithful(u, file'[u].body)
    BY <2>1 DEF LandInv, QuestionsStay
  <2> QED
    BY <2>1, <2>2, <2>3, LandKept
<1> QED
  BY <1>1, <1>2, <1>3, <1>4, <1>5, <1>6, <1>7, <1>8, <1>10, <1>11, <1>12,
     <1>13, <1>14 DEF Next

LEMMA LandStart ==
    ASSUME Init
    PROVE  LandInv
<1>1. \A t \in Tasks : file[t].body = Bodies[t]
  BY DEF Init, Task
<1>2. \A t \in Tasks : Faithful(t, Bodies[t])
  BY VaultTexts DEF Faithful
<1>3. \A p \in Procs, t \in Tasks : copy[p][t] = Empty /\ shown[p].task # t
  BY VaultNames DEF Init, NothingShown
<1>4. QuestionsStay
  BY <1>1, <1>2, <1>3, FaithfulEmpty DEF QuestionsStay
<1>5. AnswersLand
  BY DEF Init, AnswersLand
<1> QED
  BY <1>4, <1>5 DEF LandInv, Init

\* An answer lands on the question that was shown, and reads back as given, as
\* long as nobody changed the lines of the task by hand (task_answer.go:52-100,
\* base.go:377-447).
THEOREM AnswersWhereShown == Spec => []AnswersLand
<1>1. Spec => []TypeOK
  BY TypeCorrect
<1>2. Spec => []WritesTidy
  BY TidyWrites
<1>3. LandInv => AnswersLand
  BY DEF LandInv
<1> QED
  BY <1>1, <1>2, <1>3, LandStart, LandStep, PTL DEF Spec
=============================================================================
