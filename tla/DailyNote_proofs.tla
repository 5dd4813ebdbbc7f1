-------------------------- MODULE DailyNote_proofs --------------------------
(***************************************************************************)
(* What the edits of DailyNote do to any note, and what follows for the    *)
(* notes when commands of any number of processes edit them at once, fail  *)
(* and are killed.                                                         *)
(***************************************************************************)
EXTENDS DailyNote, SelectionFacts

USE DailyAssumption

----------------------------------------------------------------------------
(* Lines and notes.                                                        *)

LEMMA EntryIsOwn ==
    ASSUME NEW t \in Tasks, NEW b \in {" ", "/", "x"}
    PROVE  /\ Entry(t, b) \in Line /\ Own(Entry(t, b), t)
           /\ Entry(t, b).shape = "plain" /\ Entry(t, b).box = b
           /\ Entry(t, b).of = t
  BY DEF Entry, Line, Own, OwnShapes

LEMMA HeadingIsLine ==
    ASSUME NEW s \in Sections
    PROVE  /\ Heading(s) \in Line /\ Heading(s).shape = "heading"
           /\ \A t : ~Own(Heading(s), t)
           /\ \A t, b : Heading(s) # Entry(t, b)
  BY DEF Heading, Entry, Line, Own, OwnShapes, Sections

\* An own entry stays one when its box is ticked.
LEMMA BoxSet ==
    ASSUME NEW l \in Line, NEW t \in Tasks, Own(l, t),
           NEW b \in {" ", "/", "x"}
    PROVE  /\ [l EXCEPT !.box = b] \in Line /\ Own([l EXCEPT !.box = b], t)
           /\ [l EXCEPT !.box = b].box = b
           /\ [l EXCEPT !.box = b].shape = l.shape
           /\ l.box = b => [l EXCEPT !.box = b] = l
  BY DEF Line, Own, OwnShapes

LEMMA OwnedAre ==
    ASSUME NEW n \in Seq(Line), NEW t
    PROVE  /\ Owned(n, t) \in SUBSET DOMAIN n
           /\ \A i \in DOMAIN n : i \in Owned(n, t) <=> Own(n[i], t)
           /\ DOMAIN n = 1..Len(n) /\ Len(n) \in Nat
           /\ \A i \in DOMAIN n : n[i] \in Line
  BY DEF Owned

\* A set of places in a note has a first one.
LEMMA FirstPlace ==
    ASSUME NEW n \in Seq(Line), NEW K \in SUBSET DOMAIN n, K # {}
    PROVE  /\ (CHOOSE i \in K : \A j \in K : i <= j) \in K
           /\ \A j \in K : (CHOOSE i \in K : \A k \in K : i <= k) <= j
<1>1. IsFiniteSet(DOMAIN n) /\ DOMAIN n \in SUBSET Nat
  <2>1. DOMAIN n = 1..Len(n) /\ Len(n) \in Nat
    OBVIOUS
  <2> QED
    BY <2>1, FS_Interval
<1>2. IsFiniteSet(K) /\ K \in SUBSET Nat
  BY <1>1, FS_Subset
<1>3. \E i \in K : \A j \in K : i <= j
  BY <1>2, Least
<1> QED
  BY <1>3

\* Where a new line goes is a place in the note, or the one after it.
LEMMA SectionIndexIs ==
    ASSUME NEW n \in Seq(Line), NEW s
    PROVE  SectionIndex(n, s) \in 0..Len(n)
<1> DEFINE at == {i \in DOMAIN n : n[i] = Heading(s)}
           first == CHOOSE i \in at : \A j \in at : i <= j
<1>1. at \in SUBSET DOMAIN n /\ DOMAIN n = 1..Len(n) /\ Len(n) \in Nat
  OBVIOUS
<1>2. at # {} => first \in at
  BY <1>1, FirstPlace
<1>3. SectionIndex(n, s) = IF at = {} THEN 0 ELSE first
  BY DEF SectionIndex
<1> HIDE DEF at, first
<1> QED
  BY <1>1, <1>2, <1>3

LEMMA SectionEndIs ==
    ASSUME NEW n \in Seq(Line), NEW i
    PROVE  SectionEnd(n, i) \in 1..(Len(n) + 1)
<1> DEFINE next == {j \in DOMAIN n : j > i /\ n[j].shape = "heading"}
           first == CHOOSE j \in next : \A k \in next : j <= k
<1>1. next \in SUBSET DOMAIN n /\ DOMAIN n = 1..Len(n) /\ Len(n) \in Nat
  OBVIOUS
<1>2. next # {} => first \in next
  BY <1>1, FirstPlace
<1>3. SectionEnd(n, i) = IF next = {} THEN Len(n) + 1 ELSE first
  BY DEF SectionEnd
<1> HIDE DEF next, first
<1> QED
  BY <1>1, <1>2, <1>3

----------------------------------------------------------------------------
(* A line is put into a note.                                              *)

LEMMA Inserted ==
    ASSUME NEW n \in Seq(Line), NEW i \in 1..(Len(n) + 1), NEW e \in Line
    PROVE  /\ InsertAt(n, i, e) \in Seq(Line)
           /\ Len(InsertAt(n, i, e)) = Len(n) + 1
           /\ \A j \in 1..(Len(n) + 1) :
                  InsertAt(n, i, e)[j] = IF j < i THEN n[j] ELSE
                                         IF j = i THEN e ELSE n[j - 1]
<1> DEFINE a == SubSeq(n, 1, i - 1)
           b == SubSeq(n, i, Len(n))
<1>1. Len(n) \in Nat /\ i \in Nat
  OBVIOUS
<1>2. /\ a \in Seq(Line) /\ Len(a) = i - 1
      /\ \A j \in 1..(i - 1) : a[j] = n[j]
  BY <1>1
<1>3. /\ b \in Seq(Line) /\ Len(b) = Len(n) - i + 1
      /\ \A j \in 1..(Len(n) - i + 1) : b[j] = n[i + j - 1]
  BY <1>1
<1>4. InsertAt(n, i, e) = a \o <<e>> \o b
  BY DEF InsertAt
<1> HIDE DEF a, b
<1>5. /\ a \o <<e>> \in Seq(Line) /\ Len(a \o <<e>>) = i
      /\ \A j \in 1..i : (a \o <<e>>)[j] = IF j < i THEN n[j] ELSE e
  BY <1>1, <1>2
<1> DEFINE c == a \o <<e>>
<1> HIDE DEF c
<1>6. /\ c \in Seq(Line) /\ Len(c) = i
      /\ \A j \in 1..i : c[j] = IF j < i THEN n[j] ELSE e
  BY <1>5 DEF c
<1>7. c \o b \in Seq(Line) /\ Len(c \o b) = Len(n) + 1
  <2>1. c \o b \in Seq(Line) /\ Len(c \o b) = Len(c) + Len(b)
    BY <1>3, <1>6, ConcatProperties
  <2> QED
    BY <1>1, <1>3, <1>6, <2>1
<1>8. ASSUME NEW j \in 1..(Len(n) + 1)
      PROVE  (c \o b)[j] = IF j < i THEN n[j] ELSE
                           IF j = i THEN e ELSE n[j - 1]
  <2>1. CASE j <= i
    <3>1. j \in 1..i
      BY <1>1, <2>1
    <3>2. (c \o b)[j] = c[j]
      BY <1>3, <1>6, <3>1
    <3> QED
      BY <1>1, <1>6, <2>1, <3>1, <3>2
  <2>2. CASE i < j
    <3>1. j - i \in 1..(Len(n) - i + 1)
      BY <1>1, <2>2
    <3>2. (c \o b)[j] = b[j - i]
      BY <1>1, <1>3, <1>6, <2>2, <3>1
    <3>3. b[j - i] = n[j - 1]
      <4>1. b[j - i] = n[i + (j - i) - 1]
        BY <1>3, <3>1
      <4> QED
        BY <4>1, <1>1, <2>2
    <3> QED
      BY <1>1, <2>2, <3>2, <3>3
  <2>3. j <= i \/ i < j
    BY <1>1
  <2> QED
    BY <2>1, <2>2, <2>3
<1> QED
  BY <1>4, <1>7, <1>8 DEF c

\* The lines that are not the task's stay, in their order.
LEMMA InsertedOthers ==
    ASSUME NEW n \in Seq(Line), NEW i \in 1..(Len(n) + 1), NEW e \in Line,
           NEW t, Own(e, t)
    PROVE  Others(InsertAt(n, i, e), t) = Others(n, t)
<1> DEFINE m == InsertAt(n, i, e)
<1>1. /\ m \in Seq(Line) /\ Len(m) = Len(n) + 1
      /\ \A j \in 1..(Len(n) + 1) :
             m[j] = IF j < i THEN n[j] ELSE IF j = i THEN e ELSE n[j - 1]
  <2>1. m \in Seq(Line) /\ Len(m) = Len(n) + 1
    BY Inserted
  <2>2. ASSUME NEW j \in 1..(Len(n) + 1)
        PROVE  m[j] = IF j < i THEN n[j] ELSE IF j = i THEN e ELSE n[j - 1]
    BY Inserted
  <2> QED
    BY <2>1, <2>2
<1> DEFINE K == DOMAIN n \ Owned(n, t)
           L == DOMAIN m \ Owned(m, t)
           f == [k \in K |-> IF k < i THEN k ELSE k + 1]
<1>2. /\ Len(n) \in Nat /\ DOMAIN n = 1..Len(n) /\ DOMAIN m = 1..(Len(n) + 1)
      /\ i \in Nat
  BY <1>1
<1>3. \A k \in K : k \in 1..Len(n) /\ ~Own(n[k], t)
  BY <1>2, OwnedAre
<1>4. \A j \in 1..(Len(n) + 1) : j \in L <=> ~Own(m[j], t)
  BY <1>1, <1>2, OwnedAre
<1>5. L \in SUBSET DOMAIN m /\ K \in SUBSET DOMAIN n
  OBVIOUS
<1> HIDE DEF m
<1>6. ASSUME NEW k \in K PROVE f[k] \in L /\ m[f[k]] = n[k]
  BY <1>1, <1>2, <1>3, <1>4
<1>7. f \in [K -> L] /\ \A k \in K : m[f[k]] = n[k]
  BY <1>6
<1>8. \A j, k \in K : j < k => f[j] < f[k]
  BY <1>2, <1>3
<1>9. ASSUME NEW l \in L PROVE \E k \in K : f[k] = l
  <2>1. l \in 1..(Len(n) + 1) /\ ~Own(m[l], t) /\ l # i
    BY <1>1, <1>2, <1>4, <1>5
  <2>2. CASE l < i
    <3>1. l \in 1..Len(n) /\ m[l] = n[l]
      BY <1>1, <1>2, <2>1, <2>2
    <3>2. l \in K
      BY <1>2, <2>1, <3>1, OwnedAre
    <3> QED
      BY <2>2, <3>2
  <2>3. CASE i < l
    <3>1. l - 1 \in 1..Len(n) /\ m[l] = n[l - 1]
      BY <1>1, <1>2, <2>1, <2>3
    <3>2. l - 1 \in K
      BY <1>2, <2>1, <3>1, OwnedAre
    <3>3. f[l - 1] = l
      BY <1>2, <2>1, <2>3, <3>2
    <3> QED
      BY <3>2, <3>3
  <2> QED
    BY <2>1, <2>2, <2>3, <1>2
<1>10. Selected(n, K) = Selected(m, L)
  <2> HIDE DEF K, L, f
  <2> QED
    BY <1>1, <1>5, <1>7, <1>8, <1>9, SelectedEqual
<1> QED
  BY <1>10 DEF Others, m

----------------------------------------------------------------------------
(* A task listed once.                                                     *)

Pending(t) == Entry(t, " ")

\* ListedOnce, of one note.
Once(n) ==
    \A t \in Tasks : \A i, j \in DOMAIN n :
        n[i] = Pending(t) /\ n[j] = Pending(t) => i = j

LEMMA InsertedOnce ==
    ASSUME NEW n \in Seq(Line), NEW i \in 1..(Len(n) + 1), NEW e \in Line,
           Once(n),
           \A t \in Tasks : e = Pending(t) => \A j \in DOMAIN n : n[j] # e
    PROVE  Once(InsertAt(n, i, e))
<1> DEFINE m == InsertAt(n, i, e)
<1>1. /\ m \in Seq(Line) /\ Len(m) = Len(n) + 1
      /\ \A j \in 1..(Len(n) + 1) :
             m[j] = IF j < i THEN n[j] ELSE IF j = i THEN e ELSE n[j - 1]
  BY Inserted
<1> HIDE DEF m
<1>2. /\ Len(n) \in Nat /\ i \in Nat
      /\ DOMAIN n = 1..Len(n) /\ DOMAIN m = 1..(Len(n) + 1)
  <2>1. Len(n) \in Nat
    OBVIOUS
  <2> QED
    BY <1>1, <2>1, LenProperties
<1> SUFFICES ASSUME NEW t \in Tasks,
                    NEW j \in 1..(Len(n) + 1), NEW k \in 1..(Len(n) + 1),
                    m[j] = Pending(t), m[k] = Pending(t)
             PROVE  j = k
  BY <1>2 DEF Once, m
\* Where a pending entry of m was in n.
<1> DEFINE was(x) == IF x < i THEN x ELSE x - 1
<1>3. ASSUME NEW x \in 1..(Len(n) + 1), m[x] = Pending(t), x # i
      PROVE  was(x) \in DOMAIN n /\ n[was(x)] = Pending(t)
  <2>1. x \in Nat /\ (x < i \/ i < x)
    BY <1>2, <1>3
  <2>2. CASE x < i
    <3>1. m[x] = n[x] /\ x \in 1..Len(n)
      BY <1>1, <1>2, <2>1, <2>2
    <3> QED
      BY <1>2, <1>3, <2>2, <3>1
  <2>3. CASE i < x
    <3>1. m[x] = n[x - 1] /\ x - 1 \in 1..Len(n) /\ ~(x < i)
      BY <1>1, <1>2, <2>1, <2>3
    <3> QED
      BY <1>2, <1>3, <3>1
  <2> QED
    BY <2>1, <2>2, <2>3
<1>4. CASE j # i /\ k # i
  <2>1. was(j) = was(k)
    <3> HIDE DEF was
    <3> QED
      BY <1>3, <1>4 DEF Once
  <2>2. j \in Nat /\ k \in Nat
    BY <1>2
  <2> QED
    BY <1>2, <1>4, <2>1, <2>2
<1>5. CASE j = i \/ k = i
  <2>1. e = Pending(t)
    <3>1. m[i] = e
      <4>1. ~(i < i)
        BY <1>2
      <4> QED
        BY <1>1, <4>1
    <3> QED
      BY <1>5, <3>1
  <2>2. \A x \in DOMAIN n : n[x] # e
    BY <2>1
  <2>3. j = i /\ k = i
    <3>1. ASSUME NEW x \in 1..(Len(n) + 1), m[x] = Pending(t), x # i
          PROVE  FALSE
      <4> HIDE DEF was
      <4> QED
        BY <3>1, <2>1, <2>2, <1>3
    <3> QED
      BY <3>1
  <2> QED
    BY <2>3
<1> QED
  BY <1>4, <1>5

\* A note whose own entries of t were rewritten where they stand, with a box
\* that is not pending.
Rewritten(n, m, t) ==
    /\ m \in Seq(Line) /\ Len(m) = Len(n)
    /\ \A i \in DOMAIN n :
           \/ m[i] = n[i]
           \/ Own(n[i], t) /\ Own(m[i], t) /\ m[i].box # " "

LEMMA RewrittenOnce ==
    ASSUME NEW n \in Seq(Line), NEW m, NEW t, Rewritten(n, m, t), Once(n)
    PROVE  Once(m)
<1>1. DOMAIN n = 1..Len(n) /\ DOMAIN m = 1..Len(n)
  BY LenProperties DEF Rewritten
<1> SUFFICES ASSUME NEW u \in Tasks, NEW i \in DOMAIN n, NEW j \in DOMAIN n,
                    m[i] = Pending(u), m[j] = Pending(u)
             PROVE  i = j
  BY <1>1 DEF Once
<1>2. m[i].box = " " /\ m[j].box = " "
  <2>1. Pending(u).box = " "
    BY EntryIsOwn DEF Pending
  <2> QED
    BY <2>1
<1>3. n[i] = m[i] /\ n[j] = m[j]
  BY <1>2 DEF Rewritten
<1> QED
  BY <1>3 DEF Once

LEMMA RewrittenOthers ==
    ASSUME NEW n \in Seq(Line), NEW m, NEW t, Rewritten(n, m, t)
    PROVE  Others(m, t) = Others(n, t)
<1> DEFINE K == DOMAIN n \ Owned(n, t)
           f == [k \in K |-> k]
<1>1. /\ DOMAIN n = 1..Len(n) /\ DOMAIN m = 1..Len(n) /\ m \in Seq(Line)
      /\ Len(n) \in Nat
  BY LenProperties DEF Rewritten
<1>2. \A i \in DOMAIN n : Own(m[i], t) <=> Own(n[i], t)
  BY DEF Rewritten
<1>3. K = DOMAIN m \ Owned(m, t)
  BY <1>1, <1>2 DEF Owned
<1>4. K \in SUBSET DOMAIN n /\ K \in SUBSET DOMAIN m
  BY <1>1
<1>5. \A k \in K : m[k] = n[k]
  BY DEF Rewritten, Owned
<1>6. Selected(n, K) = Selected(m, K)
  <2>1. /\ f \in [K -> K]
        /\ \A i, j \in K : i < j => f[i] < f[j]
        /\ \A l \in K : \E k \in K : f[k] = l
        /\ \A k \in K : m[f[k]] = n[k]
    BY <1>5
  <2> HIDE DEF K, f
  <2> QED
    BY <1>1, <1>4, <2>1, SelectedEqual
<1> QED
  BY <1>3, <1>6 DEF Others

----------------------------------------------------------------------------
(* The four edits.                                                         *)

\* work-on leaves the note, or adds an entry to one without, or begins the
\* first.
LEMMA MarkIs ==
    ASSUME NEW n \in Seq(Line), NEW t \in Tasks
    PROVE  \/ n = <<>> /\ Mark(n, t) = n
           \/ /\ n # <<>> /\ Owned(n, t) = {}
              /\ \E i \in 1..(Len(n) + 1) :
                     Mark(n, t) = InsertAt(n, i, Entry(t, "/"))
           \/ /\ n # <<>>
              /\ \E i \in Owned(n, t) :
                     /\ \A j \in Owned(n, t) : i <= j
                     /\ Mark(n, t) = Started(n, i)
<1>1. CASE n = <<>>
  BY <1>1 DEF Mark
<1>2. CASE n # <<>> /\ Owned(n, t) = {}
  <2> DEFINE must == SectionIndex(n, "Must")
             place == IF must = 0 THEN Len(n) + 1 ELSE must + 1
  <2>1. Len(n) \in Nat /\ must \in 0..Len(n)
    BY SectionIndexIs
  <2>2. place \in 1..(Len(n) + 1)
    <3> HIDE DEF must
    <3> QED
      BY <2>1
  <2>3. Mark(n, t) = InsertAt(n, place, Entry(t, "/"))
    BY <1>2 DEF Mark, AppendStarted
  <2> HIDE DEF place
  <2> QED
    BY <1>2, <2>2, <2>3
<1>3. CASE n # <<>> /\ Owned(n, t) # {}
  <2> DEFINE first == CHOOSE i \in Owned(n, t) : \A j \in Owned(n, t) : i <= j
  <2>1. first \in Owned(n, t) /\ \A j \in Owned(n, t) : first <= j
    BY <1>3, OwnedAre, FirstPlace
  <2>2. Mark(n, t) = Started(n, first)
    BY <1>3 DEF Mark
  <2> HIDE DEF first
  <2> QED
    BY <1>3, <2>1, <2>2
<1> QED
  BY <1>1, <1>2, <1>3

LEMMA StartedIs ==
    ASSUME NEW n \in Seq(Line), NEW t \in Tasks, NEW i \in Owned(n, t)
    PROVE  /\ Rewritten(n, Started(n, i), t)
           /\ Own(Started(n, i)[i], t)
           /\ \/ Started(n, i)[i].box # " "
              \/ Started(n, i)[i].shape = "indented"
           /\ n[i].box # " " \/ n[i].shape = "indented" => Started(n, i) = n
<1>1. i \in DOMAIN n /\ Own(n[i], t) /\ n[i] \in Line
  BY OwnedAre
<1>2. CASE n[i].box = " " /\ n[i].shape # "indented"
  <2> DEFINE new == [n[i] EXCEPT !.box = "/"]
  <2>1. new \in Line /\ Own(new, t) /\ new.box = "/"
    BY <1>1, BoxSet
  <2>2. Started(n, i) = [n EXCEPT ![i] = new]
    BY <1>2 DEF Started
  <2> HIDE DEF new
  <2>3. /\ [n EXCEPT ![i] = new] \in Seq(Line)
        /\ Len([n EXCEPT ![i] = new]) = Len(n)
        /\ \A j \in DOMAIN n :
               [n EXCEPT ![i] = new][j] = IF j = i THEN new ELSE n[j]
    BY <1>1, <2>1
  <2> QED
    BY <1>1, <1>2, <2>1, <2>2, <2>3 DEF Rewritten
<1>3. CASE ~(n[i].box = " " /\ n[i].shape # "indented")
  <2>1. Started(n, i) = n
    BY <1>3 DEF Started
  <2> QED
    BY <1>1, <1>3, <2>1 DEF Rewritten
<1> QED
  BY <1>2, <1>3

\* complete ticks the task's own entries.
LEMMA TickIs ==
    ASSUME NEW n \in Seq(Line), NEW t \in Tasks
    PROVE  /\ Rewritten(n, Tick(n, t), t)
           /\ Owned(Tick(n, t), t) = Owned(n, t)
           /\ \A i \in Owned(n, t) : Tick(n, t)[i].box = "x"
           /\ (\A i \in Owned(n, t) : n[i].box = "x") => Tick(n, t) = n
<1> DEFINE m == Tick(n, t)
<1>1. m = [i \in DOMAIN n |->
             IF i \in Owned(n, t) THEN [n[i] EXCEPT !.box = "x"] ELSE n[i]]
  BY DEF Tick
<1>2. DOMAIN n = 1..Len(n) /\ Len(n) \in Nat /\ Owned(n, t) \in SUBSET DOMAIN n
  BY OwnedAre
<1>3. ASSUME NEW i \in DOMAIN n
      PROVE  /\ m[i] \in Line /\ (Own(m[i], t) <=> Own(n[i], t))
             /\ i \notin Owned(n, t) => m[i] = n[i]
             /\ i \in Owned(n, t) =>
                    /\ Own(n[i], t) /\ m[i].box = "x"
                    /\ n[i].box = "x" => m[i] = n[i]
  <2>1. CASE i \in Owned(n, t)
    <3>1. n[i] \in Line /\ Own(n[i], t) /\ m[i] = [n[i] EXCEPT !.box = "x"]
      BY <1>1, <2>1, OwnedAre
    <3>2. /\ [n[i] EXCEPT !.box = "x"] \in Line
          /\ Own([n[i] EXCEPT !.box = "x"], t)
          /\ [n[i] EXCEPT !.box = "x"].box = "x"
          /\ n[i].box = "x" => [n[i] EXCEPT !.box = "x"] = n[i]
      BY <3>1, BoxSet
    <3> QED
      BY <2>1, <3>1, <3>2
  <2>2. CASE i \notin Owned(n, t)
    BY <1>1, <2>2, OwnedAre
  <2> QED
    BY <2>1, <2>2
<1>4. DOMAIN m = 1..Len(n)
  BY <1>1, <1>2
<1>5. m \in Seq(Line) /\ Len(m) = Len(n)
  <2>1. m \in [1..Len(n) -> Line]
    BY <1>1, <1>2, <1>3
  <2> HIDE DEF m
  <2> QED
    BY <1>2, <2>1
<1> HIDE DEF m
<1>6. Owned(m, t) = Owned(n, t)
  BY <1>2, <1>3, <1>4 DEF Owned
<1>7. Rewritten(n, m, t)
  BY <1>3, <1>5 DEF Rewritten
<1>8. (\A i \in Owned(n, t) : n[i].box = "x") => m = n
  <2> SUFFICES ASSUME \A i \in Owned(n, t) : n[i].box = "x"
               PROVE  m = n
    OBVIOUS
  <2>1. \A i \in 1..Len(n) : m[i] = n[i]
    BY <1>2, <1>3
  <2> QED
    BY <1>2, <1>5, <2>1
<1> QED
  BY <1>3, <1>6, <1>7, <1>8, <1>2 DEF m

\* defer strikes them.
LEMMA StrikeIs ==
    ASSUME NEW n \in Seq(Line), NEW t \in Tasks
    PROVE  /\ Strike(n, t) \in Seq(Line)
           /\ Owned(Strike(n, t), t) = {}
           /\ Once(n) => Once(Strike(n, t))
           /\ Owned(n, t) = {} => Strike(n, t) = n
<1> DEFINE K == DOMAIN n \ Owned(n, t)
           m == Strike(n, t)
<1>1. K \in SUBSET DOMAIN n /\ m = Selected(n, K)
  BY DEF Strike
<1>2. /\ m \in Seq(Line)
      /\ DOMAIN m = 1..Cardinality(K) /\ Cardinality(K) \in Nat
      /\ \A i \in 1..Cardinality(K) : Nth(K, i) \in K /\ m[i] = n[Nth(K, i)]
      /\ \A i, j \in 1..Cardinality(K) : i < j => Nth(K, i) < Nth(K, j)
  <2> HIDE DEF K, m
  <2> QED
    BY <1>1, SelectedIs
<1>3. Owned(m, t) = {}
  <2>1. \A k \in K : ~Own(n[k], t)
    BY OwnedAre
  <2> HIDE DEF K, m
  <2> QED
    BY <1>2, <2>1 DEF Owned
<1> HIDE DEF K, m
<1>4. Once(n) => Once(m)
  <2> SUFFICES ASSUME Once(n), NEW u \in Tasks,
                      NEW i \in 1..Cardinality(K), NEW j \in 1..Cardinality(K),
                      m[i] = Pending(u), m[j] = Pending(u)
               PROVE  i = j
    BY <1>2 DEF Once
  <2>1. n[Nth(K, i)] = Pending(u) /\ n[Nth(K, j)] = Pending(u)
    BY <1>2
  <2>2. Nth(K, i) \in DOMAIN n /\ Nth(K, j) \in DOMAIN n
    BY <1>1, <1>2
  <2>3. Nth(K, i) = Nth(K, j) /\ Nth(K, i) \in Nat
    BY <2>1, <2>2 DEF Once
  <2>4. i \in Nat /\ j \in Nat
    BY <1>2
  <2>5. ~(i < j) /\ ~(j < i)
    BY <1>2, <2>3
  <2> QED
    BY <2>4, <2>5
<1>5. Owned(n, t) = {} => m = n
  BY <1>1, SelectedAll DEF K
<1> QED
  BY <1>2, <1>3, <1>4, <1>5 DEF m

\* ... and adds one to the note of the day, unless it is listed there.
LEMMA AddIs ==
    ASSUME NEW n \in Seq(Line), NEW t \in Tasks
    PROVE  \/ /\ n = <<>>
              /\ Add(n, t) = <<Heading("Should"), Entry(t, " ")>>
           \/ n # <<>> /\ Listed(n, t) /\ Add(n, t) = n
           \/ /\ n # <<>> /\ ~Listed(n, t)
              /\ \E i \in 1..(Len(n) + 1) :
                     Add(n, t) = InsertAt(n, i, Entry(t, " "))
<1>1. CASE n = <<>>
  BY <1>1 DEF Add
<1>2. CASE n # <<>> /\ Listed(n, t)
  BY <1>2 DEF Add
<1>3. CASE n # <<>> /\ ~Listed(n, t)
  <2> DEFINE should == SectionIndex(n, "Should")
             must == SectionIndex(n, "Must")
             place == IF should # 0 THEN SectionEnd(n, should)
                      ELSE IF must # 0 THEN SectionEnd(n, must) ELSE Len(n) + 1
  <2>1. place \in 1..(Len(n) + 1)
    <3>1. Len(n) \in Nat
      OBVIOUS
    <3>2. /\ SectionEnd(n, should) \in 1..(Len(n) + 1)
          /\ SectionEnd(n, must) \in 1..(Len(n) + 1)
      BY SectionEndIs
    <3> QED
      BY <3>1, <3>2
  <2>2. Add(n, t) = InsertAt(n, place, Entry(t, " "))
    BY <1>3 DEF Add, InsertPending
  <2> HIDE DEF place
  <2> QED
    BY <1>3, <2>1, <2>2
<1> QED
  BY <1>1, <1>2, <1>3

----------------------------------------------------------------------------
(* What every edit promises.                                               *)

Kinds == {"mark", "tick", "remove", "add"}

\* The line that was put in is there.
LEMMA InsertedThere ==
    ASSUME NEW n \in Seq(Line), NEW i \in 1..(Len(n) + 1), NEW e \in Line,
           NEW t, Own(e, t)
    PROVE  /\ InsertAt(n, i, e) # <<>>
           /\ i \in Owned(InsertAt(n, i, e), t)
           /\ InsertAt(n, i, e)[i] = e
<1>1. /\ InsertAt(n, i, e) \in Seq(Line)
      /\ Len(InsertAt(n, i, e)) = Len(n) + 1
      /\ InsertAt(n, i, e)[i] = IF i < i THEN n[i] ELSE
                                IF i = i THEN e ELSE n[i - 1]
  BY Inserted
<1>2. i \in Nat /\ Len(n) \in Nat
  OBVIOUS
<1>3. InsertAt(n, i, e)[i] = e
  BY <1>1, <1>2
<1>4. DOMAIN InsertAt(n, i, e) = 1..(Len(n) + 1)
  BY <1>1, LenProperties
<1>5. InsertAt(n, i, e) # <<>>
  BY <1>1, <1>2
<1> QED
  BY <1>3, <1>4, <1>5 DEF Owned

LEMMA PendingIs ==
    ASSUME NEW t \in Tasks
    PROVE  /\ Pending(t) \in Line /\ Own(Pending(t), t)
           /\ Pending(t).box = " " /\ Pending(t).shape = "plain"
           /\ \A u \in Tasks : Pending(t) = Pending(u) => t = u
           /\ \A u \in Tasks : Entry(u, "/") # Pending(t)
<1>1. \A u \in Tasks : Pending(u).of = u
  BY EntryIsOwn DEF Pending
<1>2. \A u \in Tasks : Entry(u, "/").box = "/"
  BY EntryIsOwn
<1>3. /\ Pending(t) \in Line /\ Own(Pending(t), t)
      /\ Pending(t).box = " " /\ Pending(t).shape = "plain"
  BY EntryIsOwn DEF Pending
<1> QED
  BY <1>1, <1>2, <1>3

\* The note that is created when there is none.
LEMMA CreatedIs ==
    ASSUME NEW t \in Tasks
    PROVE  /\ <<Heading("Should"), Pending(t)>> \in Seq(Line)
           /\ <<Heading("Should"), Pending(t)>> # <<>>
           /\ Once(<<Heading("Should"), Pending(t)>>)
           /\ 2 \in Owned(<<Heading("Should"), Pending(t)>>, t)
           /\ <<Heading("Should"), Pending(t)>>[2] = Pending(t)
<1> DEFINE h == Heading("Should")
           e == Pending(t)
<1>1. /\ h \in Line /\ e \in Line /\ Own(e, t)
      /\ \A u : h # Pending(u)
  <2>1. "Should" \in Sections
    BY DEF Sections
  <2>2. h \in Line /\ \A u : h # Pending(u)
    BY <2>1, HeadingIsLine DEF Pending
  <2> QED
    BY <2>2, PendingIs
<1> HIDE DEF h, e
<1>2. /\ <<h, e>> \in Seq(Line) /\ <<h, e>> # <<>>
      /\ DOMAIN <<h, e>> = {1, 2}
      /\ <<h, e>>[1] = h /\ <<h, e>>[2] = e
  BY <1>1
<1>3. Once(<<h, e>>)
  BY <1>1, <1>2 DEF Once
<1>4. 2 \in Owned(<<h, e>>, t)
  BY <1>1, <1>2 DEF Owned
<1> QED
  BY <1>2, <1>3, <1>4 DEF h, e

\* A note on which the task is not listed has no pending entry as the commands
\* write it.
LEMMA NotListed ==
    ASSUME NEW n \in Seq(Line), NEW t \in Tasks, ~Listed(n, t)
    PROVE  \A j \in DOMAIN n : n[j] # Pending(t)
<1> SUFFICES ASSUME NEW j \in DOMAIN n, n[j] = Pending(t) PROVE FALSE
  OBVIOUS
<1>1. j \in Owned(n, t) /\ n[j].box = " " /\ n[j].shape # "decorated"
  BY OwnedAre, PendingIs
<1> QED
  BY <1>1 DEF Listed

\* An edit makes a note of a note, and lists no task twice.
LEMMA ApplyIsNote ==
    ASSUME NEW n \in Seq(Line), NEW t \in Tasks, NEW kind \in Kinds
    PROVE  /\ Apply(kind, n, t) \in Seq(Line)
           /\ Once(n) => Once(Apply(kind, n, t))
<1>1. CASE kind = "mark"
  <2>1. Apply(kind, n, t) = Mark(n, t)
    BY <1>1 DEF Apply
  <2>2. CASE Mark(n, t) = n
    BY <2>1, <2>2
  <2>3. ASSUME NEW i \in 1..(Len(n) + 1),
               Mark(n, t) = InsertAt(n, i, Entry(t, "/"))
        PROVE  Mark(n, t) \in Seq(Line) /\ (Once(n) => Once(Mark(n, t)))
    <3>1. Entry(t, "/") \in Line /\ \A u \in Tasks : Entry(t, "/") # Pending(u)
      BY EntryIsOwn, PendingIs
    <3> QED
      BY <2>3, <3>1, Inserted, InsertedOnce
  <2>4. ASSUME NEW i \in Owned(n, t), Mark(n, t) = Started(n, i)
        PROVE  Mark(n, t) \in Seq(Line) /\ (Once(n) => Once(Mark(n, t)))
    <3>1. Rewritten(n, Mark(n, t), t)
      BY <2>4, StartedIs
    <3>2. Mark(n, t) \in Seq(Line)
      BY <3>1 DEF Rewritten
    <3> QED
      BY <3>1, <3>2, RewrittenOnce
  <2> QED
    BY <2>1, <2>2, <2>3, <2>4, MarkIs
<1>2. CASE kind = "tick"
  <2>1. Apply(kind, n, t) = Tick(n, t)
    BY <1>2 DEF Apply
  <2>2. Rewritten(n, Tick(n, t), t)
    BY TickIs
  <2>3. Tick(n, t) \in Seq(Line)
    BY <2>2 DEF Rewritten
  <2> QED
    BY <2>1, <2>2, <2>3, RewrittenOnce
<1>3. CASE kind = "remove"
  <2>1. Apply(kind, n, t) = Strike(n, t)
    BY <1>3 DEF Apply
  <2> QED
    BY <2>1, StrikeIs
<1>4. CASE kind = "add"
  <2>1. Apply(kind, n, t) = Add(n, t)
    BY <1>4 DEF Apply
  <2>2. CASE Add(n, t) = n
    BY <2>1, <2>2
  <2>3. CASE Add(n, t) = <<Heading("Should"), Entry(t, " ")>>
    BY <2>1, <2>3, CreatedIs DEF Pending
  <2>4. ASSUME ~Listed(n, t), NEW i \in 1..(Len(n) + 1),
               Add(n, t) = InsertAt(n, i, Entry(t, " "))
        PROVE  Add(n, t) \in Seq(Line) /\ (Once(n) => Once(Add(n, t)))
    <3>1. Add(n, t) = InsertAt(n, i, Pending(t)) /\ Pending(t) \in Line
      BY <2>4, PendingIs DEF Pending
    <3>2. \A u \in Tasks : Pending(t) = Pending(u) =>
              \A j \in DOMAIN n : n[j] # Pending(t)
      BY <2>4, NotListed
    <3> QED
      BY <3>1, <3>2, Inserted, InsertedOnce
  <2> QED
    BY <2>1, <2>2, <2>3, <2>4, AddIs
<1> QED
  BY <1>1, <1>2, <1>3, <1>4 DEF Kinds

\* Only the task's own entries change.
LEMMA ApplyOthers ==
    ASSUME NEW n \in Seq(Line), n # <<>>, NEW t \in Tasks, NEW kind \in Kinds
    PROVE  Others(Apply(kind, n, t), t) = Others(n, t)
<1>1. CASE kind = "mark"
  <2>1. Apply(kind, n, t) = Mark(n, t)
    BY <1>1 DEF Apply
  <2>2. ASSUME NEW i \in 1..(Len(n) + 1),
               Mark(n, t) = InsertAt(n, i, Entry(t, "/"))
        PROVE  Others(Mark(n, t), t) = Others(n, t)
    <3>1. Entry(t, "/") \in Line /\ Own(Entry(t, "/"), t)
      BY EntryIsOwn
    <3> QED
      BY <2>2, <3>1, InsertedOthers
  <2>3. ASSUME NEW i \in Owned(n, t), Mark(n, t) = Started(n, i)
        PROVE  Others(Mark(n, t), t) = Others(n, t)
    BY <2>3, StartedIs, RewrittenOthers
  <2> QED
    BY <2>1, <2>2, <2>3, MarkIs
<1>2. CASE kind = "tick"
  <2>1. Apply(kind, n, t) = Tick(n, t)
    BY <1>2 DEF Apply
  <2> QED
    BY <2>1, TickIs, RewrittenOthers
<1>3. CASE kind = "remove"
  <2>1. Apply(kind, n, t) = Strike(n, t)
    BY <1>3 DEF Apply
  <2>2. Strike(Strike(n, t), t) = Strike(n, t)
    BY StrikeIs
  <2> QED
    BY <2>1, <2>2 DEF Others, Strike
<1>4. CASE kind = "add"
  <2>1. Apply(kind, n, t) = Add(n, t)
    BY <1>4 DEF Apply
  <2>2. ASSUME NEW i \in 1..(Len(n) + 1),
               Add(n, t) = InsertAt(n, i, Entry(t, " "))
        PROVE  Others(Add(n, t), t) = Others(n, t)
    <3> DEFINE e == Pending(t)
    <3>1. e \in Line /\ Own(e, t) /\ Add(n, t) = InsertAt(n, i, e)
      BY <2>2, PendingIs DEF Pending
    <3> HIDE DEF e
    <3> QED
      BY <3>1, InsertedOthers
  <2> QED
    BY <2>1, <2>2, AddIs
<1> QED
  BY <1>1, <1>2, <1>3, <1>4 DEF Kinds

\* The task that is worked on has an entry that is not pending.
LEMMA MarkAchieves ==
    ASSUME NEW n \in Seq(Line), NEW t \in Tasks
    PROVE  Mark(n, t) # <<>> =>
               \E i \in Owned(Mark(n, t), t) :
                   Mark(n, t)[i].box # " " \/ Mark(n, t)[i].shape = "indented"
<1> SUFFICES ASSUME Mark(n, t) # <<>>
             PROVE  \E i \in Owned(Mark(n, t), t) :
                        \/ Mark(n, t)[i].box # " "
                        \/ Mark(n, t)[i].shape = "indented"
  OBVIOUS
<1>1. ASSUME NEW i \in 1..(Len(n) + 1),
             Mark(n, t) = InsertAt(n, i, Entry(t, "/"))
      PROVE  i \in Owned(Mark(n, t), t) /\ Mark(n, t)[i].box # " "
  <2> DEFINE e == Entry(t, "/")
  <2>1. e \in Line /\ Own(e, t) /\ Mark(n, t) = InsertAt(n, i, e)
    BY <1>1, EntryIsOwn
  <2>2. e.box # " "
    BY EntryIsOwn
  <2> HIDE DEF e
  <2>3. i \in Owned(Mark(n, t), t) /\ Mark(n, t)[i] = e
    BY <2>1, InsertedThere
  <2> QED
    BY <2>2, <2>3
<1>2. ASSUME NEW i \in Owned(n, t), Mark(n, t) = Started(n, i)
      PROVE  /\ i \in Owned(Mark(n, t), t)
             /\ \/ Mark(n, t)[i].box # " "
                \/ Mark(n, t)[i].shape = "indented"
  <2> DEFINE m == Mark(n, t)
  <2>1. /\ Rewritten(n, m, t) /\ Own(m[i], t)
        /\ m[i].box # " " \/ m[i].shape = "indented"
    BY <1>2, StartedIs
  <2> HIDE DEF m
  <2>2. m \in Seq(Line) /\ Len(m) = Len(n)
    BY <2>1 DEF Rewritten
  <2>3. i \in DOMAIN m
    BY <2>2, OwnedAre
  <2>4. i \in Owned(m, t)
    BY <2>1, <2>2, <2>3, OwnedAre
  <2> QED
    BY <2>1, <2>4 DEF m
<1> QED
  BY <1>1, <1>2, MarkIs

\* The task that was deferred is listed on the note of its day.
LEMMA AddAchieves ==
    ASSUME NEW n \in Seq(Line), NEW t \in Tasks
    PROVE  /\ \E i \in Owned(Add(n, t), t) :
                  /\ Add(n, t)[i].box = " "
                  /\ Add(n, t)[i].shape # "decorated"
           /\ Add(n, t) # <<>>
<1>1. CASE n # <<>> /\ Listed(n, t) /\ Add(n, t) = n
  BY <1>1 DEF Listed
<1>2. CASE Add(n, t) = <<Heading("Should"), Entry(t, " ")>>
  <2> DEFINE m == Add(n, t)
  <2>1. m # <<>> /\ 2 \in Owned(m, t) /\ m[2] = Pending(t)
    BY <1>2, CreatedIs DEF Pending
  <2> HIDE DEF m
  <2> QED
    BY <2>1, PendingIs DEF m
<1>3. ASSUME NEW i \in 1..(Len(n) + 1),
             Add(n, t) = InsertAt(n, i, Entry(t, " "))
      PROVE  /\ Add(n, t) # <<>> /\ i \in Owned(Add(n, t), t)
             /\ Add(n, t)[i].box = " " /\ Add(n, t)[i].shape # "decorated"
  <2> DEFINE e == Pending(t)
  <2>1. e \in Line /\ Own(e, t) /\ Add(n, t) = InsertAt(n, i, e)
    BY <1>3, PendingIs DEF Pending
  <2>2. e.box = " " /\ e.shape # "decorated"
    BY PendingIs
  <2> HIDE DEF e
  <2>3. /\ Add(n, t) # <<>> /\ i \in Owned(Add(n, t), t)
        /\ Add(n, t)[i] = e
    BY <2>1, InsertedThere
  <2> QED
    BY <2>2, <2>3
<1> QED
  BY <1>1, <1>2, <1>3, AddIs

\* An edit that is given again changes nothing more.
LEMMA ApplyTwice ==
    ASSUME NEW n \in Seq(Line), NEW t \in Tasks, NEW kind \in Kinds
    PROVE  Apply(kind, Apply(kind, n, t), t) = Apply(kind, n, t)
<1> DEFINE m == Apply(kind, n, t)
<1>1. m \in Seq(Line)
  BY ApplyIsNote
<1>2. CASE kind = "mark"
  <2>1. m = Mark(n, t) /\ Apply(kind, m, t) = Mark(m, t)
    BY <1>2 DEF Apply
  <2> HIDE DEF m
  <2>2. CASE m = <<>>
    <3>1. Mark(m, t) = m
      BY <2>2 DEF Mark
    <3> QED
      BY <2>1, <3>1 DEF m
\* The entry that work-on left is the first one, and needs no more.
  <2>3. ASSUME NEW f \in Owned(m, t), \A j \in Owned(m, t) : f <= j,
               m[f].box # " " \/ m[f].shape = "indented"
        PROVE  Mark(m, t) = m
    <3>1. \/ Mark(m, t) = m
          \/ \E i \in Owned(m, t) : /\ \A j \in Owned(m, t) : i <= j
                                    /\ Mark(m, t) = Started(m, i)
      BY <1>1, MarkIs
    <3>2. ASSUME NEW i \in Owned(m, t), \A j \in Owned(m, t) : i <= j
          PROVE  i = f
      <4>1. i \in Nat /\ f \in Nat
        BY <1>1, OwnedAre
      <4>2. i <= f /\ f <= i
        BY <2>3, <3>2
      <4> QED
        BY <4>1, <4>2
    <3>3. Started(m, f) = m
      BY <1>1, <2>3, StartedIs
    <3> QED
      BY <3>1, <3>2, <3>3
  <2>4. ASSUME Owned(n, t) = {}, NEW i \in 1..(Len(n) + 1),
               m = InsertAt(n, i, Entry(t, "/"))
        PROVE  Mark(m, t) = m
    <3>1. Entry(t, "/") \in Line /\ Own(Entry(t, "/"), t)
          /\ Entry(t, "/").box # " "
      BY EntryIsOwn
    <3>2. i \in Owned(m, t) /\ m[i].box # " "
      BY <2>4, <3>1, InsertedThere
    <3>3. ASSUME NEW j \in Owned(m, t) PROVE j = i
      <4> DEFINE e == Entry(t, "/")
      <4> HIDE DEF e
      <4>8. /\ Len(m) = Len(n) + 1
            /\ \A x \in 1..(Len(n) + 1) :
                   m[x] = IF x < i THEN n[x] ELSE IF x = i THEN e ELSE n[x - 1]
        <5>1. m = InsertAt(n, i, e) /\ e \in Line
          BY <2>4, <3>1 DEF e
        <5> QED
          BY <5>1, Inserted
      <4>1. /\ j \in 1..(Len(n) + 1) /\ Len(n) \in Nat /\ i \in Nat
            /\ j \in Nat
        <5>1. Len(n) \in Nat /\ i \in Nat
          BY LenProperties
        <5>2. j \in DOMAIN m /\ DOMAIN m = 1..Len(m)
          BY <1>1, OwnedAre
        <5> QED
          BY <4>8, <5>1, <5>2
      <4>2. m[j] = IF j < i THEN n[j] ELSE IF j = i THEN e ELSE n[j - 1]
        BY <4>1, <4>8
      <4>3. Own(m[j], t)
        BY <1>1, OwnedAre
      <4>4. \A x \in 1..Len(n) : ~Own(n[x], t)
        BY <2>4, OwnedAre
      <4>5. ~(j < i)
        <5> SUFFICES ASSUME j < i PROVE FALSE
          OBVIOUS
        <5>1. j \in 1..Len(n) /\ m[j] = n[j]
          BY <4>1, <4>2
        <5> QED
          BY <4>3, <4>4, <5>1
      <4>6. ~(i < j)
        <5> SUFFICES ASSUME i < j PROVE FALSE
          OBVIOUS
        <5>1. j - 1 \in 1..Len(n) /\ m[j] = n[j - 1]
          BY <4>1, <4>2
        <5> QED
          BY <4>3, <4>4, <5>1
      <4> QED
        BY <4>1, <4>5, <4>6
    <3>4. \A j \in Owned(m, t) : i <= j
      <4>1. i \in Nat
        OBVIOUS
      <4> QED
        BY <3>3, <4>1
    <3> QED
      BY <2>3, <3>2, <3>4
  <2>5. ASSUME NEW i \in Owned(n, t), \A j \in Owned(n, t) : i <= j,
               m = Started(n, i)
        PROVE  Mark(m, t) = m
    <3>1. /\ Rewritten(n, m, t) /\ Own(m[i], t)
          /\ m[i].box # " " \/ m[i].shape = "indented"
      BY <2>5, StartedIs
    <3>2. /\ DOMAIN m = DOMAIN n
          /\ \A j \in DOMAIN n : Own(m[j], t) => Own(n[j], t)
      BY <3>1, LenProperties DEF Rewritten
    <3>3. /\ \A j \in Owned(m, t) : j \in Owned(n, t)
          /\ i \in Owned(m, t)
      BY <3>1, <3>2 DEF Owned
    <3> QED
      BY <2>3, <2>5, <3>1, <3>3
  <2> QED
    BY <2>1, <2>2, <2>4, <2>5, MarkIs DEF m
<1>3. CASE kind = "tick"
  <2>1. m = Tick(n, t) /\ Apply(kind, m, t) = Tick(m, t)
    BY <1>3 DEF Apply
  <2>2. \A i \in Owned(m, t) : m[i].box = "x"
    BY <2>1, TickIs
  <2> HIDE DEF m
  <2> QED
    BY <1>1, <2>1, <2>2, TickIs DEF m
<1>4. CASE kind = "remove"
  <2>1. m = Strike(n, t) /\ Apply(kind, m, t) = Strike(m, t)
    BY <1>4 DEF Apply
  <2>2. Owned(m, t) = {}
    BY <2>1, StrikeIs
  <2> HIDE DEF m
  <2> QED
    BY <1>1, <2>1, <2>2, StrikeIs DEF m
<1>5. CASE kind = "add"
  <2>1. m = Add(n, t) /\ Apply(kind, m, t) = Add(m, t)
    BY <1>5 DEF Apply
  <2>2. m # <<>> /\ Listed(m, t)
    BY <2>1, AddAchieves DEF Listed
  <2>3. Add(m, t) = m
    BY <2>2 DEF Add
  <2> QED
    BY <2>1, <2>3
<1> QED
  BY <1>2, <1>3, <1>4, <1>5 DEF Kinds

----------------------------------------------------------------------------
(* Commands and their edits.                                               *)

\* A command has one edit left, or both of a deferral.
OneEdit(p) ==
    \E kind \in {"mark", "tick", "add"}, t \in Tasks, d \in 1..Days :
        todo[p] = <<On(kind, t, d)>>

TwoEdits(p) ==
    \E t \in Tasks, d \in 1..Days :
        todo[p] = <<On("remove", t, today), On("add", t, d)>>

Plans ==
    \A p \in Procs : IF pc[p] = "idle" THEN todo[p] = <<>>
                     ELSE OneEdit(p) \/ TwoEdits(p)

\* What is about to be written is an edit of the note as it is, when nobody
\* wrote one since it was read.
Current ==
    \A p \in Procs : pc[p] = "write" /\ (fresh[p] \/ clean[p]) =>
        mem[p] = note[Head(todo[p]).day]

\* An undisturbed deferral that has come to its second edit has done its first.
Cleared ==
    \A p \in Procs, t \in Tasks, d \in 1..Days :
        clean[p] /\ todo[p] = <<On("add", t, d)>> => Owned(note[today], t) = {}

IInv == TypeOK /\ Plans /\ Current /\ Cleared

LEMMA OnIs ==
    ASSUME NEW kind \in Kinds, NEW t \in Tasks, NEW d \in 1..Days
    PROVE  /\ On(kind, t, d) \in Edit
           /\ On(kind, t, d).kind = kind /\ On(kind, t, d).task = t
           /\ On(kind, t, d).day = d
  BY DEF On, Edit, Kinds

LEMMA EditIs ==
    ASSUME NEW e \in Edit
    PROVE  e.kind \in Kinds /\ e.task \in Tasks /\ e.day \in 1..Days
  BY DEF Edit, Kinds

\* A command in progress has an edit to make.
LEMMA NextEdit ==
    ASSUME TypeOK, Plans, NEW p \in Procs, pc[p] # "idle"
    PROVE  /\ todo[p] \in Seq(Edit) /\ todo[p] # <<>>
           /\ Head(todo[p]) \in Edit
<1>1. todo[p] \in Seq(Edit)
  BY DEF TypeOK
<1>2. OneEdit(p) \/ TwoEdits(p)
  BY DEF Plans
<1>3. todo[p] # <<>>
  BY <1>2 DEF OneEdit, TwoEdits
<1> QED
  BY <1>1, <1>3

\* The command goes on to its next edit, or is over.
LEMMA Advances ==
    ASSUME TypeOK, Plans, NEW p \in Procs, pc[p] # "idle", Advance(p),
           UNCHANGED today
    PROVE  /\ todo' \in [Procs -> Seq(Edit)] /\ mem' \in [Procs -> Seq(Line)]
           /\ pc' \in [Procs -> {"idle", "read", "write"}]
           /\ pc'[p] # "write"
           /\ \A q \in Procs : q # p => /\ todo'[q] = todo[q]
                                        /\ mem'[q] = mem[q]
                                        /\ pc'[q] = pc[q]
           /\ mem'[p] = <<>>
           /\ OneEdit(p) => todo'[p] = <<>>
           /\ \A t \in Tasks, d \in 1..Days :
                 todo[p] = <<On("remove", t, today), On("add", t, d)>> =>
                     todo'[p] = <<On("add", t, d)>> /\ pc'[p] = "read"
           /\ Plans'
<1>1. /\ todo \in [Procs -> Seq(Edit)] /\ mem \in [Procs -> Seq(Line)]
      /\ pc \in [Procs -> {"idle", "read", "write"}] /\ today \in 1..Days
  BY DEF TypeOK
<1>2. /\ todo' = [todo EXCEPT ![p] = Tail(@)]
      /\ mem' = [mem EXCEPT ![p] = <<>>]
      /\ pc' = [pc EXCEPT ![p] = IF Len(todo[p]) > 1 THEN "read" ELSE "idle"]
  BY DEF Advance
<1>3. todo[p] \in Seq(Edit) /\ todo[p] # <<>> /\ Tail(todo[p]) \in Seq(Edit)
  BY NextEdit
<1>4. /\ todo' \in [Procs -> Seq(Edit)] /\ mem' \in [Procs -> Seq(Line)]
      /\ pc' \in [Procs -> {"idle", "read", "write"}]
  BY <1>1, <1>2, <1>3
<1>5. /\ todo'[p] = Tail(todo[p]) /\ mem'[p] = <<>>
      /\ pc'[p] = IF Len(todo[p]) > 1 THEN "read" ELSE "idle"
      /\ \A q \in Procs : q # p => /\ todo'[q] = todo[q] /\ mem'[q] = mem[q]
                                   /\ pc'[q] = pc[q]
  BY <1>1, <1>2
<1>6. OneEdit(p) => todo'[p] = <<>> /\ pc'[p] = "idle"
  <2> SUFFICES ASSUME NEW e, todo[p] = <<e>>
               PROVE  todo'[p] = <<>> /\ pc'[p] = "idle"
    BY DEF OneEdit
  <2>1. Len(todo[p]) = 1 /\ Tail(todo[p]) = <<>>
    OBVIOUS
  <2> QED
    BY <1>5, <2>1
<1>7. ASSUME NEW e, NEW f, todo[p] = <<e, f>>
      PROVE  todo'[p] = <<f>> /\ pc'[p] = "read"
  <2>1. Len(todo[p]) = 2 /\ Tail(todo[p]) = <<f>>
    BY <1>7
  <2> QED
    BY <1>5, <2>1
<1>8. TwoEdits(p) => pc'[p] = "read" /\ OneEdit(p)'
  BY <1>7 DEF TwoEdits, OneEdit
<1>9. Plans'
  <2> SUFFICES ASSUME NEW q \in Procs
               PROVE  IF pc'[q] = "idle" THEN todo'[q] = <<>>
                      ELSE OneEdit(q)' \/ TwoEdits(q)'
    BY DEF Plans
  <2>1. CASE q = p
    BY <2>1, <1>6, <1>8 DEF Plans
  <2>2. CASE q # p
    <3>1. pc'[q] = pc[q] /\ todo'[q] = todo[q] /\ today' = today
      BY <1>5, <2>2
    <3> QED
      BY <3>1 DEF Plans, OneEdit, TwoEdits
  <2> QED
    BY <2>1, <2>2
<1> QED
  BY <1>4, <1>5, <1>6, <1>7, <1>9

LEMMA Initially == Init => IInv
<1> SUFFICES ASSUME Init PROVE IInv
  OBVIOUS
<1>1. TypeOK
  BY DEF Init, TypeOK
<1>2. Plans /\ Current
  BY DEF Init, Plans, Current
<1>3. Cleared
  BY DEF Init, Cleared
<1> QED
  BY <1>1, <1>2, <1>3 DEF IInv

LEMMA BeginKeeps ==
    ASSUME IInv, NEW p \in Procs, NEW edits \in Seq(Edit), Begin(p, edits),
           \/ \E kind \in {"mark", "tick"}, t \in Tasks :
                 edits = <<On(kind, t, today)>>
           \/ \E t \in Tasks, d \in 1..Days :
                 edits = <<On("remove", t, today), On("add", t, d)>>
    PROVE  IInv'
<1>1. /\ todo \in [Procs -> Seq(Edit)] /\ clean \in [Procs -> BOOLEAN]
      /\ pc \in [Procs -> {"idle", "read", "write"}] /\ today \in 1..Days
      /\ commands \in 0..MaxCommands
  BY DEF IInv, TypeOK
<1>2. /\ commands' = commands + 1 /\ commands < MaxCommands
      /\ todo' = [todo EXCEPT ![p] = edits]
      /\ pc' = [pc EXCEPT ![p] = "read"]
      /\ clean' = [clean EXCEPT ![p] = \A q \in Procs : pc[q] = "idle"]
      /\ UNCHANGED <<note, today, mem, fresh>>
  BY DEF Begin
<1>3. /\ todo' \in [Procs -> Seq(Edit)] /\ commands' \in 0..MaxCommands
      /\ pc' \in [Procs -> {"idle", "read", "write"}]
  BY <1>1, <1>2
<1>4. clean' \in [Procs -> BOOLEAN]
  BY <1>1, <1>2
<1>5. TypeOK'
  BY <1>2, <1>3, <1>4 DEF IInv, TypeOK
<1>6. /\ todo'[p] = edits /\ pc'[p] = "read"
      /\ \A q \in Procs : q # p => /\ todo'[q] = todo[q] /\ pc'[q] = pc[q]
                                   /\ clean'[q] = clean[q]
  BY <1>1, <1>2
<1>7. Plans'
  <2>1. OneEdit(p)' \/ TwoEdits(p)'
    <3>1. CASE \E kind \in {"mark", "tick"}, t \in Tasks :
                   edits = <<On(kind, t, today)>>
      <4>1. PICK kind \in {"mark", "tick"}, t \in Tasks :
                edits = <<On(kind, t, today)>>
        BY <3>1
      <4>2. kind \in {"mark", "tick", "add"} /\ today \in 1..Days
        BY <1>1
      <4>3. todo'[p] = <<On(kind, t, today)>>
        BY <1>6, <4>1
      <4> QED
        BY <4>2, <4>3 DEF OneEdit
    <3>2. CASE \E t \in Tasks, d \in 1..Days :
                   edits = <<On("remove", t, today), On("add", t, d)>>
      BY <1>2, <1>6, <3>2 DEF TwoEdits
    <3> QED
      BY <3>1, <3>2
  <2>2. \A q \in Procs : q # p => (OneEdit(q)' <=> OneEdit(q))
                                  /\ (TwoEdits(q)' <=> TwoEdits(q))
    BY <1>2, <1>6 DEF OneEdit, TwoEdits
  <2> QED
    BY <1>6, <2>1, <2>2 DEF IInv, Plans
<1>8. Current'
  BY <1>2, <1>6 DEF IInv, Current
<1>9. Cleared'
  <2> SUFFICES ASSUME NEW q \in Procs, NEW t \in Tasks, NEW d \in 1..Days,
                      clean'[q], todo'[q] = <<On("add", t, d)>>
               PROVE  Owned(note[today], t) = {}
    BY <1>2 DEF Cleared
  <2>1. q # p
    <3> SUFFICES ASSUME q = p PROVE FALSE
      OBVIOUS
    <3>1. edits = <<On("add", t, d)>>
      BY <1>6
    <3>2. Head(edits).kind = "add"
      BY <3>1, OnIs DEF Kinds
    <3>3. Head(edits).kind # "add"
      BY <1>1, OnIs DEF Kinds
    <3> QED
      BY <3>2, <3>3
  <2> QED
    BY <1>6, <2>1 DEF IInv, Cleared
<1> QED
  BY <1>5, <1>7, <1>8, <1>9 DEF IInv

\* Reading leaves the note as it is; without a write to make, the command
\* goes on.
LEMMA ReadKeeps ==
    ASSUME IInv, NEW p \in Procs, Read(p)
    PROVE  IInv'
<1>0. TypeOK /\ Plans /\ pc[p] = "read" /\ UNCHANGED <<note, today, clean, commands>>
  BY DEF IInv, Read
<1>1. /\ note \in [1..Days -> Seq(Line)] /\ todo \in [Procs -> Seq(Edit)]
      /\ mem \in [Procs -> Seq(Line)] /\ today \in 1..Days
      /\ pc \in [Procs -> {"idle", "read", "write"}]
      /\ fresh \in [Procs -> BOOLEAN]
  BY <1>0 DEF TypeOK
<1> DEFINE e == Head(todo[p])
           n == note[e.day]
<1>2. e \in Edit /\ todo[p] # <<>>
  BY <1>0, NextEdit
<1>3. e.day \in 1..Days /\ n \in Seq(Line)
  BY <1>1, <1>2, EditIs
<1>4. CASE Writes(e.kind, n, e.task)
  <2>1. /\ mem' = [mem EXCEPT ![p] = n] /\ pc' = [pc EXCEPT ![p] = "write"]
        /\ fresh' = [fresh EXCEPT ![p] = TRUE] /\ todo' = todo
    BY <1>4 DEF Read
  <2> HIDE DEF n
  <2>2. /\ mem' \in [Procs -> Seq(Line)]
        /\ pc' \in [Procs -> {"idle", "read", "write"}]
        /\ fresh' \in [Procs -> BOOLEAN]
        /\ mem'[p] = n /\ pc'[p] = "write"
        /\ \A q \in Procs : q # p => /\ mem'[q] = mem[q] /\ pc'[q] = pc[q]
                                     /\ fresh'[q] = fresh[q]
    BY <1>1, <1>3, <2>1
  <2>3. TypeOK'
    BY <1>0, <2>1, <2>2 DEF TypeOK
  <2>4. Plans'
    BY <1>0, <2>1, <2>2 DEF Plans, OneEdit, TwoEdits
  <2>5. Current'
    <3>1. mem'[p] = note'[Head(todo'[p]).day]
      BY <1>0, <2>1, <2>2 DEF n
    <3> QED
      BY <1>0, <2>1, <2>2, <3>1 DEF IInv, Current
  <2>6. Cleared'
    BY <1>0, <2>1 DEF IInv, Cleared
  <2> QED
    BY <2>3, <2>4, <2>5, <2>6 DEF IInv
<1>5. CASE ~Writes(e.kind, n, e.task)
  <2>1. Advance(p) /\ fresh' = fresh
    BY <1>5 DEF Read
  <2>2. /\ todo' \in [Procs -> Seq(Edit)] /\ mem' \in [Procs -> Seq(Line)]
        /\ pc' \in [Procs -> {"idle", "read", "write"}]
        /\ pc'[p] # "write"
        /\ \A q \in Procs : q # p => /\ todo'[q] = todo[q]
                                     /\ mem'[q] = mem[q] /\ pc'[q] = pc[q]
        /\ OneEdit(p) => todo'[p] = <<>>
        /\ \A t \in Tasks, d \in 1..Days :
              todo[p] = <<On("remove", t, today), On("add", t, d)>> =>
                  todo'[p] = <<On("add", t, d)>>
        /\ Plans'
    BY <1>0, <2>1, Advances
  <2>3. TypeOK'
    BY <1>0, <2>1, <2>2 DEF TypeOK
  <2>4. Current'
    <3> SUFFICES ASSUME NEW q \in Procs, pc'[q] = "write",
                        fresh'[q] \/ clean'[q]
                 PROVE  mem'[q] = note'[Head(todo'[q]).day]
      BY DEF Current
    <3>1. q # p
      BY <2>2
    <3>2. /\ mem'[q] = mem[q] /\ pc'[q] = pc[q] /\ todo'[q] = todo[q]
          /\ fresh'[q] = fresh[q] /\ clean'[q] = clean[q] /\ note' = note
      BY <1>0, <2>1, <2>2, <3>1
    <3> QED
      BY <3>2 DEF IInv, Current
  <2>5. Cleared'
    <3> SUFFICES ASSUME NEW q \in Procs, NEW t \in Tasks, NEW d \in 1..Days,
                        clean[q], todo'[q] = <<On("add", t, d)>>
                 PROVE  Owned(note[today], t) = {}
      BY <1>0 DEF Cleared
    <3>1. CASE q # p
      BY <2>2, <3>1 DEF IInv, Cleared
    <3>2. CASE q = p
      <4>1. todo'[p] # <<>>
        <5>1. \A x : <<x>> # <<>>
          OBVIOUS
        <5> QED
          BY <3>2, <5>1, Zenon
      <4>2. PICK u \in Tasks, c \in 1..Days :
                todo[p] = <<On("remove", u, today), On("add", u, c)>>
        BY <1>0, <2>2, <4>1 DEF Plans, TwoEdits
      <4>3. <<On("add", t, d)>> = <<On("add", u, c)>>
        BY <2>2, <3>2, <4>2
      <4>4. On("add", t, d) = On("add", u, c)
        BY <4>3
      <4>5. t = u
        BY <4>4, OnIs DEF Kinds
      <4>6. e = On("remove", t, today)
        BY <4>2, <4>5
      <4>7. e.kind = "remove" /\ e.task = t /\ e.day = today
        BY <1>1, <4>6, OnIs DEF Kinds
      <4>8. n = <<>>
        BY <1>5, <4>7 DEF Writes
      <4>9. note[today] = <<>>
        BY <4>7, <4>8
      <4> QED
        BY <4>9 DEF Owned
    <3> QED
      BY <3>1, <3>2
  <2> QED
    BY <2>2, <2>3, <2>4, <2>5 DEF IInv
<1> QED
  BY <1>4, <1>5

\* Whatever is written, the other commands are no longer alone with the notes.
LEMMA WriteKeeps ==
    ASSUME IInv, NEW p \in Procs, Write(p)
    PROVE  IInv'
<1>0. /\ TypeOK /\ Plans /\ pc[p] = "write" /\ Advance(p)
      /\ UNCHANGED <<today, commands>>
      /\ fresh' = [q \in Procs |-> FALSE]
      /\ clean' = [q \in Procs |-> q = p /\ clean[p]]
  BY DEF IInv, Write
<1>1. /\ note \in [1..Days -> Seq(Line)] /\ todo \in [Procs -> Seq(Edit)]
      /\ mem \in [Procs -> Seq(Line)] /\ today \in 1..Days
      /\ clean \in [Procs -> BOOLEAN]
  BY <1>0 DEF TypeOK
<1> DEFINE e == Head(todo[p])
           m == Apply(e.kind, mem[p], e.task)
<1>2. e \in Edit /\ todo[p] # <<>>
  BY <1>0, NextEdit
<1>3. e.kind \in Kinds /\ e.task \in Tasks /\ e.day \in 1..Days
  BY <1>2, EditIs
<1>4. note' = [note EXCEPT ![e.day] = m]
  BY DEF Write
<1> HIDE DEF m
<1>5. m \in Seq(Line)
  <2> HIDE DEF e
  <2> QED
    BY <1>1, <1>3, ApplyIsNote DEF m
<1>6. note' \in [1..Days -> Seq(Line)]
  BY <1>1, <1>4, <1>5
<1>7. /\ todo' \in [Procs -> Seq(Edit)] /\ mem' \in [Procs -> Seq(Line)]
      /\ pc' \in [Procs -> {"idle", "read", "write"}]
      /\ pc'[p] # "write"
      /\ OneEdit(p) => todo'[p] = <<>>
      /\ \A t \in Tasks, d \in 1..Days :
            todo[p] = <<On("remove", t, today), On("add", t, d)>> =>
                todo'[p] = <<On("add", t, d)>>
      /\ Plans'
  BY <1>0, Advances
<1>8. /\ fresh' \in [Procs -> BOOLEAN] /\ clean' \in [Procs -> BOOLEAN]
      /\ \A q \in Procs : ~fresh'[q] /\ (clean'[q] => q = p /\ clean[p])
  BY <1>0, <1>1
<1>9. TypeOK'
  BY <1>0, <1>6, <1>7, <1>8 DEF TypeOK
<1>10. Current'
  BY <1>7, <1>8 DEF Current
<1>11. Cleared'
  <2> SUFFICES ASSUME NEW q \in Procs, NEW t \in Tasks, NEW d \in 1..Days,
                      clean'[q], todo'[q] = <<On("add", t, d)>>
               PROVE  Owned(note'[today], t) = {}
    BY <1>0 DEF Cleared
  <2>1. q = p /\ todo'[p] = <<On("add", t, d)>>
    BY <1>8
  <2>2. todo'[p] # <<>>
    <3>1. \A x : <<x>> # <<>>
      OBVIOUS
    <3> QED
      BY <2>1, <3>1, Zenon
  <2>3. PICK u \in Tasks, c \in 1..Days :
            todo[p] = <<On("remove", u, today), On("add", u, c)>>
    BY <1>0, <1>7, <2>2 DEF Plans, TwoEdits
  <2>4. <<On("add", t, d)>> = <<On("add", u, c)>>
    BY <1>7, <2>1, <2>3
  <2>5. On("add", t, d) = On("add", u, c)
    BY <2>4
  <2>6. t = u
    BY <2>5, OnIs DEF Kinds
  <2>7. e = On("remove", t, today)
    BY <2>3, <2>6
  <2>8. e.kind = "remove" /\ e.task = t /\ e.day = today
    BY <1>1, <2>7, OnIs DEF Kinds
  <2>9. m = Strike(mem[p], t)
    BY <2>8 DEF m, Apply
  <2>10. note'[today] = m
    BY <1>1, <1>4, <2>8
  <2> QED
    BY <1>1, <2>9, <2>10, StrikeIs
<1> QED
  BY <1>7, <1>9, <1>10, <1>11 DEF IInv

LEMMA FailsKeeps ==
    ASSUME IInv, NEW p \in Procs, EditFails(p)
    PROVE  IInv'
<1>0. /\ TypeOK /\ Plans /\ pc[p] # "idle" /\ Advance(p)
      /\ UNCHANGED <<note, today, fresh, commands>>
      /\ clean' = [clean EXCEPT ![p] = FALSE] /\ clean \in [Procs -> BOOLEAN]
  BY DEF IInv, EditFails, TypeOK
<1>1. /\ todo' \in [Procs -> Seq(Edit)] /\ mem' \in [Procs -> Seq(Line)]
      /\ pc' \in [Procs -> {"idle", "read", "write"}]
      /\ pc'[p] # "write"
      /\ \A q \in Procs : q # p => /\ todo'[q] = todo[q] /\ mem'[q] = mem[q]
                                   /\ pc'[q] = pc[q]
      /\ Plans'
  BY <1>0, Advances
<1>2. /\ clean' \in [Procs -> BOOLEAN] /\ ~clean'[p]
      /\ \A q \in Procs : q # p => clean'[q] = clean[q]
  BY <1>0
<1>3. TypeOK'
  BY <1>0, <1>1, <1>2 DEF TypeOK
<1>4. Current'
  <2> SUFFICES ASSUME NEW q \in Procs, pc'[q] = "write",
                      fresh'[q] \/ clean'[q]
               PROVE  mem'[q] = note'[Head(todo'[q]).day]
    BY DEF Current
  <2>1. q # p
    BY <1>1
  <2>2. /\ pc[q] = "write" /\ (fresh[q] \/ clean[q])
        /\ mem'[q] = mem[q] /\ todo'[q] = todo[q] /\ note' = note
    BY <1>0, <1>1, <1>2, <2>1
  <2> QED
    BY <2>2 DEF IInv, Current
<1>5. Cleared'
  BY <1>0, <1>1, <1>2 DEF IInv, Cleared
<1> QED
  BY <1>1, <1>3, <1>4, <1>5 DEF IInv

LEMMA CrashKeeps ==
    ASSUME IInv, NEW p \in Procs, Crash(p)
    PROVE  IInv'
<1>1. /\ todo' = [todo EXCEPT ![p] = <<>>] /\ mem' = [mem EXCEPT ![p] = <<>>]
      /\ pc' = [pc EXCEPT ![p] = "idle"] /\ clean' = [clean EXCEPT ![p] = FALSE]
      /\ UNCHANGED <<note, today, fresh, commands>>
  BY DEF Crash
<1>2. /\ todo \in [Procs -> Seq(Edit)] /\ mem \in [Procs -> Seq(Line)]
      /\ pc \in [Procs -> {"idle", "read", "write"}]
      /\ clean \in [Procs -> BOOLEAN]
  BY DEF IInv, TypeOK
<1>3. /\ todo' \in [Procs -> Seq(Edit)] /\ mem' \in [Procs -> Seq(Line)]
      /\ pc' \in [Procs -> {"idle", "read", "write"}]
      /\ clean' \in [Procs -> BOOLEAN]
  BY <1>1, <1>2
<1>4. /\ todo'[p] = <<>> /\ pc'[p] = "idle" /\ ~clean'[p]
      /\ \A q \in Procs : q # p => /\ todo'[q] = todo[q] /\ mem'[q] = mem[q]
                                   /\ pc'[q] = pc[q] /\ clean'[q] = clean[q]
  BY <1>1, <1>2
<1>5. TypeOK'
  BY <1>1, <1>3 DEF IInv, TypeOK
<1>6. Plans'
  BY <1>1, <1>4 DEF IInv, Plans, OneEdit, TwoEdits
<1>7. Current'
  BY <1>1, <1>4 DEF IInv, Current
<1>8. Cleared'
  BY <1>1, <1>4 DEF IInv, Cleared
<1> QED
  BY <1>5, <1>6, <1>7, <1>8 DEF IInv

LEMMA MidnightKeeps ==
    ASSUME IInv, Midnight
    PROVE  IInv'
<1>1. /\ today < Days /\ today' = today + 1
      /\ \A p \in Procs : pc[p] = "idle" /\ todo[p] = <<>>
      /\ UNCHANGED <<note, todo, mem, pc, fresh, clean, commands>>
  BY DEF IInv, Midnight, Plans
<1>2. TypeOK'
  <2>1. today' \in 1..Days
    BY <1>1, DailyAssumption DEF IInv, TypeOK
  <2> QED
    BY <1>1, <2>1 DEF IInv, TypeOK
<1>3. Plans' /\ Current' /\ Cleared'
  BY <1>1 DEF Plans, Current, Cleared
<1> QED
  BY <1>2, <1>3 DEF IInv

LEMMA StepKeeps == IInv /\ [Next]_vars => IInv'
<1> SUFFICES ASSUME IInv, [Next]_vars PROVE IInv'
  OBVIOUS
<1>1. today \in 1..Days
  BY DEF IInv, TypeOK
<1>2. ASSUME NEW p \in Procs, NEW t \in Tasks, WorkOn(p, t) PROVE IInv'
  <2>1. <<On("mark", t, today)>> \in Seq(Edit)
    BY <1>1, OnIs DEF Kinds
  <2> QED
    BY <1>2, <2>1, BeginKeeps DEF WorkOn
<1>3. ASSUME NEW p \in Procs, NEW t \in Tasks, Complete(p, t) PROVE IInv'
  <2>1. <<On("tick", t, today)>> \in Seq(Edit)
    BY <1>1, OnIs DEF Kinds
  <2> QED
    BY <1>3, <2>1, BeginKeeps DEF Complete
<1>4. ASSUME NEW p \in Procs, NEW t \in Tasks, NEW d \in 1..Days,
             Defer(p, t, d)
      PROVE  IInv'
  <2>1. On("remove", t, today) \in Edit /\ On("add", t, d) \in Edit
    BY <1>1, OnIs DEF Kinds
  <2>2. <<On("remove", t, today), On("add", t, d)>> \in Seq(Edit)
    BY <2>1
  <2> QED
    BY <1>4, <2>2, BeginKeeps DEF Defer
<1>5. ASSUME UNCHANGED vars PROVE IInv'
  <2>1. /\ note' = note /\ today' = today /\ todo' = todo /\ mem' = mem
        /\ pc' = pc /\ fresh' = fresh /\ clean' = clean
        /\ commands' = commands
    BY <1>5 DEF vars
  <2>2. TypeOK'
    BY <2>1 DEF IInv, TypeOK
  <2>3. Plans'
    BY <2>1 DEF IInv, Plans, OneEdit, TwoEdits
  <2>4. Current'
    BY <2>1 DEF IInv, Current
  <2>5. Cleared'
    BY <2>1 DEF IInv, Cleared
  <2> QED
    BY <2>2, <2>3, <2>4, <2>5 DEF IInv
<1>6. ASSUME NEW p \in Procs, Read(p) \/ Write(p) \/ EditFails(p) \/ Crash(p)
      PROVE  IInv'
  BY <1>6, ReadKeeps, WriteKeeps, FailsKeeps, CrashKeeps
<1>7. ASSUME Midnight PROVE IInv'
  BY <1>7, MidnightKeeps
<1> QED
  BY <1>2, <1>3, <1>4, <1>5, <1>6, <1>7 DEF Next

\* The plans and the copies of every command, in every reachable state.
THEOREM Inductive == Spec => []IInv
BY Initially, StepKeeps, PTL DEF Spec

\* Every note stays a sequence of lines and every plan one of edits.
THEOREM TypeCorrect == Spec => []TypeOK
<1>1. IInv => TypeOK
  BY DEF IInv
<1> QED
  BY <1>1, Inductive, PTL

----------------------------------------------------------------------------
(* The properties.                                                         *)

\* A command can simply be given again: no edit of a note that may arise
\* changes anything when it is repeated (workon.go:296, complete.go:346,
\* defer.go:345, defer.go:386).
THEOREM Repeatable == Spec => []RepeatHarmless
<1>1. TypeOK => RepeatHarmless
  <2> SUFFICES ASSUME TypeOK, NEW d \in 1..Days, NEW t \in Tasks,
                      NEW kind \in Kinds
               PROVE  Apply(kind, Apply(kind, note[d], t), t)
                          = Apply(kind, note[d], t)
    BY DEF RepeatHarmless, Kinds
  <2>1. note[d] \in Seq(Line)
    BY DEF TypeOK
  <2> QED
    BY <2>1, ApplyTwice
<1> QED
  BY <1>1, TypeCorrect, PTL

\* Where a note comes from: every note, and every copy about to be edited.
OnceInv == /\ \A d \in 1..Days : Once(note[d])
           /\ \A p \in Procs : Once(mem[p])

LEMMA OnceKept ==
    ASSUME IInv, OnceInv, [Next]_vars
    PROVE  OnceInv'
<1>1. /\ note \in [1..Days -> Seq(Line)] /\ mem \in [Procs -> Seq(Line)]
      /\ todo \in [Procs -> Seq(Edit)] /\ today \in 1..Days
  BY DEF IInv, TypeOK
<1>2. Once(<<>>)
  BY DEF Once
<1>3. CASE note' = note /\ mem' = mem
  BY <1>3 DEF OnceInv
<1>4. ASSUME NEW p \in Procs, note' = note, mem' = [mem EXCEPT ![p] = <<>>]
      PROVE  OnceInv'
  <2>1. \A q \in Procs : mem'[q] = mem[q] \/ mem'[q] = <<>>
    BY <1>1, <1>4
  <2> QED
    BY <1>2, <1>4, <2>1 DEF OnceInv
<1>5. ASSUME NEW p \in Procs, Read(p) PROVE OnceInv'
  <2> DEFINE e == Head(todo[p])
  <2>1. e.day \in 1..Days /\ note' = note
    <3>1. TypeOK /\ Plans /\ pc[p] # "idle" /\ note' = note
      BY <1>5 DEF IInv, Read
    <3> QED
      BY <3>1, NextEdit, EditIs
  <2>2. CASE mem' = [mem EXCEPT ![p] = note[e.day]]
    <3>1. \A q \in Procs : mem'[q] = mem[q] \/ mem'[q] = note[e.day]
      BY <1>1, <2>2
    <3> QED
      BY <2>1, <3>1 DEF OnceInv
  <2>3. CASE mem' = [mem EXCEPT ![p] = <<>>]
    BY <1>4, <2>1, <2>3
  <2> QED
    BY <1>5, <2>2, <2>3 DEF Read, Advance
<1>6. ASSUME NEW p \in Procs, Write(p) PROVE OnceInv'
  <2> DEFINE e == Head(todo[p])
             m == Apply(e.kind, mem[p], e.task)
  <2>1. e.kind \in Kinds /\ e.task \in Tasks /\ e.day \in 1..Days
    <3>1. TypeOK /\ Plans /\ pc[p] # "idle"
      BY <1>6 DEF IInv, Write
    <3> QED
      BY <3>1, NextEdit, EditIs
  <2>2. /\ note' = [note EXCEPT ![e.day] = m]
        /\ mem' = [mem EXCEPT ![p] = <<>>]
    BY <1>6 DEF Write, Advance
  <2>3. Once(m)
    <3> HIDE DEF e
    <3> QED
      BY <1>1, <2>1, ApplyIsNote DEF OnceInv
  <2> HIDE DEF e, m
  <2>4. \A d \in 1..Days : note'[d] = note[d] \/ note'[d] = m
    BY <1>1, <2>2
  <2>5. \A q \in Procs : mem'[q] = mem[q] \/ mem'[q] = <<>>
    BY <1>1, <2>2
  <2> QED
    BY <1>2, <2>3, <2>4, <2>5 DEF OnceInv
<1>7. ASSUME NEW p \in Procs, EditFails(p) \/ Crash(p) PROVE OnceInv'
  BY <1>4, <1>7 DEF EditFails, Crash, Advance
<1>8. ASSUME NEW p \in Procs, NEW t \in Tasks,
             \/ WorkOn(p, t) \/ Complete(p, t)
             \/ \E d \in 1..Days : Defer(p, t, d)
      PROVE  OnceInv'
  BY <1>3, <1>8 DEF WorkOn, Complete, Defer, Begin
<1>9. CASE Midnight
  BY <1>3, <1>9 DEF Midnight
<1>10. CASE UNCHANGED vars
  BY <1>3, <1>10 DEF vars
<1> QED
  BY <1>5, <1>6, <1>7, <1>8, <1>9, <1>10 DEF Next

\* Where no note lists a task twice to begin with, none ever does: the edits
\* of concurrent commands are lost, never doubled (daily_note_entry.go:20,
\* defer.go:378).
THEOREM NeverListedTwice ==
    ASSUME \A n \in Drafts : Once(n)
    PROVE  Spec => []ListedOnce
<1>1. Init => OnceInv
  <2> SUFFICES ASSUME Init PROVE OnceInv
    OBVIOUS
  <2>1. \A d \in 1..Days : note[d] \in Drafts
    BY DEF Init
  <2>2. \A p \in Procs : mem[p] = <<>>
    BY DEF Init
  <2>3. Once(<<>>)
    BY DEF Once
  <2> QED
    BY <2>1, <2>2, <2>3 DEF OnceInv
<1>2. IInv /\ OnceInv /\ [Next]_vars => OnceInv'
  BY OnceKept
<1>3. OnceInv => ListedOnce
  BY DEF OnceInv, ListedOnce, Once, Pending
<1> QED
  BY <1>1, <1>2, <1>3, Inductive, PTL DEF Spec

\* A write from an up to date copy touches the task's own entries only
\* (docs/daily-notes.md:16).
THEOREM OnlyOwnEntries == Spec => OthersKept
<1>1. ASSUME IInv, NEW p \in Procs, pc[p] = "write", fresh[p], Write(p),
             note[Head(todo[p]).day] # <<>>
      PROVE  Others(note'[Head(todo[p]).day], Head(todo[p]).task)
                 = Others(note[Head(todo[p]).day], Head(todo[p]).task)
  <2> DEFINE e == Head(todo[p])
             n == note[e.day]
  <2>1. TypeOK /\ Plans /\ note \in [1..Days -> Seq(Line)]
    BY <1>1 DEF IInv, TypeOK
  <2>2. e.kind \in Kinds /\ e.task \in Tasks /\ e.day \in 1..Days
    BY <1>1, <2>1, NextEdit, EditIs
  <2>3. mem[p] = n
    BY <1>1 DEF IInv, Current
  <2>4. note'[e.day] = Apply(e.kind, n, e.task)
    BY <1>1, <2>1, <2>2, <2>3 DEF Write
  <2>5. n \in Seq(Line) /\ n # <<>>
    BY <1>1, <2>1, <2>2
  <2> HIDE DEF e, n
  <2>6. Others(note'[e.day], e.task) = Others(n, e.task)
    BY <2>2, <2>4, <2>5, ApplyOthers
  <2> QED
    BY <2>6 DEF e, n
<1>2. IInv /\ [Next]_vars =>
        [\A p \in Procs :
         pc[p] = "write" /\ fresh[p] /\ Write(p) =>
            LET e == Head(todo[p])
            IN note[e.day] # <<>> =>
                  Others(note'[e.day], e.task) = Others(note[e.day], e.task)]_vars
  BY <1>1, Zenon
<1> QED
  BY <1>2, Inductive, PTL DEF Spec, OthersKept

\* The notes m after an edit of the note of day d from a copy n: the edit's
\* result, or the copy itself when there was nothing to write.
Edited(m, kind, n, t, d) ==
    /\ m[d] = Apply(kind, n, t) \/ (m[d] = n /\ ~Writes(kind, n, t))
    /\ \A c \in 1..Days : c # d => m[c] = note[c]

\* What a command leaves in the notes when its last edit is done.
LEMMA LastEdit ==
    ASSUME IInv, NEW p \in Procs, clean[p],
           NEW kind \in {"mark", "tick", "add"}, NEW t \in Tasks,
           NEW d \in 1..Days, todo[p] = <<On(kind, t, d)>>,
           NEW m \in [1..Days -> Seq(Line)],
           NEW n \in Seq(Line), Edited(m, kind, n, t, d)
    PROVE  Achieved(On(kind, t, d), m)
<1>0. /\ m[d] = Apply(kind, n, t) \/ (m[d] = n /\ ~Writes(kind, n, t))
      /\ \A c \in 1..Days : c # d => m[c] = note[c]
  BY DEF Edited
<1> DEFINE e == On(kind, t, d)
<1>1. e.kind = kind /\ e.task = t /\ e.day = d
  BY OnIs DEF Kinds
<1> HIDE DEF e
<1>2. CASE kind = "mark"
  <2>1. m[d] # <<>> => \E i \in Owned(m[d], t) :
                           m[d][i].box # " " \/ m[d][i].shape = "indented"
    <3>1. CASE m[d] = Apply(kind, n, t)
      BY <1>2, <3>1, MarkAchieves DEF Apply
    <3>2. CASE m[d] = n /\ ~Writes(kind, n, t)
      <4> SUFFICES ASSUME n # <<>>
                   PROVE  \E i \in Owned(n, t) : n[i].box # " "
        BY <3>2
      <4> DEFINE first == CHOOSE i \in Owned(n, t) :
                              \A j \in Owned(n, t) : i <= j
      <4>1. Owned(n, t) # {} /\ n[first].box # " "
        BY <1>2, <3>2 DEF Writes
      <4>2. first \in Owned(n, t)
        BY <4>1, OwnedAre, FirstPlace
      <4> QED
        BY <4>1, <4>2
    <3> QED
      BY <1>0, <3>1, <3>2
  <2>2. Achieved(e, m)
    BY <1>1, <1>2, <2>1 DEF Achieved
  <2> QED
    BY <2>2 DEF e
<1>3. CASE kind = "tick"
  <2>1. \A i \in Owned(m[d], t) : m[d][i].box = "x"
    <3>1. CASE m[d] = Apply(kind, n, t)
      BY <1>3, <3>1, TickIs DEF Apply
    <3>2. CASE m[d] = n /\ ~Writes(kind, n, t)
      BY <1>3, <3>2 DEF Writes
    <3> QED
      BY <1>0, <3>1, <3>2
  <2>2. Achieved(e, m)
    BY <1>1, <1>3, <2>1 DEF Achieved
  <2> QED
    BY <2>2 DEF e
<1>4. CASE kind = "add"
  <2>1. \E i \in Owned(m[d], t) : m[d][i].box = " "
    <3>1. CASE m[d] = Apply(kind, n, t)
      BY <1>4, <3>1, AddAchieves DEF Apply
    <3>2. CASE m[d] = n /\ ~Writes(kind, n, t)
      BY <1>4, <3>2 DEF Writes, Listed
    <3> QED
      BY <1>0, <3>1, <3>2
  <2>2. d # today => Owned(m[today], t) = {}
    <3>1. Owned(note[today], t) = {}
      BY <1>4 DEF IInv, Cleared
    <3>2. today \in 1..Days
      BY DEF IInv, TypeOK
    <3> QED
      BY <1>0, <3>1, <3>2
  <2>3. Achieved(e, m)
    BY <1>1, <1>4, <2>1, <2>2 DEF Achieved
  <2> QED
    BY <2>3 DEF e
<1> QED
  BY <1>2, <1>3, <1>4

LEMMA LastStep ==
    ASSUME IInv, NEW p \in Procs, clean[p], Len(todo[p]) = 1,
           Read(p) \/ Write(p), pc'[p] = "idle"
    PROVE  Achieved(Head(todo[p]), note')
<1>1. /\ TypeOK /\ Plans /\ pc[p] # "idle" /\ pc \in [Procs -> {"idle", "read", "write"}]
      /\ note \in [1..Days -> Seq(Line)] /\ mem \in [Procs -> Seq(Line)]
  BY DEF IInv, TypeOK, Read, Write
<1>2. PICK kind \in {"mark", "tick", "add"}, t \in Tasks, d \in 1..Days :
          todo[p] = <<On(kind, t, d)>>
  <2>1. ~TwoEdits(p)
    <3>1. \A x, y : Len(<<x, y>>) # 1
      OBVIOUS
    <3> QED
      BY <3>1 DEF TwoEdits
  <2> QED
    BY <1>1, <2>1 DEF Plans, OneEdit
<1> DEFINE e == On(kind, t, d)
<1>3. Head(todo[p]) = e
  BY <1>2
<1>4. e.kind = kind /\ e.task = t /\ e.day = d /\ kind \in Kinds
  BY OnIs DEF Kinds
<1> HIDE DEF e
<1>5. CASE Read(p)
  <2>1. note' = note
    BY <1>5 DEF Read
  <2>2. ~Writes(kind, note[d], t)
    <3> SUFFICES ASSUME Writes(kind, note[d], t) PROVE FALSE
      OBVIOUS
    <3>1. pc' = [pc EXCEPT ![p] = "write"]
      BY <1>3, <1>4, <1>5 DEF Read
    <3> QED
      BY <1>1, <3>1
  <2>3. note[d] \in Seq(Line)
    BY <1>1
  <2>4. Edited(note, kind, note[d], t, d)
    BY <2>2 DEF Edited
  <2>5. Achieved(On(kind, t, d), note)
    BY <1>1, <1>2, <2>3, <2>4, LastEdit
  <2> QED
    BY <1>3, <2>1, <2>5 DEF e
<1>6. CASE Write(p)
  <2> DEFINE m == Apply(kind, mem[p], t)
  <2>1. note' = [note EXCEPT ![d] = m]
    BY <1>3, <1>4, <1>6 DEF Write
  <2>2. mem[p] \in Seq(Line)
    BY <1>1
  <2>3. m \in Seq(Line)
    BY <1>4, <2>2, ApplyIsNote
  <2> HIDE DEF m
  <2>4. /\ note' \in [1..Days -> Seq(Line)] /\ note'[d] = m
        /\ \A c \in 1..Days : c # d => note'[c] = note[c]
    BY <1>1, <2>1, <2>3
  <2>5. Edited(note', kind, mem[p], t, d)
    BY <2>4 DEF Edited, m
  <2>6. ASSUME NEW x \in [1..Days -> Seq(Line)], NEW n \in Seq(Line),
               Edited(x, kind, n, t, d)
        PROVE  Achieved(On(kind, t, d), x)
    BY <1>2, <2>6, LastEdit
  <2>7. Achieved(On(kind, t, d), note')
    BY <2>2, <2>4, <2>5, <2>6
  <2> QED
    BY <1>3, <2>7 DEF e
<1> QED
  BY <1>5, <1>6

\* A command that nothing disturbed leaves the notes as it promises, whatever
\* the commands before it left half done: an undisturbed deferral takes the
\* task from today's note before it lists it on another day (workon.go:296,
\* complete.go:346, defer.go:207).
THEOREM CommandsAchieve == Spec => CommandAchieves
<1>1. IInv /\ [Next]_vars =>
        [\A p \in Procs :
         clean[p] /\ Len(todo[p]) = 1 /\ (Read(p) \/ Write(p))
            /\ pc'[p] = "idle" =>
               Achieved(Head(todo[p]), note')]_vars
  BY LastStep, Zenon
<1> QED
  BY <1>1, Inductive, PTL DEF Spec, CommandAchieves

=============================================================================
