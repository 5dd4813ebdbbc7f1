--------------------------- MODULE LintFix_proofs ---------------------------
(***************************************************************************)
(* What the fixes of lint do to any page: two runs settle it, what a run   *)
(* reports as fixed is gone, a page that parses keeps what it means and    *)
(* gets no new kind of trouble.                                            *)
(*                                                                         *)
(* Every fix but the one for duplicated keys rewrites the text after some  *)
(* colons, words by words: Edited says which, and is all the rules have to *)
(* be compared under.                                                      *)
(***************************************************************************)
EXTENDS LintFix, SelectionFacts

----------------------------------------------------------------------------
(* The first line that fits.                                               *)

LEMMA MinIs ==
    ASSUME NEW K \in SUBSET Nat, IsFiniteSet(K), K # {}
    PROVE  Min(K) \in K /\ \A j \in K : Min(K) <= j
<1>1. \E i \in K : \A j \in K : i <= j
  BY Least
<1> QED
  BY <1>1 DEF Min

LEMMA MinOnly ==
    ASSUME NEW K \in SUBSET Nat, NEW m \in K, \A j \in K : m <= j
    PROVE  Min(K) = m
<1>1. \A i \in K : (\A j \in K : i <= j) => i = m
  OBVIOUS
<1> QED
  BY <1>1 DEF Min

LEMMA FitsIn ==
    ASSUME NEW lines \in Seq(Lines), NEW key, NEW words
    PROVE  /\ Fits(lines, key, words) \in SUBSET DOMAIN lines
           /\ Fits(lines, key, words) \in SUBSET Nat
           /\ IsFiniteSet(Fits(lines, key, words))
<1>1. Len(lines) \in Nat /\ DOMAIN lines = 1..Len(lines)
  OBVIOUS
<1>2. IsFiniteSet(1..Len(lines))
  BY <1>1, FS_Interval
<1>3. Fits(lines, key, words) \in SUBSET DOMAIN lines
  BY DEF Fits
<1>4. IsFiniteSet(Fits(lines, key, words))
  BY <1>1, <1>2, <1>3, FS_Subset
<1> QED
  BY <1>1, <1>3, <1>4

\* The first word is a word, the word of a line that fits, or there is none.
LEMMA FirstWordIs ==
    ASSUME NEW lines \in Seq(Lines), NEW key, NEW words, None \notin words
    PROVE  /\ FirstWord(lines, key, words) = None <=> Fits(lines, key, words) = {}
           /\ Fits(lines, key, words) # {} =>
                  \E i \in Fits(lines, key, words) :
                      /\ FirstWord(lines, key, words) = lines[i].val
                      /\ lines[i].val \in words
                      /\ \A j \in Fits(lines, key, words) : i <= j
<1>1. CASE Fits(lines, key, words) = {}
  BY <1>1 DEF FirstWord
<1>2. CASE Fits(lines, key, words) # {}
  <2> DEFINE m == Min(Fits(lines, key, words))
  <2>1. m \in Fits(lines, key, words) /\ \A j \in Fits(lines, key, words) : m <= j
    BY <1>2, FitsIn, MinIs
  <2>2. FirstWord(lines, key, words) = lines[m].val
    BY <1>2 DEF FirstWord
  <2>3. lines[m].val \in words
    BY <2>1 DEF Fits
  <2> QED
    BY <1>2, <2>1, <2>2, <2>3
<1> QED
  BY <1>1, <1>2

LEMMA NoWord == None \notin StatusWords /\ None \notin PriorityWords
  BY DEF None, StatusWords, CanonicalStatuses, Aliases, PriorityWords, NumberedWords

\* When every line that fits has the same word, it is the first.
LEMMA FirstWordSame ==
    ASSUME NEW lines \in Seq(Lines), NEW key, NEW words, None \notin words,
           NEW word, \A i \in Fits(lines, key, words) : lines[i].val = word
    PROVE  FirstWord(lines, key, words) \in {None, word}
  BY FirstWordIs

LEMMA TextIs ==
    ASSUME NEW p \in PageTexts
    PROVE  /\ p.fm \in Seq(Lines) /\ p.body \in Seq(Lines)
           /\ Text(p) = p.fm \o p.body
<1>1. p.fm \in Seq(Lines)
  BY DEF PageTexts
<1>2. p.body \in Seq(Lines)
  BY DEF PageTexts
<1> QED
  BY <1>1, <1>2 DEF Text

LEMMA ConcatIs ==
    ASSUME NEW S, NEW s \in Seq(S), NEW t \in Seq(S)
    PROVE  /\ s \o t \in Seq(S) /\ Len(s) \in Nat /\ Len(t) \in Nat
           /\ Len(s \o t) = Len(s) + Len(t)
           /\ DOMAIN s = 1..Len(s) /\ DOMAIN t = 1..Len(t)
           /\ DOMAIN (s \o t) = 1..(Len(s) + Len(t))
           /\ \A i \in 1..Len(s) : (s \o t)[i] = s[i]
           /\ \A i \in 1..Len(t) : (s \o t)[Len(s) + i] = t[i]
  OBVIOUS

\* The block comes before the body.
LEMMA FirstInText ==
    ASSUME NEW fm \in Seq(Lines), NEW body \in Seq(Lines), NEW key, NEW words,
           None \notin words, FirstWord(fm, key, words) # None
    PROVE  FirstWord(fm \o body, key, words) = FirstWord(fm, key, words)
<1> DEFINE F == Fits(fm, key, words)
           G == Fits(fm \o body, key, words)
           n == Len(fm)
<1>1. /\ fm \o body \in Seq(Lines) /\ n \in Nat
      /\ DOMAIN fm = 1..n /\ DOMAIN (fm \o body) = 1..(n + Len(body))
      /\ Len(body) \in Nat /\ \A i \in 1..n : (fm \o body)[i] = fm[i]
  BY ConcatIs
<1>3. PICK i \in F : /\ FirstWord(fm, key, words) = fm[i].val
                     /\ \A j \in F : i <= j
  BY FirstWordIs
<1>4. i \in 1..n /\ i \in Nat
  BY <1>1, FitsIn
<1>5. ASSUME NEW j \in 1..n PROVE j \in G <=> j \in F
  <2>1. j \in DOMAIN fm /\ j \in DOMAIN (fm \o body) /\ (fm \o body)[j] = fm[j]
    BY <1>1
  <2> QED
    BY <2>1 DEF Fits
<1>6. G \in SUBSET Nat /\ i \in G /\ G \in SUBSET (1..(n + Len(body)))
  BY <1>1, <1>4, <1>5, FitsIn
<1>7. ASSUME NEW j \in G
      PROVE  i <= j
  <2>1. j \in Nat /\ 1 <= j
    BY <1>1, <1>6
  <2>2. CASE j <= n
    BY <1>1, <1>3, <1>5, <2>1, <2>2
  <2>3. CASE ~(j <= n)
    BY <1>1, <1>4, <2>1, <2>3
  <2> QED
    BY <2>2, <2>3
<1>8. (fm \o body)[i] = fm[i]
  BY <1>1, <1>4
<1> HIDE DEF F, G
<1>9. Min(G) = i
  BY <1>6, <1>7, MinOnly
<1> QED
  BY <1>3, <1>6, <1>8, <1>9 DEF FirstWord, G

----------------------------------------------------------------------------
(* What the fixes do to a line.                                            *)

Priority == "priority"
Status == "status"
Numbers == {"1", "2", "3"}
Truths == {"true", "false"}
Moved == {"in_progress", "completed"}
EditedKeys == {Priority, Status} \cup BooleanKeys

Changed(a, b, keys, from, to) ==
    a.key \in keys /\ b.key = a.key /\ a.val \in from /\ b.val \in to

EditedLine(a, b) ==
    \/ b = a
    \/ Changed(a, b, {Priority}, PriorityWords, Numbers)
    \/ Changed(a, b, BooleanKeys, Quoted, Truths)
    \/ Changed(a, b, {Status}, StatusWords, Moved)

Edited(f, g) ==
    /\ Len(g) = Len(f)
    /\ \A i \in 1..Len(f) : EditedLine(f[i], g[i])

LEMMA KeyNames ==
    /\ Status # Priority /\ Status \notin BooleanKeys /\ Priority \notin BooleanKeys
    /\ Item \notin EditedKeys /\ Box \notin EditedKeys
    /\ Item # Box
  BY DEF Status, Priority, BooleanKeys, EditedKeys, Item, Box

LEMMA WordNames ==
    /\ Moved \in SUBSET StatusWords
    /\ \A w \in PriorityWords \cup Numbers \cup Quoted \cup Truths \cup StatusWords \cup Moved :
           w # ""
    /\ \A w \in Numbers \cup Truths \cup Moved \cup StatusWords \cup PriorityWords :
           w \notin Quoted
    /\ \A w \in PriorityWords : w \notin Numbers
  BY DEF Moved, StatusWords, CanonicalStatuses, Aliases, PriorityWords, NumberedWords,
         Numbers, Quoted, Truths

LEMMA OpenWords ==
    \A w \in Numbers \cup Truths \cup Moved \cup StatusWords \cup PriorityWords :
        /\ w \notin DOMAIN FlowLists
        /\ w \notin DOMAIN Commented
        /\ w \notin Closed
<1>1. (DOMAIN FlowLists \cup DOMAIN Commented)
          \cap (StatusWords \cup PriorityWords \cup Numbers \cup Truths) = {}
  <2>1. Numbers \cup Truths = {"1", "2", "3", "true", "false"}
    BY DEF Numbers, Truths
  <2>2. (DOMAIN FlowLists \cup DOMAIN Commented)
          \cap (StatusWords \cup PriorityWords
                   \cup {"1", "2", "3", "true", "false"}) = {}
    BY LintTexts
  <2> QED
    BY <2>1, <2>2
<1> QED
  BY <1>1, WordNames DEF Closed

\* A line keeps its key; a text that is new goes on and is none of a list, a
\* comment, a quoted word or nothing.
LEMMA LineEdits ==
    ASSUME NEW a, NEW b, EditedLine(a, b)
    PROVE  /\ b.key = a.key
           /\ a.key \notin EditedKeys => b = a
           /\ b.val = "" <=> a.val = ""
           /\ b.val \in Closed => b = a
           /\ a.val \in Closed \ Quoted => b.val \in Closed
  BY KeyNames, WordNames, OpenWords DEF EditedLine, Changed, EditedKeys

LEMMA LineAgain ==
    ASSUME NEW a, NEW b, NEW c, EditedLine(a, b), EditedLine(b, c)
    PROVE  EditedLine(a, c)
  BY KeyNames DEF EditedLine, Changed

LEMMA EditedAgain ==
    ASSUME NEW f, NEW g, NEW h, Edited(f, g), Edited(g, h)
    PROVE  Edited(f, h)
  BY LineAgain DEF Edited

LEMMA NotEdited == ASSUME NEW f PROVE Edited(f, f)
  BY DEF Edited, EditedLine

----------------------------------------------------------------------------
(* What the rules read, before and after.                                  *)

LEMMA EditedPlaces ==
    ASSUME NEW f \in Seq(Lines), NEW g \in Seq(Lines), Edited(f, g)
    PROVE  /\ DOMAIN f = 1..Len(f) /\ DOMAIN g = DOMAIN f /\ Len(g) = Len(f)
           /\ Len(f) \in Nat
           /\ \A i \in DOMAIN f : EditedLine(f[i], g[i]) /\ g[i].key = f[i].key
<1>1. Len(f) \in Nat /\ DOMAIN f = 1..Len(f) /\ DOMAIN g = 1..Len(g)
  OBVIOUS
<1>2. Len(g) = Len(f) /\ \A i \in 1..Len(f) : EditedLine(f[i], g[i])
  BY DEF Edited
<1> QED
  BY <1>1, <1>2, LineEdits

LEMMA SameKeys ==
    ASSUME NEW f \in Seq(Lines), NEW g \in Seq(Lines), Edited(f, g)
    PROVE  /\ \A k : KeyLines(g, k) = KeyLines(f, k)
           /\ Keys(g) = Keys(f)
           /\ Duplicated(g) = Duplicated(f)
           /\ \A i, k : Follows(g, i, k) <=> Follows(f, i, k)
           /\ \A i \in DOMAIN f : Owner(g, i) = Owner(f, i)
<1>1. DOMAIN g = DOMAIN f /\ \A i \in DOMAIN f : g[i].key = f[i].key
  BY EditedPlaces
<1>2. \A k : KeyLines(g, k) = KeyLines(f, k)
  BY <1>1 DEF KeyLines
<1>3. Keys(g) = Keys(f)
  BY <1>1 DEF Keys
<1>4. Duplicated(g) = Duplicated(f)
  BY <1>2, <1>3 DEF Duplicated
<1>5. \A i, k : Follows(g, i, k) <=> Follows(f, i, k)
  BY <1>1 DEF Follows
<1>6. ASSUME NEW i \in DOMAIN f PROVE Owner(g, i) = Owner(f, i)
  <2>1. {j \in 1..i : g[j].key # Item} = {j \in 1..i : f[j].key # Item}
    <3>1. \A j \in 1..i : j \in DOMAIN f
      BY EditedPlaces
    <3> QED
      BY <1>1, <3>1
  <2> QED
    BY <2>1 DEF Owner
<1> QED
  BY <1>2, <1>3, <1>4, <1>5, <1>6

\* The owner of a line is a line above it, or there is none.
LEMMA OwnerIs ==
    ASSUME NEW f \in Seq(Lines), NEW i \in DOMAIN f
    PROVE  Owner(f, i) \in {0} \cup DOMAIN f
<1> DEFINE K == {0} \cup {j \in 1..i : f[j].key # Item}
<1>1. /\ i \in Nat /\ Len(f) \in Nat /\ i <= Len(f) /\ DOMAIN f = 1..Len(f)
      /\ K \in SUBSET ({0} \cup DOMAIN f)
  OBVIOUS
<1>2. K \in SUBSET (0..i)
  BY <1>1
<1>3. IsFiniteSet(K) /\ K \in SUBSET Nat /\ K # {}
  <2>1. IsFiniteSet(0..i)
    BY <1>1, FS_Interval
  <2>2. 0 \in K
    OBVIOUS
  <2> HIDE DEF K
  <2>3. IsFiniteSet(K)
    BY <1>2, <2>1, FS_Subset
  <2>4. K \in SUBSET Nat
    BY <1>1, <1>2
  <2> QED
    BY <2>2, <2>3, <2>4
<1>4. \E m \in K : \A j \in K : j <= m
  BY <1>3, Greatest
<1> HIDE DEF K
<1>5. Max(K) \in K
  BY <1>4 DEF Max
<1>6. Owner(f, i) = Max(K)
  BY DEF Owner, K
<1> QED
  BY <1>1, <1>5, <1>6

\* A text never becomes one that ends a list of items.
LEMMA StillParses ==
    ASSUME NEW f \in Seq(Lines), NEW g \in Seq(Lines), Edited(f, g), Parses(f)
    PROVE  Parses(g)
<1>1. DOMAIN g = DOMAIN f /\ \A i \in DOMAIN f : g[i].key = f[i].key
  BY EditedPlaces
<1>2. KeyLines(g, Item) = KeyLines(f, Item)
  BY SameKeys
<1>3. ASSUME NEW i \in KeyLines(f, Item)
      PROVE  Owner(g, i) # 0 /\ g[Owner(g, i)].val \notin Closed
  <2>1. i \in DOMAIN f
    BY DEF KeyLines
  <2>2. Owner(f, i) # 0 /\ f[Owner(f, i)].val \notin Closed
    BY DEF Parses
  <2>3. Owner(g, i) = Owner(f, i) /\ Owner(f, i) \in DOMAIN f
    BY <2>1, <2>2, SameKeys, OwnerIs
  <2>4. EditedLine(f[Owner(f, i)], g[Owner(f, i)])
    BY <2>3, EditedPlaces
  <2> QED
    BY <2>2, <2>3, <2>4, LineEdits
<1> QED
  BY <1>1, <1>2, <1>3 DEF Parses

\* ... and without a quoted boolean none that did so stops doing it.
LEMMA ParsedBefore ==
    ASSUME NEW f \in Seq(Lines), NEW g \in Seq(Lines), Edited(f, g),
           QuotedBooleans(f) = {}, Parses(g)
    PROVE  Parses(f)
<1>1. DOMAIN g = DOMAIN f /\ \A i \in DOMAIN f : g[i].key = f[i].key
  BY EditedPlaces
<1>2. KeyLines(g, Item) = KeyLines(f, Item)
  BY SameKeys
<1>3. ASSUME NEW i \in KeyLines(f, Item)
      PROVE  Owner(f, i) # 0 /\ f[Owner(f, i)].val \notin Closed
  <2>1. i \in DOMAIN f
    BY DEF KeyLines
  <2>2. Owner(g, i) # 0 /\ g[Owner(g, i)].val \notin Closed
    BY <1>2 DEF Parses
  <2>3. Owner(g, i) = Owner(f, i) /\ Owner(f, i) \in DOMAIN f
    BY <2>1, <2>2, SameKeys, OwnerIs
  <2> DEFINE a == f[Owner(f, i)]
             b == g[Owner(f, i)]
  <2>4. EditedLine(a, b)
    BY <2>3, EditedPlaces
  <2>5. ~(a.key \in BooleanKeys /\ a.val \in Quoted)
    BY <2>3 DEF QuotedBooleans, KeyLines
  <2>6. b = a \/ a.val \notin Quoted
    <3> HIDE DEF a, b
    <3> QED
      BY <2>4, <2>5, WordNames DEF EditedLine, Changed
  <2> QED
    BY <2>2, <2>3, <2>4, <2>6, LineEdits
<1> QED
  BY <1>1, <1>2, <1>3 DEF Parses

LEMMA FewerQuoted ==
    ASSUME NEW f \in Seq(Lines), NEW g \in Seq(Lines), Edited(f, g)
    PROVE  QuotedBooleans(g) \subseteq QuotedBooleans(f)
<1> SUFFICES ASSUME NEW k \in BooleanKeys, NEW i \in KeyLines(g, k), g[i].val \in Quoted
             PROVE  \E j \in KeyLines(f, k) : f[j].val \in Quoted
  BY DEF QuotedBooleans
<1>1. i \in KeyLines(f, k) /\ i \in DOMAIN f
  <2>1. KeyLines(g, k) = KeyLines(f, k)
    BY SameKeys
  <2>2. KeyLines(f, k) \in SUBSET DOMAIN f
    BY DEF KeyLines
  <2> QED
    BY <2>1, <2>2
<1>2. EditedLine(f[i], g[i])
  BY <1>1, EditedPlaces
<1>3. g[i].val \in Closed
  BY DEF Closed
<1> QED
  BY <1>1, <1>2, <1>3, LineEdits

LEMMA Firsts ==
    ASSUME NEW f
    PROVE  /\ FirstStatus(f) = FirstWord(f, Status, StatusWords)
           /\ FirstPriority(f) = FirstWord(f, Priority, PriorityWords)
  BY DEF FirstStatus, FirstPriority, Status, Priority

LEMMA SameFits ==
    ASSUME NEW f \in Seq(Lines), NEW g \in Seq(Lines), NEW key, NEW words,
           Fits(g, key, words) = Fits(f, key, words),
           \A i \in Fits(f, key, words) : g[i].val = f[i].val
    PROVE  FirstWord(g, key, words) = FirstWord(f, key, words)
<1> DEFINE F == Fits(f, key, words)
<1>1. CASE F = {}
  BY <1>1 DEF FirstWord
<1>2. CASE F # {}
  <2>1. Min(F) \in F
    BY <1>2, FitsIn, MinIs
  <2> QED
    BY <1>2, <2>1 DEF FirstWord
<1> QED
  BY <1>1, <1>2

LEMMA OtherWords ==
    ASSUME NEW f \in Seq(Lines), NEW g \in Seq(Lines), Edited(f, g),
           NEW key, key \notin EditedKeys, NEW words
    PROVE  FirstWord(g, key, words) = FirstWord(f, key, words)
<1>1. ASSUME NEW i \in DOMAIN f, f[i].key = key
      PROVE  g[i] = f[i]
  <2>1. EditedLine(f[i], g[i])
    BY EditedPlaces
  <2>2. f[i].key \notin EditedKeys
    BY <1>1
  <2> QED
    BY <2>1, <2>2, LineEdits
<1>2. DOMAIN g = DOMAIN f /\ \A i \in DOMAIN f : g[i].key = f[i].key
  BY EditedPlaces
<1>3. Fits(g, key, words) = Fits(f, key, words)
  BY <1>1, <1>2 DEF Fits
<1>4. \A i \in Fits(f, key, words) : g[i].val = f[i].val
  BY <1>1 DEF Fits
<1> QED
  BY <1>3, <1>4, SameFits

\* A line with a status keeps one.
LEMMA SameStatuses ==
    ASSUME NEW f \in Seq(Lines), NEW g \in Seq(Lines), Edited(f, g)
    PROVE  Fits(g, Status, StatusWords) = Fits(f, Status, StatusWords)
<1>1. DOMAIN g = DOMAIN f
      /\ \A i \in DOMAIN f : EditedLine(f[i], g[i]) /\ g[i].key = f[i].key
  BY EditedPlaces
<1>2. ASSUME NEW i \in DOMAIN f, f[i].key = Status
      PROVE  f[i].val \in StatusWords <=> g[i].val \in StatusWords
  BY <1>1, <1>2, KeyNames, WordNames DEF EditedLine, Changed
<1> QED
  BY <1>1, <1>2 DEF Fits

LEMMA StatusNow ==
    ASSUME NEW f \in Seq(Lines), NEW g \in Seq(Lines), Edited(f, g)
    PROVE  /\ FirstStatus(g) = None <=> FirstStatus(f) = None
           /\ FirstStatus(f) # None =>
                  \E i \in Fits(f, Status, StatusWords) :
                      /\ FirstStatus(f) = f[i].val /\ FirstStatus(g) = g[i].val
                      /\ f[i].val \in StatusWords /\ g[i].val \in StatusWords
                      /\ g[i] # f[i] => g[i].val \in Moved
<1> DEFINE F == Fits(f, Status, StatusWords)
<1>1. Fits(g, Status, StatusWords) = F
  BY SameStatuses
<1>2. /\ FirstStatus(f) = FirstWord(f, Status, StatusWords)
      /\ FirstStatus(g) = FirstWord(g, Status, StatusWords)
  BY Firsts
<1>3. /\ FirstStatus(f) = None <=> F = {}
      /\ FirstStatus(g) = None <=> F = {}
  BY <1>1, <1>2, FirstWordIs, NoWord
<1>4. ASSUME F # {}
      PROVE  \E i \in F :
                 /\ FirstStatus(f) = f[i].val /\ FirstStatus(g) = g[i].val
                 /\ f[i].val \in StatusWords /\ g[i].val \in StatusWords
                 /\ g[i] # f[i] => g[i].val \in Moved
  <2> DEFINE i == Min(F)
  <2>1. i \in F
    BY <1>4, FitsIn, MinIs
  <2>2. FirstStatus(f) = f[i].val /\ FirstStatus(g) = g[i].val
    BY <1>1, <1>2, <1>4 DEF FirstWord
  <2> HIDE DEF i, F
  <2>3. i \in DOMAIN f /\ f[i].key = Status /\ f[i].val \in StatusWords
        /\ g[i].val \in StatusWords
    BY <1>1, <2>1 DEF Fits, F
  <2>4. EditedLine(f[i], g[i])
    BY <2>3, EditedPlaces
  <2>5. g[i] # f[i] => g[i].val \in Moved
    BY <2>3, <2>4, KeyNames DEF EditedLine, Changed
  <2> QED
    BY <2>1, <2>2, <2>3, <2>5
<1> QED
  BY <1>3, <1>4

\* A priority line that still has a word was not touched.
LEMMA FewerPriorities ==
    ASSUME NEW f \in Seq(Lines), NEW g \in Seq(Lines), Edited(f, g)
    PROVE  \A i \in Fits(g, Priority, PriorityWords) :
               i \in Fits(f, Priority, PriorityWords) /\ g[i] = f[i]
<1>1. DOMAIN g = DOMAIN f
      /\ \A i \in DOMAIN f : EditedLine(f[i], g[i]) /\ g[i].key = f[i].key
  BY EditedPlaces
<1>2. ASSUME NEW i \in DOMAIN f, f[i].key = Priority, g[i].val \in PriorityWords
      PROVE  g[i] = f[i]
  BY <1>1, <1>2, KeyNames, WordNames DEF EditedLine, Changed
<1> QED
  BY <1>1, <1>2 DEF Fits

LEMMA SameDates ==
    ASSUME NEW f \in Seq(Lines), NEW g \in Seq(Lines), Edited(f, g),
           NEW i \in DOMAIN f
    PROVE  Dated(g, i) <=> Dated(f, i)
<1>1. /\ Len(g) = Len(f) /\ Len(f) \in Nat /\ DOMAIN f = 1..Len(f)
      /\ \A j \in DOMAIN f : g[j].key = f[j].key /\ (g[j].val = "" <=> f[j].val = "")
  BY EditedPlaces, LineEdits
<1>2. i < Len(f) => i + 1 \in DOMAIN f
  <2>1. Len(f) \in Nat /\ DOMAIN f = 1..Len(f)
    BY <1>1
  <2> QED
    BY <2>1
<1> QED
  BY <1>1, <1>2 DEF Dated

----------------------------------------------------------------------------
(* Pages.                                                                  *)

EditedPage(p, q) ==
    /\ q.head = p.head
    /\ Edited(p.fm, q.fm)
    /\ Edited(p.body, q.body)

LEMMA PageAgain ==
    ASSUME NEW p, NEW q, NEW r, EditedPage(p, q), EditedPage(q, r)
    PROVE  EditedPage(p, r)
  BY EditedAgain DEF EditedPage

LEMMA EditedBoth ==
    ASSUME NEW f \in Seq(Lines), NEW g \in Seq(Lines), Edited(f, g),
           NEW a \in Seq(Lines), NEW b \in Seq(Lines), Edited(a, b)
    PROVE  Edited(f \o a, g \o b)
<1> DEFINE s == f \o a
           t == g \o b
           n == Len(f)
           m == Len(a)
<1>1. /\ n \in Nat /\ m \in Nat /\ Len(g) = n /\ Len(b) = m
      /\ \A i \in 1..n : EditedLine(f[i], g[i])
      /\ \A i \in 1..m : EditedLine(a[i], b[i])
  BY EditedPlaces
<1>2. /\ Len(s) = n + m /\ \A i \in 1..n : s[i] = f[i]
      /\ \A i \in 1..m : s[n + i] = a[i]
  BY ConcatIs
<1>3. /\ Len(t) = n + m /\ \A i \in 1..n : t[i] = g[i]
      /\ \A i \in 1..m : t[n + i] = b[i]
  <2>1. /\ Len(t) = Len(g) + Len(b) /\ \A i \in 1..Len(g) : t[i] = g[i]
        /\ \A i \in 1..Len(b) : t[Len(g) + i] = b[i]
    BY ConcatIs
  <2>2. Len(g) = n /\ Len(b) = m
    BY <1>1
  <2> HIDE DEF n, m, t
  <2> QED
    BY <2>1, <2>2
<1> HIDE DEF s, t, n, m
<1>4. ASSUME NEW i \in 1..(n + m) PROVE EditedLine(s[i], t[i])
  <2>1. CASE i <= n
    BY <1>1, <1>2, <1>3, <2>1
  <2>2. CASE ~(i <= n)
    <3>1. i - n \in 1..m /\ n + (i - n) = i
      BY <1>1, <2>2
    <3>2. s[i] = a[i - n] /\ t[i] = b[i - n]
      BY <1>2, <1>3, <3>1
    <3> QED
      BY <1>1, <3>1, <3>2
  <2> QED
    BY <2>1, <2>2
<1> QED
  BY <1>2, <1>3, <1>4 DEF Edited, s, t

LEMMA EditedText ==
    ASSUME NEW p \in PageTexts, NEW q \in PageTexts, EditedPage(p, q)
    PROVE  /\ Edited(Text(p), Text(q))
           /\ Text(p) \in Seq(Lines) /\ Text(q) \in Seq(Lines)
<1>1. /\ p.fm \in Seq(Lines) /\ p.body \in Seq(Lines) /\ Text(p) = p.fm \o p.body
      /\ q.fm \in Seq(Lines) /\ q.body \in Seq(Lines) /\ Text(q) = q.fm \o q.body
  BY TextIs
<1>2. Edited(p.fm, q.fm) /\ Edited(p.body, q.body)
  BY DEF EditedPage
<1>3. Edited(p.fm \o p.body, q.fm \o q.body)
  BY <1>1, <1>2, EditedBoth
<1>4. p.fm \o p.body \in Seq(Lines) /\ q.fm \o q.body \in Seq(Lines)
  BY <1>1, ConcatIs
<1> QED
  BY <1>1, <1>3, <1>4

LEMMA SameBoxes ==
    ASSUME NEW p \in PageTexts, NEW q \in PageTexts, EditedPage(p, q)
    PROVE  /\ AllChecked(q) <=> AllChecked(p)
           /\ CountsBoxes(q) <=> CountsBoxes(p)
<1> DEFINE s == Text(p)
           t == Text(q)
<1>1. s \in Seq(Lines) /\ t \in Seq(Lines) /\ Edited(s, t)
  BY EditedText
<1>2. DOMAIN t = DOMAIN s /\ \A i \in DOMAIN s : t[i].key = s[i].key
  BY <1>1, EditedPlaces
<1>3. ASSUME NEW i \in DOMAIN s, s[i].key = Box PROVE t[i] = s[i]
  <2>1. EditedLine(s[i], t[i])
    BY <1>1, EditedPlaces
  <2>2. s[i].key \notin EditedKeys
    BY <1>3, KeyNames
  <2> QED
    BY <2>1, <2>2, LineEdits
<1> HIDE DEF s, t
<1>4. {i \in DOMAIN t : t[i].key = Box /\ t[i].val # "/"}
          = {i \in DOMAIN s : s[i].key = Box /\ s[i].val # "/"}
  BY <1>2, <1>3
<1>5. Boxes(q) = Boxes(p)
  BY <1>4 DEF Boxes, s, t
<1>6. \A i \in Boxes(p) : t[i] = s[i]
  BY <1>3 DEF Boxes, s
<1>7. AllChecked(q) <=> AllChecked(p)
  BY <1>5, <1>6 DEF AllChecked, s, t
<1>8. p.fm \in Seq(Lines) /\ q.fm \in Seq(Lines) /\ Edited(p.fm, q.fm)
  BY TextIs DEF EditedPage
<1>9. /\ Keys(q.fm) = Keys(p.fm)
      /\ FirstStatus(q.fm) = None <=> FirstStatus(p.fm) = None
  BY <1>8, SameKeys, StatusNow
<1> QED
  BY <1>5, <1>7, <1>9 DEF CountsBoxes

----------------------------------------------------------------------------
(* A line rewritten for its word.                                          *)

LEMMA RewrittenIs ==
    ASSUME NEW lines \in Seq(Lines), NEW key \in Texts, NEW words,
           NEW new \in Texts
    PROVE  /\ Rewritten(lines, key, words, new) \in Seq(Lines)
           /\ Len(Rewritten(lines, key, words, new)) = Len(lines)
           /\ DOMAIN Rewritten(lines, key, words, new) = DOMAIN lines
           /\ \A i \in DOMAIN lines :
                  Rewritten(lines, key, words, new)[i] =
                      IF lines[i].key = key /\ lines[i].val \in words
                      THEN Line(key, new) ELSE lines[i]
<1> DEFINE R == Rewritten(lines, key, words, new)
<1>1. Len(lines) \in Nat /\ DOMAIN lines = 1..Len(lines)
      /\ \A i \in DOMAIN lines : lines[i] \in Lines
  OBVIOUS
<1>2. Line(key, new) \in Lines
  BY DEF Line, Lines
<1>3. /\ DOMAIN R = DOMAIN lines
      /\ R = [i \in DOMAIN lines |-> R[i]]
      /\ \A i \in DOMAIN lines :
             R[i] = IF lines[i].key = key /\ lines[i].val \in words
                    THEN Line(key, new) ELSE lines[i]
  BY DEF Rewritten
<1>4. \A i \in DOMAIN lines : R[i] \in Lines
  BY <1>1, <1>2, <1>3
<1> HIDE DEF R
<1>5. R \in Seq(Lines) /\ Len(R) = Len(lines)
  BY <1>1, <1>3, <1>4
<1> QED
  BY <1>3, <1>5 DEF R

LEMMA RewrittenEdited ==
    ASSUME NEW lines \in Seq(Lines), NEW key \in Texts, NEW words,
           NEW new \in Texts,
           \/ key = Priority /\ words = PriorityWords /\ new \in Numbers
           \/ key = Status /\ words = StatusWords /\ new \in Moved
    PROVE  Edited(lines, Rewritten(lines, key, words, new))
<1> DEFINE R == Rewritten(lines, key, words, new)
<1>1. /\ Len(R) = Len(lines) /\ 1..Len(lines) = DOMAIN lines
      /\ \A i \in DOMAIN lines :
             R[i] = IF lines[i].key = key /\ lines[i].val \in words
                    THEN Line(key, new) ELSE lines[i]
  BY RewrittenIs
<1>2. Line(key, new).key = key /\ Line(key, new).val = new
  BY DEF Line
<1>3. ASSUME NEW i \in DOMAIN lines PROVE EditedLine(lines[i], R[i])
  <2>1. CASE lines[i].key = key /\ lines[i].val \in words
    BY <1>1, <1>2, <2>1 DEF EditedLine, Changed
  <2>2. CASE ~(lines[i].key = key /\ lines[i].val \in words)
    BY <1>1, <2>2 DEF EditedLine
  <2> QED
    BY <2>1, <2>2
<1> QED
  BY <1>1, <1>3 DEF Edited

\* The words of another key stay.
LEMMA RewrittenLeaves ==
    ASSUME NEW lines \in Seq(Lines), NEW key \in Texts, NEW words,
           NEW new \in Texts, NEW other, other # key, NEW others
    PROVE  FirstWord(Rewritten(lines, key, words, new), other, others)
               = FirstWord(lines, other, others)
<1> DEFINE R == Rewritten(lines, key, words, new)
<1>1. /\ DOMAIN R = DOMAIN lines /\ R \in Seq(Lines)
      /\ \A i \in DOMAIN lines :
             R[i] = IF lines[i].key = key /\ lines[i].val \in words
                    THEN Line(key, new) ELSE lines[i]
  BY RewrittenIs
<1>2. Line(key, new).key = key
  BY DEF Line
<1>3. \A i \in DOMAIN lines : /\ R[i].key = lines[i].key
                              /\ lines[i].key = other => R[i] = lines[i]
  BY <1>1, <1>2
<1> HIDE DEF R
<1>4. Fits(R, other, others) = Fits(lines, other, others)
  BY <1>1, <1>3 DEF Fits
<1>5. \A i \in Fits(lines, other, others) : R[i].val = lines[i].val
  BY <1>3 DEF Fits
<1> QED
  BY <1>1, <1>4, <1>5, SameFits DEF R

\* Every word of the key is the new one, when it is such a word, and gone else.
LEMMA RewrittenAll ==
    ASSUME NEW lines \in Seq(Lines), NEW key \in Texts, NEW words,
           NEW new \in Texts
    PROVE  \A i \in Fits(Rewritten(lines, key, words, new), key, words) :
               Rewritten(lines, key, words, new)[i].val = new /\ new \in words
<1> DEFINE R == Rewritten(lines, key, words, new)
<1>1. /\ DOMAIN R = DOMAIN lines
      /\ \A i \in DOMAIN lines :
             R[i] = IF lines[i].key = key /\ lines[i].val \in words
                    THEN Line(key, new) ELSE lines[i]
  BY RewrittenIs
<1>2. Line(key, new).val = new
  BY DEF Line
<1> HIDE DEF R
<1>3. \A i \in Fits(R, key, words) : R[i].val = new /\ new \in words
  BY <1>1, <1>2 DEF Fits
<1> QED
  BY <1>3 DEF R

LEMMA RewriteIs ==
    ASSUME NEW p \in PageTexts, NEW key \in Texts, NEW words, NEW new \in Texts
    PROVE  /\ Rewrite(p, key, words, new) \in PageTexts
           /\ Rewrite(p, key, words, new).head = p.head
           /\ Rewrite(p, key, words, new).fm = Rewritten(p.fm, key, words, new)
           /\ Rewrite(p, key, words, new).body = Rewritten(p.body, key, words, new)
<1>1. p.fm \in Seq(Lines) /\ p.body \in Seq(Lines)
  BY TextIs
<1>2. /\ Rewritten(p.fm, key, words, new) \in Seq(Lines)
      /\ Rewritten(p.body, key, words, new) \in Seq(Lines)
  BY <1>1, RewrittenIs
<1> QED
  BY <1>2 DEF Rewrite, PageTexts

----------------------------------------------------------------------------
(* The fixes, one by one.                                                  *)

InProgress == "in_progress"
Over == "completed"
Unstarted == {"next", "backlog"}

LEMMA StatusNames ==
    /\ InProgress \in Moved /\ Over \in Moved /\ Moved = {InProgress, Over}
    /\ InProgress # Over /\ InProgress \notin Unstarted /\ Over \notin Unstarted
    /\ None # InProgress /\ None # Over /\ None \notin Unstarted
    /\ Unstarted \in SUBSET StatusWords
    /\ InProgress \in Texts /\ Over \in Texts
    /\ Status \in Texts /\ Priority \in Texts
<1>1. /\ InProgress \in Moved /\ Over \in Moved /\ Moved = {InProgress, Over}
      /\ Unstarted \in SUBSET StatusWords
  BY DEF InProgress, Over, Moved, Unstarted, StatusWords, CanonicalStatuses
<1>2. /\ InProgress # Over /\ InProgress \notin Unstarted /\ Over \notin Unstarted
      /\ None # InProgress /\ None # Over /\ None \notin Unstarted
  BY DEF InProgress, Over, Unstarted, None
<1>3. InProgress \in Texts /\ Over \in Texts
  BY LintTexts DEF InProgress, Over
<1>4. Status \in Texts /\ Priority \in Texts
  BY LintTexts DEF Status, Priority
<1> QED
  BY <1>1, <1>2, <1>3, <1>4

LEMMA UnquotedIs ==
    ASSUME NEW p \in PageTexts
    PROVE  /\ Unquoted(p) \in PageTexts
           /\ EditedPage(p, Unquoted(p))
           /\ QuotedBooleans(Unquoted(p).fm) = {}
           /\ Unquoted(p).body = p.body
           /\ \A i \in DOMAIN p.fm :
                  p.fm[i].key \notin BooleanKeys => Unquoted(p).fm[i] = p.fm[i]
<1> DEFINE f == p.fm
           g == [i \in DOMAIN f |->
                    IF f[i].key \in BooleanKeys /\ f[i].val \in Quoted
                    THEN Line(f[i].key, Unquote(f[i].val)) ELSE f[i]]
<1>1. f \in Seq(Lines) /\ p.body \in Seq(Lines)
  BY TextIs
<1>2. Unquoted(p) = [p EXCEPT !.fm = g]
  BY DEF Unquoted
<1>3. Unquoted(p).fm = g /\ Unquoted(p).body = p.body /\ Unquoted(p).head = p.head
  BY <1>2 DEF PageTexts
<1>4. \A v : Unquote(v) \in Truths /\ Unquote(v) \in Texts
  <2>1. \A v : Unquote(v) = "true" \/ Unquote(v) = "false"
    BY DEF Unquote
  <2>2. "true" \in Truths /\ "false" \in Truths
    BY DEF Truths
  <2>3. "true" \in Texts /\ "false" \in Texts
    BY LintTexts
  <2> QED
    BY <2>1, <2>2, <2>3
<1>5. /\ DOMAIN g = DOMAIN f /\ g = [i \in DOMAIN f |-> g[i]]
      /\ \A i \in DOMAIN f :
             g[i] = IF f[i].key \in BooleanKeys /\ f[i].val \in Quoted
                    THEN Line(f[i].key, Unquote(f[i].val)) ELSE f[i]
  OBVIOUS
<1> HIDE DEF g, f
<1>6. Len(f) \in Nat /\ DOMAIN f = 1..Len(f) /\ \A i \in DOMAIN f : f[i] \in Lines
  BY <1>1
<1>7. \A i \in DOMAIN f : g[i] \in Lines
  <2> SUFFICES ASSUME NEW i \in DOMAIN f PROVE g[i] \in Lines
    OBVIOUS
  <2>1. f[i] \in Lines /\ f[i].key \in Texts
    BY <1>6 DEF Lines
  <2>2. Line(f[i].key, Unquote(f[i].val)) \in Lines
    BY <2>1, <1>4 DEF Line, Lines
  <2> QED
    BY <2>1, <2>2, <1>5
<1>8. g \in Seq(Lines) /\ Len(g) = Len(f)
  BY <1>5, <1>6, <1>7
<1>9. Unquoted(p) \in PageTexts
  BY <1>2, <1>8 DEF PageTexts
<1>10. \A k, v : Line(k, v).key = k /\ Line(k, v).val = v
  BY DEF Line
<1>11. Edited(f, g)
  <2>1. ASSUME NEW i \in DOMAIN f PROVE EditedLine(f[i], g[i])
    BY <1>4, <1>5, <1>10 DEF EditedLine, Changed
  <2> QED
    BY <1>6, <1>8, <2>1 DEF Edited
<1>12. QuotedBooleans(g) = {}
  <2> SUFFICES ASSUME NEW k \in BooleanKeys, NEW i \in KeyLines(g, k),
                      g[i].val \in Quoted
               PROVE  FALSE
    BY DEF QuotedBooleans
  <2>1. i \in DOMAIN f /\ g[i].key = k
    BY <1>5 DEF KeyLines
  <2>2. EditedLine(f[i], g[i])
    BY <1>6, <1>8, <1>11, <2>1 DEF Edited
  <2>3. f[i].key = k
    BY <2>1, <2>2, LineEdits
  <2>4. Truths \cap Quoted = {}
    BY WordNames
  <2> QED
    BY <1>4, <1>5, <1>10, <2>1, <2>3, <2>4
<1>13. Edited(p.body, p.body)
  BY NotEdited
<1>14. \A i \in DOMAIN f : f[i].key \notin BooleanKeys => g[i] = f[i]
  BY <1>5
<1> QED
  BY <1>3, <1>9, <1>11, <1>12, <1>13, <1>14 DEF EditedPage, f

Kept(f) == {i \in DOMAIN f : f[i].key = Item \/ ~Follows(f, i, f[i].key)}

LEMMA LastOnesAre ==
    ASSUME NEW f \in Seq(Lines)
    PROVE  /\ LastOnes(f) = Selected(f, Kept(f))
           /\ Kept(f) \in SUBSET DOMAIN f
           /\ LastOnes(f) \in Seq(Lines)
           /\ Len(LastOnes(f)) = Cardinality(Kept(f))
           /\ Cardinality(Kept(f)) \in Nat
           /\ DOMAIN LastOnes(f) = 1..Cardinality(Kept(f))
           /\ \A i \in 1..Cardinality(Kept(f)) :
                  Nth(Kept(f), i) \in Kept(f) /\ LastOnes(f)[i] = f[Nth(Kept(f), i)]
           /\ \A i, j \in 1..Cardinality(Kept(f)) :
                  i < j => Nth(Kept(f), i) < Nth(Kept(f), j)
<1> DEFINE K == Kept(f)
<1>1. LastOnes(f) = Selected(f, K)
  BY DEF LastOnes, Kept
<1>2. K \in SUBSET DOMAIN f
  BY DEF Kept
<1> HIDE DEF K
<1>3. /\ Selected(f, K) \in Seq(Lines)
      /\ Len(Selected(f, K)) = Cardinality(K) /\ Cardinality(K) \in Nat
      /\ DOMAIN Selected(f, K) = 1..Cardinality(K)
      /\ \A i \in 1..Cardinality(K) :
             Nth(K, i) \in K /\ Selected(f, K)[i] = f[Nth(K, i)]
      /\ \A i, j \in 1..Cardinality(K) : i < j => Nth(K, i) < Nth(K, j)
  BY <1>2, SelectedIs
<1> QED
  BY <1>1, <1>2, <1>3 DEF K

LEMMA NothingTwice ==
    ASSUME NEW f \in Seq(Lines)
    PROVE  /\ Duplicated(LastOnes(f)) = {}
           /\ QuotedBooleans(LastOnes(f)) \subseteq QuotedBooleans(f)
<1> DEFINE K == Kept(f)
           n == Cardinality(K)
           L == LastOnes(f)
<1>1. /\ K \in SUBSET DOMAIN f /\ n \in Nat /\ DOMAIN L = 1..n
      /\ \A i \in 1..n : Nth(K, i) \in K /\ L[i] = f[Nth(K, i)]
      /\ \A i, j \in 1..n : i < j => Nth(K, i) < Nth(K, j)
  BY LastOnesAre
<1>2. \A i \in K : f[i].key = Item \/ ~Follows(f, i, f[i].key)
  BY DEF Kept
<1> HIDE DEF K, n, L
<1>3. ASSUME NEW k, k # Item, NEW i \in KeyLines(L, k), NEW j \in KeyLines(L, k),
             i < j
      PROVE  FALSE
  <2>1. i \in 1..n /\ j \in 1..n /\ L[i].key = k /\ L[j].key = k
    BY <1>1 DEF KeyLines
  <2>2. /\ Nth(K, i) \in K /\ f[Nth(K, i)].key = k
        /\ Nth(K, j) \in DOMAIN f /\ f[Nth(K, j)].key = k
        /\ Nth(K, i) < Nth(K, j)
    BY <1>1, <1>3, <2>1
  <2>3. Follows(f, Nth(K, i), k)
    BY <2>2 DEF Follows
  <2> QED
    BY <1>2, <1>3, <2>2, <2>3
<1>4. ASSUME NEW k \in Keys(L), NEW i \in KeyLines(L, k), NEW j \in KeyLines(L, k)
      PROVE  i = j
  <2>1. i \in Nat /\ j \in Nat
    BY <1>1 DEF KeyLines
  <2>2. k # Item
    BY DEF Keys
  <2>3. ~(i < j) /\ ~(j < i)
    BY <1>3, <2>2
  <2> QED
    BY <2>1, <2>3
<1>5. Duplicated(L) = {}
  BY <1>4 DEF Duplicated
<1>6. ASSUME NEW k, NEW i \in KeyLines(L, k)
      PROVE  Nth(K, i) \in KeyLines(f, k) /\ f[Nth(K, i)] = L[i]
  BY <1>1 DEF KeyLines
<1>7. QuotedBooleans(L) \subseteq QuotedBooleans(f)
  BY <1>6 DEF QuotedBooleans
<1> QED
  BY <1>5, <1>7 DEF L

LEMMA SameLastOnes ==
    ASSUME NEW f \in Seq(Lines), NEW g \in Seq(Lines), Edited(f, g)
    PROVE  Edited(LastOnes(f), LastOnes(g))
<1>1. /\ DOMAIN g = DOMAIN f
      /\ \A i \in DOMAIN f : EditedLine(f[i], g[i]) /\ g[i].key = f[i].key
      /\ \A i, k : Follows(g, i, k) <=> Follows(f, i, k)
  BY EditedPlaces, SameKeys
<1>2. Kept(g) = Kept(f)
  BY <1>1 DEF Kept
<1> DEFINE n == Cardinality(Kept(f))
<1>3. /\ Len(LastOnes(f)) = n /\ n \in Nat /\ Kept(f) \in SUBSET DOMAIN f
      /\ \A i \in 1..n : Nth(Kept(f), i) \in Kept(f)
                         /\ LastOnes(f)[i] = f[Nth(Kept(f), i)]
  BY LastOnesAre
<1>4. /\ Len(LastOnes(g)) = n
      /\ \A i \in 1..n : LastOnes(g)[i] = g[Nth(Kept(f), i)]
  BY <1>2, LastOnesAre
<1>5. \A i \in 1..n : EditedLine(LastOnes(f)[i], LastOnes(g)[i])
  BY <1>1, <1>3, <1>4
<1> QED
  BY <1>3, <1>4, <1>5 DEF Edited

\* Afterwards no key comes twice, unless what would be left does not parse.
LEMMA DeduplicatedIs ==
    ASSUME NEW p \in PageTexts
    PROVE  /\ Deduplicated(p) \in PageTexts
           /\ Deduplicated(p).head = p.head
           /\ Deduplicated(p).body = p.body
           /\ QuotedBooleans(Deduplicated(p).fm) \subseteq QuotedBooleans(p.fm)
           /\ \/ Deduplicated(p) = p /\ ~Parses(LastOnes(p.fm))
              \/ Duplicated(Deduplicated(p).fm) = {}
<1>1. p.fm \in Seq(Lines)
  BY TextIs
<1>2. LastOnes(p.fm) \in Seq(Lines)
  BY <1>1, LastOnesAre
<1>3. CASE Parses(LastOnes(p.fm))
  <2>1. Deduplicated(p) = [p EXCEPT !.fm = LastOnes(@)]
    BY <1>3 DEF Deduplicated
  <2>2. Deduplicated(p) \in PageTexts /\ Deduplicated(p).fm = LastOnes(p.fm)
        /\ Deduplicated(p).head = p.head /\ Deduplicated(p).body = p.body
    BY <1>2, <2>1 DEF PageTexts
  <2> QED
    BY <1>1, <2>2, NothingTwice
<1>4. CASE ~Parses(LastOnes(p.fm))
  BY <1>4 DEF Deduplicated
<1> QED
  BY <1>3, <1>4

\* Rewriting the priorities or the statuses of a page.
LEMMA RewriteEdits ==
    ASSUME NEW p \in PageTexts, NEW key \in Texts, NEW words, NEW new \in Texts,
           \/ key = Priority /\ words = PriorityWords /\ new \in Numbers
           \/ key = Status /\ words = StatusWords /\ new \in Moved
    PROVE  /\ Rewrite(p, key, words, new) \in PageTexts
           /\ EditedPage(p, Rewrite(p, key, words, new))
           /\ \A other, others : other # key =>
                  FirstWord(Rewrite(p, key, words, new).fm, other, others)
                      = FirstWord(p.fm, other, others)
           /\ \A i \in Fits(Rewrite(p, key, words, new).fm, key, words) :
                  Rewrite(p, key, words, new).fm[i].val = new /\ new \in words
           /\ \A i \in DOMAIN p.fm :
                  \/ Rewrite(p, key, words, new).fm[i] = p.fm[i]
                  \/ /\ p.fm[i].key = key
                     /\ Rewrite(p, key, words, new).fm[i].val = new
<1> DEFINE q == Rewrite(p, key, words, new)
           R == Rewritten(p.fm, key, words, new)
<1>1. /\ q \in PageTexts /\ q.head = p.head /\ q.fm = R
      /\ q.body = Rewritten(p.body, key, words, new)
  BY RewriteIs
<1>2. p.fm \in Seq(Lines) /\ p.body \in Seq(Lines)
  BY TextIs
<1>3. Edited(p.fm, R) /\ Edited(p.body, Rewritten(p.body, key, words, new))
  BY <1>2, RewrittenEdited
<1>4. \A other, others : other # key =>
          FirstWord(R, other, others) = FirstWord(p.fm, other, others)
  BY <1>2, RewrittenLeaves
<1>5. \A i \in Fits(R, key, words) : R[i].val = new /\ new \in words
  BY <1>2, RewrittenAll
<1>6. \A i \in DOMAIN p.fm :
          R[i] = IF p.fm[i].key = key /\ p.fm[i].val \in words
                 THEN Line(key, new) ELSE p.fm[i]
  BY <1>2, RewrittenIs
<1>7. Line(key, new).val = new
  BY DEF Line
<1>8. \A i \in DOMAIN p.fm : R[i] = p.fm[i] \/ (p.fm[i].key = key /\ R[i].val = new)
  BY <1>6, <1>7
<1> HIDE DEF q, R
<1>9. EditedPage(p, q)
  BY <1>1, <1>3 DEF EditedPage
<1> QED
  BY <1>1, <1>4, <1>5, <1>8, <1>9 DEF q

\* A word read in the block is the first of the text.
LEMMA FirstsOfText ==
    ASSUME NEW p \in PageTexts
    PROVE  /\ FirstStatus(p.fm) # None => FirstStatus(Text(p)) = FirstStatus(p.fm)
           /\ FirstPriority(p.fm) # None =>
                  FirstPriority(Text(p)) = FirstPriority(p.fm)
<1>1. p.fm \in Seq(Lines) /\ p.body \in Seq(Lines) /\ Text(p) = p.fm \o p.body
  BY TextIs
<1>2. /\ FirstWord(p.fm, Status, StatusWords) # None =>
             FirstWord(Text(p), Status, StatusWords)
                 = FirstWord(p.fm, Status, StatusWords)
      /\ FirstWord(p.fm, Priority, PriorityWords) # None =>
             FirstWord(Text(p), Priority, PriorityWords)
                 = FirstWord(p.fm, Priority, PriorityWords)
  BY <1>1, NoWord, FirstInText
<1> QED
  BY <1>2, Firsts

LEMMA NumberIs ==
    ASSUME NEW word \in NumberedWords
    PROVE  PriorityOf(word) \in Numbers /\ PriorityOf(word) \in Texts
<1>1. PriorityOf(word) = "1" \/ PriorityOf(word) = "2" \/ PriorityOf(word) = "3"
  BY DEF PriorityOf, NumberedWords
<1>2. {"1", "2", "3"} \in SUBSET Texts
  BY LintTexts
<1> QED
  BY <1>1, <1>2 DEF Numbers

LEMMA NumberedIs ==
    ASSUME NEW p \in PageTexts
    PROVE  /\ Numbered(p) \in PageTexts
           /\ EditedPage(p, Numbered(p))
           /\ FirstStatus(Numbered(p).fm) = FirstStatus(p.fm)
           /\ FirstPriority(Text(p)) \notin NumberedWords => Numbered(p) = p
           /\ FirstPriority(Text(p)) \in NumberedWords =>
                  Fits(Numbered(p).fm, Priority, PriorityWords) = {}
           /\ \A i \in DOMAIN p.fm :
                  p.fm[i].key # Priority => Numbered(p).fm[i] = p.fm[i]
<1> DEFINE word == FirstPriority(Text(p))
<1>1. CASE word \in NumberedWords
  <2> DEFINE new == PriorityOf(word)
             q == Rewrite(p, Priority, PriorityWords, new)
  <2>1. Numbered(p) = q
    BY <1>1 DEF Numbered, Priority
  <2>2. new \in Numbers /\ new \in Texts /\ Priority \in Texts
    BY <1>1, NumberIs, StatusNames
  <2> HIDE DEF new
  <2>3. /\ q \in PageTexts /\ EditedPage(p, q)
        /\ \A other, others : other # Priority =>
               FirstWord(q.fm, other, others) = FirstWord(p.fm, other, others)
        /\ \A i \in Fits(q.fm, Priority, PriorityWords) : new \in PriorityWords
        /\ \A i \in DOMAIN p.fm : q.fm[i] = p.fm[i] \/ p.fm[i].key = Priority
    BY <2>2, RewriteEdits
  <2>4. FirstStatus(q.fm) = FirstStatus(p.fm)
    BY <2>3, Firsts, KeyNames
  <2>5. Fits(q.fm, Priority, PriorityWords) = {}
    BY <2>2, <2>3, WordNames
  <2> HIDE DEF q
  <2> QED
    BY <1>1, <2>1, <2>3, <2>4, <2>5
<1>2. CASE word \notin NumberedWords
  <2>1. Numbered(p) = p
    BY <1>2 DEF Numbered
  <2>2. EditedPage(p, p)
    BY NotEdited DEF EditedPage
  <2> QED
    BY <1>2, <2>1, <2>2
<1> QED
  BY <1>1, <1>2

\* A page whose statuses were rewritten has that status or none.
LEMMA StatusSet ==
    ASSUME NEW p \in PageTexts, NEW new \in Moved
    PROVE  LET q == Rewrite(p, Status, StatusWords, new)
           IN  /\ q \in PageTexts
               /\ EditedPage(p, q)
               /\ FirstPriority(q.fm) = FirstPriority(p.fm)
               /\ FirstStatus(q.fm) = None <=> FirstStatus(p.fm) = None
               /\ FirstStatus(q.fm) \in {None, new}
               /\ \A i \in DOMAIN p.fm :
                      \/ q.fm[i] = p.fm[i]
                      \/ p.fm[i].key = Status /\ q.fm[i].val = new
<1> DEFINE q == Rewrite(p, Status, StatusWords, new)
<1>1. Status \in Texts /\ new \in Texts
  BY StatusNames
<1>2. /\ q \in PageTexts /\ EditedPage(p, q)
      /\ \A other, others : other # Status =>
             FirstWord(q.fm, other, others) = FirstWord(p.fm, other, others)
      /\ \A i \in Fits(q.fm, Status, StatusWords) : q.fm[i].val = new
      /\ \A i \in DOMAIN p.fm :
             q.fm[i] = p.fm[i] \/ (p.fm[i].key = Status /\ q.fm[i].val = new)
  BY <1>1, RewriteEdits
<1> HIDE DEF q
<1>3. FirstPriority(q.fm) = FirstPriority(p.fm)
  BY <1>2, Firsts, KeyNames
<1>4. p.fm \in Seq(Lines) /\ q.fm \in Seq(Lines) /\ Edited(p.fm, q.fm)
  BY <1>2, TextIs DEF EditedPage
<1>5. FirstStatus(q.fm) = None <=> FirstStatus(p.fm) = None
  BY <1>4, StatusNow
<1>6. FirstStatus(q.fm) \in {None, new}
  <2>1. FirstWord(q.fm, Status, StatusWords) \in {None, new}
    BY <1>2, <1>4, FirstWordSame, NoWord
  <2> QED
    BY <2>1, Firsts
<1> QED
  BY <1>2, <1>3, <1>5, <1>6 DEF q

LEMMA PromotedIs ==
    ASSUME NEW p \in PageTexts
    PROVE  /\ Promoted(p) \in PageTexts
           /\ EditedPage(p, Promoted(p))
           /\ FirstPriority(Promoted(p).fm) = FirstPriority(p.fm)
           /\ FirstStatus(Text(p)) \notin Unstarted => Promoted(p) = p
           /\ FirstStatus(Text(p)) \in Unstarted =>
                  /\ FirstStatus(Promoted(p).fm) \in {None, InProgress}
                  /\ FirstStatus(Promoted(p).fm) = None <=> FirstStatus(p.fm) = None
           /\ \A i \in DOMAIN p.fm :
                  \/ Promoted(p).fm[i] = p.fm[i]
                  \/ p.fm[i].key = Status /\ Promoted(p).fm[i].val = InProgress
<1>1. CASE FirstStatus(Text(p)) \in Unstarted
  <2> DEFINE q == Rewrite(p, Status, StatusWords, InProgress)
  <2>1. Promoted(p) = q
    BY <1>1 DEF Promoted, Unstarted, Status, InProgress
  <2>2. /\ q \in PageTexts /\ EditedPage(p, q)
        /\ FirstPriority(q.fm) = FirstPriority(p.fm)
        /\ FirstStatus(q.fm) = None <=> FirstStatus(p.fm) = None
        /\ FirstStatus(q.fm) \in {None, InProgress}
        /\ \A i \in DOMAIN p.fm :
               q.fm[i] = p.fm[i] \/ (p.fm[i].key = Status /\ q.fm[i].val = InProgress)
    BY StatusNames, StatusSet
  <2> HIDE DEF q
  <2> QED
    BY <1>1, <2>1, <2>2
<1>2. CASE FirstStatus(Text(p)) \notin Unstarted
  <2>1. Promoted(p) = p
    BY <1>2 DEF Promoted, Unstarted
  <2>2. EditedPage(p, p)
    BY NotEdited DEF EditedPage
  <2> QED
    BY <1>2, <2>1, <2>2
<1> QED
  BY <1>1, <1>2

LEMMA CompletedIs ==
    ASSUME NEW p \in PageTexts
    PROVE  /\ Completed(p) \in PageTexts
           /\ EditedPage(p, Completed(p))
           /\ FirstPriority(Completed(p).fm) = FirstPriority(p.fm)
           /\ ~Finished(p) => Completed(p) = p
           /\ Finished(p) => FirstStatus(Completed(p).fm) \in {None, Over}
           /\ FirstStatus(Completed(p).fm) = None <=> FirstStatus(p.fm) = None
           /\ \A i \in DOMAIN p.fm :
                  \/ Completed(p).fm[i] = p.fm[i]
                  \/ /\ p.fm[i].key = Status
                     /\ Completed(p).fm[i].val = Over
                     /\ Finished(p)
<1>1. CASE Finished(p)
  <2> DEFINE q == Rewrite(p, Status, StatusWords, Over)
  <2>1. Completed(p) = q
    BY <1>1 DEF Completed, Status, Over
  <2>2. /\ q \in PageTexts /\ EditedPage(p, q)
        /\ FirstPriority(q.fm) = FirstPriority(p.fm)
        /\ FirstStatus(q.fm) = None <=> FirstStatus(p.fm) = None
        /\ FirstStatus(q.fm) \in {None, Over}
        /\ \A i \in DOMAIN p.fm :
               q.fm[i] = p.fm[i] \/ (p.fm[i].key = Status /\ q.fm[i].val = Over)
    BY StatusNames, StatusSet
  <2> HIDE DEF q
  <2> QED
    BY <1>1, <2>1, <2>2
<1>2. CASE ~Finished(p)
  <2>1. Completed(p) = p
    BY <1>2 DEF Completed
  <2>2. EditedPage(p, p)
    BY NotEdited DEF EditedPage
  <2> QED
    BY <1>2, <2>1, <2>2
<1> QED
  BY <1>1, <1>2

----------------------------------------------------------------------------
(* A run.                                                                  *)

\* Why a page has an issue, rule by rule.
Because(t, p, orphans, i) ==
    \/ i = Issue("INVALID_PRIORITY", "") /\ InvalidPriority(p.fm)
    \/ i = Issue("INVALID_STATUS", "") /\ InvalidStatus(p.fm)
    \/ i = Issue("STATUS_PHASE_MISMATCH", "") /\ PhaseMismatch(p.fm)
    \/ i = Issue("STATUS_DATE_MISMATCH", "") /\ DateMismatch(p.fm)
    \/ /\ i = Issue("HOLD_WITH_DEFER_DATE", "")
       /\ t = "task" /\ HoldWithDefer(p.fm)
    \/ i = Issue("UNFINISHED_CHECKBOXES", "") /\ Unfinished(p)
    \/ i = Issue("STATUS_CHECKBOX_MISMATCH", "") /\ Finished(p)
    \/ i = Issue("BLOCKED_BY_SCALAR", "") /\ BlockedByScalar(p.fm)
    \/ /\ i = Issue("COMPLETED_GOAL_MISSING_CREATED", "")
       /\ t = "goal" /\ CreatedMissing(p.fm)
    \/ /\ i = Issue("MISSING_TASK_IDENTIFIER", "")
       /\ t = "task" /\ IdentifierMissing(p.fm)
    \/ /\ i = Issue("INVALID_TASK_IDENTIFIER", "")
       /\ t = "task" /\ IdentifierInvalid(p.fm)
    \/ \E k \in Duplicated(p.fm) : i = Issue("DUPLICATE_KEY", k)
    \/ \E k \in QuotedBooleans(p.fm) : i = Issue("QUOTED_BOOLEAN", k)
    \/ \E g \in orphans : i = Issue("ORPHAN_GOAL", g)

LEMMA FoundMeans ==
    ASSUME NEW t, NEW p, NEW orphans, NEW i
    PROVE  i \in Found(t, p, orphans) <=> Because(t, p, orphans, i)
<1> DEFINE F1 == If("INVALID_PRIORITY", InvalidPriority(p.fm))
           F2 == If("INVALID_STATUS", InvalidStatus(p.fm))
           F3 == If("STATUS_PHASE_MISMATCH", PhaseMismatch(p.fm))
           F4 == If("STATUS_DATE_MISMATCH", DateMismatch(p.fm))
           F5 == If("HOLD_WITH_DEFER_DATE", t = "task" /\ HoldWithDefer(p.fm))
           F6 == If("UNFINISHED_CHECKBOXES", Unfinished(p))
           F7 == If("STATUS_CHECKBOX_MISMATCH", Finished(p))
           F8 == If("BLOCKED_BY_SCALAR", BlockedByScalar(p.fm))
           F9 == If("COMPLETED_GOAL_MISSING_CREATED", t = "goal" /\ CreatedMissing(p.fm))
           F10 == If("MISSING_TASK_IDENTIFIER", t = "task" /\ IdentifierMissing(p.fm))
           F11 == If("INVALID_TASK_IDENTIFIER", t = "task" /\ IdentifierInvalid(p.fm))
           F12 == {Issue("DUPLICATE_KEY", k) : k \in Duplicated(p.fm)}
           F13 == {Issue("QUOTED_BOOLEAN", k) : k \in QuotedBooleans(p.fm)}
           F14 == {Issue("ORPHAN_GOAL", g) : g \in orphans}
<1>1. i \in F1 <=> i = Issue("INVALID_PRIORITY", "") /\ InvalidPriority(p.fm)
  BY DEF If
<1>2. i \in F2 <=> i = Issue("INVALID_STATUS", "") /\ InvalidStatus(p.fm)
  BY DEF If
<1>3. i \in F3 <=> i = Issue("STATUS_PHASE_MISMATCH", "") /\ PhaseMismatch(p.fm)
  BY DEF If
<1>4. i \in F4 <=> i = Issue("STATUS_DATE_MISMATCH", "") /\ DateMismatch(p.fm)
  BY DEF If
<1>5. i \in F5 <=> i = Issue("HOLD_WITH_DEFER_DATE", "") /\ t = "task" /\ HoldWithDefer(p.fm)
  BY DEF If
<1>6. i \in F6 <=> i = Issue("UNFINISHED_CHECKBOXES", "") /\ Unfinished(p)
  BY DEF If
<1>7. i \in F7 <=> i = Issue("STATUS_CHECKBOX_MISMATCH", "") /\ Finished(p)
  BY DEF If
<1>8. i \in F8 <=> i = Issue("BLOCKED_BY_SCALAR", "") /\ BlockedByScalar(p.fm)
  BY DEF If
<1>9. i \in F9 <=> i = Issue("COMPLETED_GOAL_MISSING_CREATED", "") /\ t = "goal" /\ CreatedMissing(p.fm)
  BY DEF If
<1>10. i \in F10 <=> i = Issue("MISSING_TASK_IDENTIFIER", "") /\ t = "task" /\ IdentifierMissing(p.fm)
  BY DEF If
<1>11. i \in F11 <=> i = Issue("INVALID_TASK_IDENTIFIER", "") /\ t = "task" /\ IdentifierInvalid(p.fm)
  BY DEF If
<1>12. i \in F12 <=> \E k \in Duplicated(p.fm) : i = Issue("DUPLICATE_KEY", k)
  OBVIOUS
<1>13. i \in F13 <=> \E k \in QuotedBooleans(p.fm) : i = Issue("QUOTED_BOOLEAN", k)
  OBVIOUS
<1>14. i \in F14 <=> \E g \in orphans : i = Issue("ORPHAN_GOAL", g)
  OBVIOUS
<1>15. Found(t, p, orphans) = F1 \cup F2 \cup F3 \cup F4 \cup F5 \cup F6 \cup F7 \cup F8
           \cup F9 \cup F10 \cup F11 \cup F12 \cup F13 \cup F14
  BY DEF Found
<1> HIDE DEF F1, F2, F3, F4, F5, F6, F7, F8, F9, F10, F11, F12, F13, F14
<1> QED
  BY <1>1, <1>2, <1>3, <1>4, <1>5, <1>6, <1>7, <1>8, <1>9, <1>10, <1>11, <1>12,
     <1>13, <1>14, <1>15 DEF Because

LEMMA KindOf == \A kind, of : Issue(kind, of).kind = kind /\ Issue(kind, of).of = of
  BY DEF Issue

\* What an issue of a kind that has a fix says.
LEMMA FixableMeans ==
    ASSUME NEW t, NEW p, NEW orphans, NEW i \in Found(t, p, orphans)
    PROVE  /\ i.kind = "QUOTED_BOOLEAN" => QuotedBooleans(p.fm) # {}
           /\ i.kind = "DUPLICATE_KEY" => Duplicated(p.fm) # {}
           /\ i.kind = "INVALID_PRIORITY" => InvalidPriority(p.fm)
           /\ i.kind = "STATUS_DATE_MISMATCH" => DateMismatch(p.fm)
           /\ i.kind = "STATUS_CHECKBOX_MISMATCH" => Finished(p)
           /\ i.kind # "MISSING_FRONTMATTER"
<1> DEFINE means == /\ i.kind = "QUOTED_BOOLEAN" => QuotedBooleans(p.fm) # {}
                    /\ i.kind = "DUPLICATE_KEY" => Duplicated(p.fm) # {}
                    /\ i.kind = "INVALID_PRIORITY" => InvalidPriority(p.fm)
                    /\ i.kind = "STATUS_DATE_MISMATCH" => DateMismatch(p.fm)
                    /\ i.kind = "STATUS_CHECKBOX_MISMATCH" => Finished(p)
                    /\ i.kind # "MISSING_FRONTMATTER"
<1> HIDE DEF means
<1> SUFFICES means
  BY DEF means
<1>1. CASE i = Issue("INVALID_PRIORITY", "") /\ InvalidPriority(p.fm)
  BY <1>1 DEF Issue, means
<1>2. CASE i = Issue("INVALID_STATUS", "")
  BY <1>2 DEF Issue, means
<1>3. CASE i = Issue("STATUS_PHASE_MISMATCH", "")
  BY <1>3 DEF Issue, means
<1>4. CASE i = Issue("STATUS_DATE_MISMATCH", "") /\ DateMismatch(p.fm)
  BY <1>4 DEF Issue, means
<1>5. CASE i = Issue("HOLD_WITH_DEFER_DATE", "")
  BY <1>5 DEF Issue, means
<1>6. CASE i = Issue("UNFINISHED_CHECKBOXES", "")
  BY <1>6 DEF Issue, means
<1>7. CASE i = Issue("STATUS_CHECKBOX_MISMATCH", "") /\ Finished(p)
  BY <1>7 DEF Issue, means
<1>8. CASE i = Issue("BLOCKED_BY_SCALAR", "")
  BY <1>8 DEF Issue, means
<1>9. CASE i = Issue("COMPLETED_GOAL_MISSING_CREATED", "")
  BY <1>9 DEF Issue, means
<1>10. CASE i = Issue("MISSING_TASK_IDENTIFIER", "")
  BY <1>10 DEF Issue, means
<1>11. CASE i = Issue("INVALID_TASK_IDENTIFIER", "")
  BY <1>11 DEF Issue, means
<1>12. CASE \E k \in Duplicated(p.fm) : i = Issue("DUPLICATE_KEY", k)
  BY <1>12 DEF Issue, means
<1>13. CASE \E k \in QuotedBooleans(p.fm) : i = Issue("QUOTED_BOOLEAN", k)
  BY <1>13 DEF Issue, means
<1>14. CASE \E g \in orphans : i = Issue("ORPHAN_GOAL", g)
  BY <1>14 DEF Issue, means
<1>15. Because(t, p, orphans, i)
  BY FoundMeans
<1> QED
  BY <1>1, <1>2, <1>3, <1>4, <1>5, <1>6, <1>7, <1>8, <1>9, <1>10, <1>11, <1>12,
     <1>13, <1>14, <1>15 DEF Because

\* The kinds that have a fix, among the issues of a page.
LEMMA KindsFound ==
    ASSUME NEW t, NEW p, p.head, NEW kinds, kinds = {i.kind : i \in Issues(t, p)}
    PROVE  /\ "QUOTED_BOOLEAN" \in kinds <=> QuotedBooleans(p.fm) # {}
           /\ "DUPLICATE_KEY" \in kinds <=> Duplicated(p.fm) # {}
           /\ "INVALID_PRIORITY" \in kinds <=> InvalidPriority(p.fm)
           /\ "STATUS_DATE_MISMATCH" \in kinds <=> DateMismatch(p.fm)
           /\ "STATUS_CHECKBOX_MISMATCH" \in kinds <=> Finished(p)
<1> DEFINE found == Found(t, p, OrphanGoals(p.fm))
<1>1. kinds = {i.kind : i \in found}
  BY DEF Issues
<1> HIDE DEF found
<1>2. \A kind : kind \in kinds <=> \E i \in found : i.kind = kind
  BY <1>1
<1>3. ASSUME NEW i \in found
      PROVE  /\ i.kind = "QUOTED_BOOLEAN" => QuotedBooleans(p.fm) # {}
             /\ i.kind = "DUPLICATE_KEY" => Duplicated(p.fm) # {}
             /\ i.kind = "INVALID_PRIORITY" => InvalidPriority(p.fm)
             /\ i.kind = "STATUS_DATE_MISMATCH" => DateMismatch(p.fm)
             /\ i.kind = "STATUS_CHECKBOX_MISMATCH" => Finished(p)
  BY FixableMeans DEF found
<1>4. /\ \A k \in QuotedBooleans(p.fm) : Issue("QUOTED_BOOLEAN", k) \in found
      /\ \A k \in Duplicated(p.fm) : Issue("DUPLICATE_KEY", k) \in found
      /\ InvalidPriority(p.fm) => Issue("INVALID_PRIORITY", "") \in found
      /\ DateMismatch(p.fm) => Issue("STATUS_DATE_MISMATCH", "") \in found
      /\ Finished(p) => Issue("STATUS_CHECKBOX_MISMATCH", "") \in found
  BY FoundMeans DEF found, Because
<1>5. \A kind, of : Issue(kind, of) \in found => kind \in kinds
  BY <1>2, KindOf
<1> QED
  BY <1>2, <1>3, <1>4, <1>5

AfterQuotes(p) == IF QuotedBooleans(p.fm) # {} THEN Unquoted(p) ELSE p
AfterKeys(p) == IF Duplicated(p.fm) # {} THEN Deduplicated(AfterQuotes(p))
                                         ELSE AfterQuotes(p)
AfterNumbers(p) == IF InvalidPriority(p.fm) THEN Numbered(AfterKeys(p)) ELSE AfterKeys(p)
AfterDates(p) == IF DateMismatch(p.fm) THEN Promoted(AfterNumbers(p)) ELSE AfterNumbers(p)
AfterBoxes(p) == IF Finished(p) THEN Completed(AfterDates(p)) ELSE AfterDates(p)

LEMMA StagesAre ==
    ASSUME NEW t, NEW p, p.head, NEW kinds, kinds = {i.kind : i \in Issues(t, p)}
    PROVE  Stages(p, kinds) = <<p, AfterQuotes(p), AfterKeys(p), AfterNumbers(p),
                                AfterDates(p), AfterBoxes(p)>>
  BY KindsFound DEF Stages, AfterQuotes, AfterKeys, AfterNumbers, AfterDates, AfterBoxes

LEMMA RunIs ==
    ASSUME NEW t, NEW p, p.head
    PROVE  Fixed(t, p)[1] = AfterBoxes(p)
<1> DEFINE kinds == {i.kind : i \in Issues(t, p)}
           texts == Stages(p, kinds)
<1>1. texts = <<p, AfterQuotes(p), AfterKeys(p), AfterNumbers(p), AfterDates(p),
                AfterBoxes(p)>>
  BY StagesAre
<1>2. Fixed(t, p)[1] = Last(texts)
  BY DEF Fixed
<1> HIDE DEF texts
<1>3. Last(texts) = AfterBoxes(p)
  BY <1>1 DEF Last
<1> QED
  BY <1>2, <1>3

----------------------------------------------------------------------------
(* Two runs settle a page.                                                 *)

\* What the first run leaves: a run after it finds no quoted boolean, and no
\* duplicated key that it could remove.
AfterOne(p) ==
    /\ p.head
    /\ QuotedBooleans(p.fm) = {}
    /\ Duplicated(p.fm) = {} \/ ~Parses(LastOnes(p.fm))

\* What the second leaves: nothing that a run could fix.
AfterTwo(p) ==
    /\ AfterOne(p)
    /\ ~InvalidPriority(p.fm)
    /\ ~DateMismatch(p.fm)
    /\ ~Finished(p)

LEMMA OneKept ==
    ASSUME NEW p \in PageTexts, NEW q \in PageTexts, EditedPage(p, q), AfterOne(p)
    PROVE  AfterOne(q)
<1>1. p.fm \in Seq(Lines) /\ q.fm \in Seq(Lines) /\ Edited(p.fm, q.fm)
  BY TextIs DEF EditedPage
<1>2. QuotedBooleans(p.fm) = {} /\ p.head
      /\ (Duplicated(p.fm) = {} \/ ~Parses(LastOnes(p.fm)))
  BY DEF AfterOne
<1>3. QuotedBooleans(q.fm) = {}
  BY <1>1, <1>2, FewerQuoted
<1>4. Duplicated(q.fm) = Duplicated(p.fm)
  BY <1>1, SameKeys
<1>5. Parses(LastOnes(q.fm)) => Parses(LastOnes(p.fm))
  <2>1. LastOnes(p.fm) \in Seq(Lines) /\ LastOnes(q.fm) \in Seq(Lines)
    BY <1>1, LastOnesAre
  <2>2. Edited(LastOnes(p.fm), LastOnes(q.fm))
    BY <1>1, SameLastOnes
  <2>3. QuotedBooleans(LastOnes(p.fm)) = {}
    BY <1>1, <1>2, NothingTwice
  <2> QED
    BY <2>1, <2>2, <2>3, ParsedBefore
<1>6. q.head
  BY <1>2 DEF EditedPage
<1> QED
  BY <1>2, <1>3, <1>4, <1>5, <1>6 DEF AfterOne

\* The pages between the fixes of a run.
LEMMA StageFacts ==
    ASSUME NEW p \in PageTexts, p.head
    PROVE  /\ AfterQuotes(p) \in PageTexts /\ EditedPage(p, AfterQuotes(p))
           /\ QuotedBooleans(AfterQuotes(p).fm) = {}
           /\ AfterQuotes(p).body = p.body
           /\ AfterKeys(p) \in PageTexts /\ AfterKeys(p).body = p.body
           /\ AfterOne(AfterKeys(p))
           /\ AfterNumbers(p) \in PageTexts
           /\ EditedPage(AfterKeys(p), AfterNumbers(p))
           /\ AfterDates(p) \in PageTexts
           /\ EditedPage(AfterNumbers(p), AfterDates(p))
           /\ AfterBoxes(p) \in PageTexts
           /\ EditedPage(AfterDates(p), AfterBoxes(p))
<1>1. \A q : EditedPage(q, q)
  BY NotEdited DEF EditedPage
<1>2. /\ AfterQuotes(p) \in PageTexts /\ EditedPage(p, AfterQuotes(p))
      /\ QuotedBooleans(AfterQuotes(p).fm) = {}
      /\ AfterQuotes(p).body = p.body
  BY <1>1, UnquotedIs DEF AfterQuotes
<1> DEFINE u == AfterQuotes(p)
           d == AfterKeys(p)
<1>3. u.head /\ p.fm \in Seq(Lines) /\ u.fm \in Seq(Lines) /\ Edited(p.fm, u.fm)
  BY <1>2, TextIs DEF EditedPage
<1>4. Duplicated(u.fm) = Duplicated(p.fm)
  BY <1>3, SameKeys
<1>5. d \in PageTexts /\ d.body = p.body /\ AfterOne(d)
  <2>1. CASE Duplicated(p.fm) = {}
    <3>1. d = u
      BY <2>1 DEF AfterKeys
    <3> QED
      BY <1>2, <1>3, <1>4, <2>1, <3>1 DEF AfterOne
  <2>2. CASE Duplicated(p.fm) # {}
    <3>1. d = Deduplicated(u)
      BY <2>2 DEF AfterKeys
    <3> HIDE DEF d, u
    <3>2. /\ Deduplicated(u) \in PageTexts /\ Deduplicated(u).head = u.head
          /\ Deduplicated(u).body = u.body
          /\ QuotedBooleans(Deduplicated(u).fm) \subseteq QuotedBooleans(u.fm)
          /\ \/ Deduplicated(u) = u /\ ~Parses(LastOnes(u.fm))
             \/ Duplicated(Deduplicated(u).fm) = {}
      BY <1>2, DeduplicatedIs DEF u
    <3>3. QuotedBooleans(u.fm) = {} /\ u.body = p.body
      BY <1>2 DEF u
    <3> QED
      BY <1>3, <3>1, <3>2, <3>3 DEF AfterOne
  <2> QED
    BY <2>1, <2>2
<1>6. AfterNumbers(p) \in PageTexts /\ EditedPage(d, AfterNumbers(p))
  BY <1>1, <1>5, NumberedIs DEF AfterNumbers
<1>7. AfterDates(p) \in PageTexts /\ EditedPage(AfterNumbers(p), AfterDates(p))
  BY <1>1, <1>6, PromotedIs DEF AfterDates
<1>8. AfterBoxes(p) \in PageTexts /\ EditedPage(AfterDates(p), AfterBoxes(p))
  BY <1>1, <1>7, CompletedIs DEF AfterBoxes
<1> QED
  BY <1>2, <1>5, <1>6, <1>7, <1>8

LEMMA NewFrontmatter ==
    ASSUME NEW p \in PageTexts
    PROVE  WithFrontmatter(p) \in PageTexts /\ AfterOne(WithFrontmatter(p))
<1> DEFINE q == WithFrontmatter(p)
           fm == <<Line("status", "backlog")>>
<1>1. q = [head |-> TRUE, fm |-> fm, body |-> p.body]
  BY DEF WithFrontmatter, Page
<1>2. Line("status", "backlog") \in Lines
  BY LintTexts DEF Line, Lines
<1>3. /\ fm \in Seq(Lines) /\ DOMAIN fm = {1}
      /\ fm[1].key = "status"
  <2>1. fm[1] = Line("status", "backlog") /\ DOMAIN fm = 1..1 /\ fm \in Seq(Lines)
    BY <1>2
  <2>2. 1..1 = {1}
    OBVIOUS
  <2> QED
    BY <2>1, <2>2 DEF Line
<1> HIDE DEF fm, q
<1>4. q.head /\ q.fm = fm /\ q.body = p.body
  BY <1>1
<1>5. q \in PageTexts
  BY <1>1, <1>3, TextIs DEF PageTexts
<1>6. Duplicated(fm) = {}
  BY <1>3 DEF Duplicated, KeyLines
<1>7. QuotedBooleans(fm) = {}
  BY <1>3, KeyNames DEF QuotedBooleans, KeyLines, Status
<1> QED
  BY <1>4, <1>5, <1>6, <1>7 DEF AfterOne, q

LEMMA FirstRun ==
    ASSUME NEW t, NEW p \in PageTexts
    PROVE  Fixed(t, p)[1] \in PageTexts /\ AfterOne(Fixed(t, p)[1])
<1>1. CASE p.head
  <2>1. Fixed(t, p)[1] = AfterBoxes(p)
    BY <1>1, RunIs
  <2> QED
    BY <1>1, <2>1, StageFacts, OneKept
<1>2. CASE ~p.head
  <2>1. Fixed(t, p)[1] = WithFrontmatter(p)
    BY <1>2 DEF Fixed
  <2> QED
    BY <2>1, NewFrontmatter
<1> QED
  BY <1>1, <1>2

\* The rules with a fix, as the names above put them.
LEMMA Rules ==
    ASSUME NEW p
    PROVE  /\ DateMismatch(p.fm) => FirstStatus(p.fm) \in Unstarted
           /\ Finished(p) <=> /\ CountsBoxes(p) /\ AllChecked(p)
                              /\ FirstStatus(p.fm) # Over
           /\ Unfinished(p) <=> /\ CountsBoxes(p) /\ ~AllChecked(p)
                                /\ FirstStatus(p.fm) = Over
           /\ CountsBoxes(p) => FirstStatus(p.fm) # None
           /\ InvalidPriority(p.fm) <=> FirstPriority(p.fm) \in NumberedWords
           /\ None \notin NumberedWords
<1>1. DateMismatch(p.fm) => FirstStatus(p.fm) \in Unstarted
  BY DEF DateMismatch, Unstarted
<1>2. /\ Finished(p) <=> CountsBoxes(p) /\ AllChecked(p) /\ FirstStatus(p.fm) # Over
      /\ Unfinished(p) <=> CountsBoxes(p) /\ ~AllChecked(p) /\ FirstStatus(p.fm) = Over
  BY DEF Finished, Unfinished, Over
<1>3. CountsBoxes(p) => FirstStatus(p.fm) # None
  BY DEF CountsBoxes
<1>4. None \notin NumberedWords
  BY DEF None, NumberedWords
<1> QED
  BY <1>1, <1>2, <1>3, <1>4 DEF InvalidPriority

LEMMA SameDateRule ==
    ASSUME NEW f \in Seq(Lines), NEW g \in Seq(Lines), Edited(f, g),
           FirstStatus(g) = FirstStatus(f)
    PROVE  DateMismatch(g) <=> DateMismatch(f)
<1>1. DOMAIN g = DOMAIN f /\ \A i \in DOMAIN f : g[i].key = f[i].key
  BY EditedPlaces
<1>2. \A i \in DOMAIN f : Dated(g, i) <=> Dated(f, i)
  BY SameDates
<1> QED
  BY <1>1, <1>2 DEF DateMismatch

LEMMA NothingToDrop ==
    ASSUME NEW p \in PageTexts, AfterOne(p)
    PROVE  AfterKeys(p) = p
<1>1. AfterQuotes(p) = p
  BY DEF AfterOne, AfterQuotes
<1>2. CASE Duplicated(p.fm) = {}
  BY <1>1, <1>2 DEF AfterKeys
<1>3. CASE Duplicated(p.fm) # {}
  BY <1>1, <1>3 DEF AfterKeys, AfterOne, Deduplicated
<1> QED
  BY <1>2, <1>3

\* The later fixes of a run on a page without duplicated keys, or with some
\* that are kept, leave nothing that they could fix.
LEMMA SecondRun ==
    ASSUME NEW t, NEW p \in PageTexts, AfterOne(p)
    PROVE  AfterTwo(Fixed(t, p)[1])
<1> DEFINE n == AfterNumbers(p)
           s == AfterDates(p)
           c == AfterBoxes(p)
<1>1. p.head
  BY DEF AfterOne
<1>2. Fixed(t, p)[1] = c
  BY <1>1, RunIs
<1>3. /\ n \in PageTexts /\ s \in PageTexts /\ c \in PageTexts
      /\ EditedPage(p, n) /\ EditedPage(n, s) /\ EditedPage(s, c)
  BY <1>1, StageFacts, NothingToDrop
<1>4. EditedPage(p, s) /\ EditedPage(p, c)
  BY <1>3, PageAgain
<1>5. AfterOne(c)
  BY <1>3, <1>4, OneKept
<1>6. FirstStatus(n.fm) = FirstStatus(p.fm) /\ ~InvalidPriority(n.fm)
  <2>1. CASE InvalidPriority(p.fm)
    <3>1. n = Numbered(p)
      BY <2>1, NothingToDrop DEF AfterNumbers
    <3>2. FirstPriority(Text(p)) \in NumberedWords
      BY <2>1, Rules, FirstsOfText
    <3>3. /\ FirstStatus(Numbered(p).fm) = FirstStatus(p.fm)
          /\ Fits(Numbered(p).fm, Priority, PriorityWords) = {}
      BY <3>2, NumberedIs
    <3>4. FirstPriority(Numbered(p).fm) = None
      BY <3>3, Firsts DEF FirstWord
    <3> QED
      BY <3>1, <3>3, <3>4, Rules
  <2>2. CASE ~InvalidPriority(p.fm)
    BY <2>2, NothingToDrop DEF AfterNumbers
  <2> QED
    BY <2>1, <2>2
<1>7. DateMismatch(n.fm) <=> DateMismatch(p.fm)
  <2>1. n.fm \in Seq(Lines) /\ p.fm \in Seq(Lines) /\ Edited(p.fm, n.fm)
    BY <1>3, TextIs DEF EditedPage
  <2> QED
    BY <1>6, <2>1, SameDateRule
<1>8. /\ ~InvalidPriority(s.fm) /\ ~DateMismatch(s.fm)
      /\ FirstStatus(s.fm) = Over <=> FirstStatus(p.fm) = Over
  <2>1. CASE DateMismatch(p.fm)
    <3>1. s = Promoted(n)
      BY <2>1 DEF AfterDates
    <3>2. FirstStatus(n.fm) \in Unstarted /\ FirstStatus(Text(n)) \in Unstarted
      BY <1>3, <1>7, <2>1, Rules, FirstsOfText, StatusNames
    <3>3. /\ FirstPriority(Promoted(n).fm) = FirstPriority(n.fm)
          /\ FirstStatus(Promoted(n).fm) \in {None, InProgress}
      BY <1>3, <3>2, PromotedIs
    <3> HIDE DEF n, s
    <3>4. ~InvalidPriority(s.fm)
      BY <1>6, <3>1, <3>3, Rules
    <3>5. ~DateMismatch(s.fm) /\ FirstStatus(s.fm) # Over /\ FirstStatus(p.fm) # Over
      BY <1>6, <3>1, <3>2, <3>3, Rules, StatusNames
    <3> QED
      BY <3>4, <3>5
  <2>2. CASE ~DateMismatch(p.fm)
    <3>1. s = n
      BY <2>2 DEF AfterDates
    <3> QED
      BY <1>6, <1>7, <2>2, <3>1
  <2> QED
    BY <2>1, <2>2
<1>9. /\ AllChecked(s) <=> AllChecked(p)
      /\ CountsBoxes(s) <=> CountsBoxes(p)
  BY <1>3, <1>4, SameBoxes
<1>10. Finished(s) <=> Finished(p)
  BY <1>8, <1>9, Rules
<1>11. ~InvalidPriority(c.fm) /\ ~DateMismatch(c.fm) /\ ~Finished(c)
  <2>1. CASE Finished(p)
    <3>1. c = Completed(s)
      BY <2>1 DEF AfterBoxes
    <3>2. /\ FirstPriority(Completed(s).fm) = FirstPriority(s.fm)
          /\ FirstStatus(Completed(s).fm) \in {None, Over}
      BY <1>3, <1>10, <2>1, CompletedIs
    <3> HIDE DEF c, s
    <3> QED
      BY <1>8, <3>1, <3>2, Rules, StatusNames
  <2>2. CASE ~Finished(p)
    <3>1. c = s
      BY <2>2 DEF AfterBoxes
    <3> QED
      BY <1>8, <1>10, <2>2, <3>1
  <2> QED
    BY <2>1, <2>2
<1> QED
  BY <1>2, <1>5, <1>11 DEF AfterTwo

LEMMA ThirdRun ==
    ASSUME NEW t, NEW p \in PageTexts, AfterTwo(p)
    PROVE  Fixed(t, p)[1] = p
<1>1. AfterOne(p) /\ p.head
  BY DEF AfterTwo, AfterOne
<1>2. AfterBoxes(p) = p
  BY <1>1, NothingToDrop DEF AfterTwo, AfterNumbers, AfterDates, AfterBoxes
<1> QED
  BY <1>1, <1>2, RunIs

PageInv ==
    /\ fixes \in Nat
    /\ page \in PageTexts
    /\ fixes >= 1 => AfterOne(page)
    /\ fixes >= 2 => AfterTwo(page)

LEMMA EmptyPage == Page(FALSE, <<>>, <<>>) \in PageTexts
<1>1. <<>> \in Seq(Lines)
  OBVIOUS
<1> QED
  BY <1>1 DEF Page, PageTexts

LEMMA PageInit == Init => PageInv
<1> SUFFICES ASSUME Init PROVE PageInv
  OBVIOUS
<1>1. PICK f \in Files : page = f[2]
  BY DEF Init
<1>2. f \in Texts \X PageTexts
  BY LintTexts
<1>3. page \in PageTexts
  BY <1>1, <1>2
<1> QED
  BY <1>3 DEF Init, PageInv

LEMMA PageNext == PageInv /\ [Next]_vars => PageInv'
<1> SUFFICES ASSUME PageInv, [Next]_vars PROVE PageInv'
  OBVIOUS
<1>1. CASE Lint
  BY <1>1 DEF Lint, PageInv
<1>2. CASE Validate
  BY <1>2 DEF Validate, PageInv
<1>3. CASE LintFix
  <2> DEFINE q == Fixed(type, page)[1]
  <2>1. page' = q /\ fixes' = fixes + 1 /\ page \in PageTexts /\ fixes \in Nat
    BY <1>3 DEF LintFix, PageInv
  <2>2. q \in PageTexts /\ AfterOne(q)
    BY <2>1, FirstRun
  <2>3. fixes >= 1 => AfterTwo(q)
    BY <2>1, SecondRun DEF PageInv
  <2> HIDE DEF q
  <2>4. fixes' \in Nat /\ (fixes' >= 2 => fixes >= 1)
    BY <2>1
  <2> QED
    BY <2>1, <2>2, <2>3, <2>4 DEF PageInv
<1>4. CASE LintFixDies
  <2>1. page' \in PageTexts /\ fixes' = 0
    BY <1>4, EmptyPage DEF LintFixDies
  <2> QED
    BY <2>1 DEF PageInv
<1>5. CASE UNCHANGED vars
  BY <1>5 DEF vars, PageInv
<1> QED
  BY <1>1, <1>2, <1>3, <1>4, <1>5 DEF Next

LEMMA PageAlways == Spec => []PageInv
  BY PageInit, PageNext, PTL DEF Spec

\* After two runs of --fix nothing is left that a third one would change,
\* whatever was wrong with the page and however its fixes uncover each other.
THEOREM Settles == Spec => []FixSettles
<1>1. PageInv => FixSettles
  BY ThirdRun DEF PageInv, FixSettles
<1> QED
  BY <1>1, PageAlways, PTL

----------------------------------------------------------------------------
(* What a run reports as fixed is gone.                                    *)

\* A fix that changed the text did what it is for, and no later one undid it.
LEMMA FixesHold ==
    ASSUME NEW p \in PageTexts, p.head
    PROVE  /\ QuotedBooleans(AfterBoxes(p).fm) = {}
           /\ AfterKeys(p) # AfterQuotes(p) => Duplicated(AfterBoxes(p).fm) = {}
           /\ AfterNumbers(p) # AfterKeys(p) => ~InvalidPriority(AfterBoxes(p).fm)
           /\ AfterDates(p) # AfterNumbers(p) => ~DateMismatch(AfterBoxes(p).fm)
           /\ AfterBoxes(p) # AfterDates(p) => ~Finished(AfterBoxes(p))
<1> DEFINE u == AfterQuotes(p)
           d == AfterKeys(p)
           n == AfterNumbers(p)
           s == AfterDates(p)
           c == AfterBoxes(p)
<1>1. /\ u \in PageTexts /\ d \in PageTexts /\ n \in PageTexts
      /\ s \in PageTexts /\ c \in PageTexts /\ AfterOne(d)
      /\ EditedPage(d, n) /\ EditedPage(n, s) /\ EditedPage(s, c)
  BY StageFacts
<1>2. EditedPage(d, c)
  BY <1>1, PageAgain
<1>3. QuotedBooleans(c.fm) = {}
  BY <1>1, <1>2, OneKept DEF AfterOne
<1>4. ASSUME d # u PROVE Duplicated(c.fm) = {}
  <2>1. d = Deduplicated(u)
    BY <1>4 DEF AfterKeys
  <2>2. Duplicated(d.fm) = {}
    BY <1>1, <1>4, <2>1, DeduplicatedIs
  <2>3. d.fm \in Seq(Lines) /\ c.fm \in Seq(Lines) /\ Edited(d.fm, c.fm)
    BY <1>1, <1>2, TextIs DEF EditedPage
  <2> QED
    BY <2>2, <2>3, SameKeys
<1>5. FirstPriority(s.fm) = FirstPriority(n.fm)
  BY <1>1, PromotedIs DEF AfterDates
<1>6. FirstPriority(c.fm) = FirstPriority(s.fm)
  BY <1>1, CompletedIs DEF AfterBoxes
<1>7. ASSUME n # d PROVE ~InvalidPriority(c.fm)
  <2>1. n = Numbered(d)
    BY <1>7 DEF AfterNumbers
  <2>2. Fits(n.fm, Priority, PriorityWords) = {}
    BY <1>1, <1>7, <2>1, NumberedIs
  <2>3. FirstPriority(n.fm) = None
    BY <2>2, Firsts DEF FirstWord
  <2> QED
    BY <1>5, <1>6, <2>3, Rules
<1>8. FirstStatus(c.fm) \in {FirstStatus(s.fm), None, Over}
  BY <1>1, CompletedIs DEF AfterBoxes
<1>9. ASSUME s # n PROVE ~DateMismatch(c.fm)
  <2>1. s = Promoted(n)
    BY <1>9 DEF AfterDates
  <2>2. FirstStatus(s.fm) \in {None, InProgress}
    BY <1>1, <1>9, <2>1, PromotedIs
  <2> QED
    BY <1>8, <2>2, Rules, StatusNames
<1>10. ASSUME c # s PROVE ~Finished(c)
  <2>1. c = Completed(s)
    BY <1>10 DEF AfterBoxes
  <2>2. FirstStatus(c.fm) \in {None, Over}
    BY <1>1, <1>10, <2>1, CompletedIs
  <2> QED
    BY <2>2, Rules
<1> QED
  BY <1>3, <1>4, <1>7, <1>9, <1>10

LEMMA WorkedIs ==
    ASSUME NEW t, NEW p, p.head, NEW kinds, kinds = {i.kind : i \in Issues(t, p)},
           NEW kind \in Worked(p, kinds)
    PROVE  \/ kind = "QUOTED_BOOLEAN" /\ AfterQuotes(p) # p
           \/ kind = "DUPLICATE_KEY" /\ AfterKeys(p) # AfterQuotes(p)
           \/ kind = "INVALID_PRIORITY" /\ AfterNumbers(p) # AfterKeys(p)
           \/ kind = "STATUS_DATE_MISMATCH" /\ AfterDates(p) # AfterNumbers(p)
           \/ kind = "STATUS_CHECKBOX_MISMATCH" /\ AfterBoxes(p) # AfterDates(p)
<1> DEFINE texts == Stages(p, kinds)
<1>1. PICK n \in DOMAIN FixOrder : texts[n + 1] # texts[n] /\ kind = FixOrder[n]
  BY DEF Worked
<1>2. texts = <<p, AfterQuotes(p), AfterKeys(p), AfterNumbers(p), AfterDates(p),
                AfterBoxes(p)>>
  BY StagesAre
<1> HIDE DEF texts
<1>3. /\ texts[1] = p /\ texts[2] = AfterQuotes(p) /\ texts[3] = AfterKeys(p)
      /\ texts[4] = AfterNumbers(p) /\ texts[5] = AfterDates(p)
      /\ texts[6] = AfterBoxes(p)
  BY <1>2
<1>4. /\ DOMAIN FixOrder = 1..5
      /\ FixOrder[1] = "QUOTED_BOOLEAN" /\ FixOrder[2] = "DUPLICATE_KEY"
      /\ FixOrder[3] = "INVALID_PRIORITY" /\ FixOrder[4] = "STATUS_DATE_MISMATCH"
      /\ FixOrder[5] = "STATUS_CHECKBOX_MISMATCH"
  BY DEF FixOrder
<1>5. n \in 1..5 => n = 1 \/ n = 2 \/ n = 3 \/ n = 4 \/ n = 5
  OBVIOUS
<1>6. 1 + 1 = 2 /\ 2 + 1 = 3 /\ 3 + 1 = 4 /\ 4 + 1 = 5 /\ 5 + 1 = 6
  OBVIOUS
<1>7. n = 1 \/ n = 2 \/ n = 3 \/ n = 4 \/ n = 5
  BY <1>4, <1>5
<1>8. CASE n = 1
  BY <1>1, <1>3, <1>4, <1>6, <1>8
<1>9. CASE n = 2
  BY <1>1, <1>3, <1>4, <1>6, <1>9
<1>10. CASE n = 3
  BY <1>1, <1>3, <1>4, <1>6, <1>10
<1>11. CASE n = 4
  BY <1>1, <1>3, <1>4, <1>6, <1>11
<1>12. CASE n = 5
  BY <1>1, <1>3, <1>4, <1>6, <1>12
<1> QED
  BY <1>7, <1>8, <1>9, <1>10, <1>11, <1>12

LEMMA ReportedIs ==
    ASSUME NEW issues, NEW fixed, NEW r \in Reported(issues, fixed)
    PROVE  r.issue \in issues /\ (r.fixed => r.issue \in fixed)
<1>1. PICK i \in issues : r = [issue |-> i, fixed |-> i \in fixed]
  BY DEF Reported
<1> QED
  BY <1>1

LEMMA FixedGone ==
    ASSUME NEW t, NEW p \in PageTexts, NEW r \in Fixed(t, p)[2], r.fixed
    PROVE  r.issue \notin Issues(t, Fixed(t, p)[1])
<1> DEFINE q == Fixed(t, p)[1]
           i == r.issue
           issues == Issues(t, p)
           kinds == {x.kind : x \in issues}
<1>1. CASE p.head
  <2> DEFINE counted(x) == /\ x.kind \in Worked(p, kinds)
                           /\ x.kind = "DUPLICATE_KEY" => x.of = FirstDuplicate(p.fm)
  <2>1. Fixed(t, p)[2] = Reported(issues, {x \in issues : counted(x)})
    BY <1>1 DEF Fixed
  <2>2. i \in {x \in issues : counted(x)}
    <3> HIDE DEF issues, counted
    <3> QED
      BY <2>1, ReportedIs
  <2>3. i.kind \in Worked(p, kinds)
    BY <2>2
  <2>4. q = AfterBoxes(p)
    BY <1>1, RunIs
  <2>5. \/ i.kind = "QUOTED_BOOLEAN" /\ QuotedBooleans(q.fm) = {}
        \/ i.kind = "DUPLICATE_KEY" /\ Duplicated(q.fm) = {}
        \/ i.kind = "INVALID_PRIORITY" /\ ~InvalidPriority(q.fm)
        \/ i.kind = "STATUS_DATE_MISMATCH" /\ ~DateMismatch(q.fm)
        \/ i.kind = "STATUS_CHECKBOX_MISMATCH" /\ ~Finished(q)
    BY <1>1, <2>3, <2>4, WorkedIs, FixesHold
  <2>6. q.head
    BY FirstRun DEF AfterOne
  <2>7. ASSUME i \in Issues(t, q) PROVE FALSE
    <3>1. i \in Found(t, q, OrphanGoals(q.fm))
      BY <2>6, <2>7 DEF Issues
    <3> HIDE DEF q, i
    <3> QED
      BY <2>5, <3>1, FixableMeans
  <2> QED
    BY <2>7
<1>2. CASE ~p.head
  <2>1. /\ q = WithFrontmatter(p)
        /\ Fixed(t, p)[2] = Reported(issues, issues) \cup Reported(Issues(t, q), {})
    BY <1>2 DEF Fixed
  <2>2. i \in issues
    <3>1. CASE r \in Reported(issues, issues)
      BY <3>1, ReportedIs
    <3>2. CASE r \in Reported(Issues(t, q), {})
      BY <3>2, ReportedIs
    <3> QED
      BY <2>1, <3>1, <3>2
  <2>3. i.kind = "MISSING_FRONTMATTER"
    <3>1. issues = {Issue("MISSING_FRONTMATTER", "")}
      BY <1>2 DEF Issues
    <3>2. i = Issue("MISSING_FRONTMATTER", "")
      BY <2>2, <3>1
    <3> HIDE DEF i
    <3> QED
      BY <3>2 DEF Issue
  <2>4. q.head
    BY FirstRun DEF AfterOne
  <2>5. ASSUME i \in Issues(t, q) PROVE FALSE
    <3>1. i \in Found(t, q, OrphanGoals(q.fm))
      BY <2>4, <2>5 DEF Issues
    <3> HIDE DEF q, i
    <3> QED
      BY <2>3, <3>1, FixableMeans
  <2> QED
    BY <2>5
<1> QED
  BY <1>1, <1>2

\* What lint reports as fixed is not an issue of the page it left.
THEOREM ReportedGone == Spec => []FixedIsGone
<1>1. Init => FixedIsGone
  BY DEF Init, FixedIsGone
<1>2. ASSUME FixedIsGone, PageInv, [Next]_vars PROVE FixedIsGone'
  <2>1. CASE LintFix
    <3>1. /\ page' = Fixed(type, page)[1] /\ report' = Fixed(type, page)[2]
          /\ type' = type
      BY <2>1 DEF LintFix, FixRun
    <3>2. page \in PageTexts
      BY <1>2 DEF PageInv
    <3>3. \A r \in Fixed(type, page)[2] :
              r.fixed => r.issue \notin Issues(type, Fixed(type, page)[1])
      BY <3>2, FixedGone
    <3>4. Issues(type, page)' = Issues(type, Fixed(type, page)[1])
      BY <3>1
    <3> QED
      BY <3>1, <3>3, <3>4 DEF FixedIsGone
  <2>2. CASE Lint
    <3>1. \A r \in report' : ~r.fixed
      BY <2>2, ReportedIs DEF Lint
    <3> QED
      BY <3>1 DEF FixedIsGone
  <2>3. CASE Validate
    <3>1. \A r \in report' : ~r.fixed
      BY <2>3, ReportedIs DEF Validate
    <3> QED
      BY <3>1 DEF FixedIsGone
  <2>4. CASE LintFixDies
    BY <2>4 DEF LintFixDies, FixedIsGone
  <2>5. CASE UNCHANGED vars
    BY <1>2, <2>5 DEF vars, FixedIsGone
  <2> QED
    BY <1>2, <2>1, <2>2, <2>3, <2>4, <2>5 DEF Next
<1> QED
  BY <1>1, <1>2, PageAlways, PTL DEF Spec

----------------------------------------------------------------------------
(* What a reader of the page gets for a key, before and after.             *)

LEMMA OtherLines ==
    ASSUME NEW f \in Seq(Lines), NEW g \in Seq(Lines), Edited(f, g),
           NEW k, k \notin EditedKeys
    PROVE  /\ KeyLines(g, k) = KeyLines(f, k)
           /\ KeyLines(f, k) \in SUBSET DOMAIN f
           /\ \A i \in KeyLines(f, k) : g[i] = f[i]
<1>1. KeyLines(g, k) = KeyLines(f, k)
  BY SameKeys
<1>2. KeyLines(f, k) \in SUBSET DOMAIN f
  BY DEF KeyLines
<1>3. ASSUME NEW i \in KeyLines(f, k) PROVE g[i] = f[i]
  <2>1. i \in DOMAIN f /\ f[i].key = k
    BY DEF KeyLines
  <2>2. EditedLine(f[i], g[i])
    BY <2>1, EditedPlaces
  <2> QED
    BY <2>1, <2>2, LineEdits
<1> QED
  BY <1>1, <1>2, <1>3

LEMMA KeyLinesIn ==
    ASSUME NEW f \in Seq(Lines), NEW k
    PROVE  /\ KeyLines(f, k) \in SUBSET DOMAIN f
           /\ KeyLines(f, k) \in SUBSET Nat
           /\ IsFiniteSet(KeyLines(f, k))
<1>1. Len(f) \in Nat /\ DOMAIN f = 1..Len(f)
  OBVIOUS
<1>2. IsFiniteSet(1..Len(f))
  BY <1>1, FS_Interval
<1>3. KeyLines(f, k) \in SUBSET DOMAIN f
  BY DEF KeyLines
<1>4. IsFiniteSet(KeyLines(f, k))
  BY <1>1, <1>2, <1>3, FS_Subset
<1> QED
  BY <1>1, <1>3, <1>4

\* The line a reader takes for a key: the last one.
LastLine(f, k) == Max(KeyLines(f, k))

LEMMA LastLineIs ==
    ASSUME NEW f \in Seq(Lines), NEW k \in Keys(f)
    PROVE  /\ LastLine(f, k) \in KeyLines(f, k)
           /\ LastLine(f, k) \in DOMAIN f
           /\ f[LastLine(f, k)].key = k
<1> DEFINE K == KeyLines(f, k)
<1>1. K # {}
  BY DEF Keys, KeyLines
<1>2. K \in SUBSET Nat /\ IsFiniteSet(K) /\ K \in SUBSET DOMAIN f
  BY KeyLinesIn
<1>3. \E m \in K : \A j \in K : j <= m
  BY <1>1, <1>2, Greatest
<1> HIDE DEF K
<1>4. Max(K) \in K
  BY <1>3 DEF Max
<1>5. LastLine(f, k) \in K
  BY <1>4 DEF LastLine, K
<1>6. \A i \in K : f[i].key = k
  BY DEF K, KeyLines
<1> QED
  BY <1>2, <1>5, <1>6 DEF K

\* On a page that parses it is the only one.
LEMMA OnlyLine ==
    ASSUME NEW f \in Seq(Lines), Parses(f), NEW k \in Keys(f), NEW i \in DOMAIN f,
           f[i].key = k
    PROVE  i = LastLine(f, k)
<1>1. LastLine(f, k) \in DOMAIN f /\ f[LastLine(f, k)].key = k
  BY LastLineIs
<1>2. k # Item
  BY DEF Keys
<1> QED
  BY <1>1, <1>2 DEF Parses

LEMMA SelectedSame ==
    ASSUME NEW s, NEW t, NEW K \in SUBSET Nat, IsFiniteSet(K),
           \A i \in K : s[i] = t[i]
    PROVE  Selected(s, K) = Selected(t, K)
<1>1. \A i \in 1..Cardinality(K) : s[Nth(K, i)] = t[Nth(K, i)]
  BY NthRank
<1> QED
  BY <1>1 DEF Selected

Below(f, k) == {j \in KeyLines(f, Item) : Owner(f, j) = LastLine(f, k)}

LEMMA ReadingIs ==
    ASSUME NEW f, NEW k
    PROVE  /\ Reading(f, k).val = Word(f[LastLine(f, k)].val)
           /\ Reading(f, k).items = Selected([j \in DOMAIN f |-> f[j].val], Below(f, k))
           /\ Reading(f, k) = [val |-> Reading(f, k).val, items |-> Reading(f, k).items]
  BY DEF Reading, LastLine, Below

\* The items of a key stay, and so does its text unless its line was edited.
LEMMA SameReading ==
    ASSUME NEW f \in Seq(Lines), NEW g \in Seq(Lines), Edited(f, g), NEW k \in Keys(f)
    PROVE  /\ LastLine(g, k) = LastLine(f, k)
           /\ Reading(g, k).items = Reading(f, k).items
           /\ g[LastLine(f, k)] = f[LastLine(f, k)] => Reading(g, k) = Reading(f, k)
<1>1. LastLine(g, k) = LastLine(f, k)
  BY SameKeys DEF LastLine
<1>2. /\ KeyLines(g, Item) = KeyLines(f, Item)
      /\ KeyLines(f, Item) \in SUBSET DOMAIN f
      /\ \A j \in KeyLines(f, Item) : g[j] = f[j]
  BY OtherLines, KeyNames
<1>3. \A j \in KeyLines(f, Item) : Owner(g, j) = Owner(f, j)
  BY <1>2, SameKeys
<1>4. Below(g, k) = Below(f, k)
  BY <1>1, <1>2, <1>3 DEF Below
<1> DEFINE K == Below(f, k)
           s == [j \in DOMAIN f |-> f[j].val]
           t == [j \in DOMAIN g |-> g[j].val]
<1>5. K \in SUBSET KeyLines(f, Item)
  BY DEF Below
<1>6. K \in SUBSET Nat /\ IsFiniteSet(K)
  BY <1>5, KeyLinesIn, FS_Subset
<1>7. \A j \in K : t[j] = s[j]
  <2>1. DOMAIN g = DOMAIN f
    BY EditedPlaces
  <2>2. \A j \in K : j \in DOMAIN f /\ g[j] = f[j]
    BY <1>2, <1>5
  <2> QED
    BY <2>1, <2>2
<1>8. Reading(g, k).items = Selected(t, K) /\ Reading(f, k).items = Selected(s, K)
  BY <1>4, ReadingIs
<1> HIDE DEF s, t, K
<1>9. Selected(t, K) = Selected(s, K)
  BY <1>6, <1>7, SelectedSame
<1>10. Reading(g, k).items = Reading(f, k).items
  BY <1>8, <1>9
<1>11. ASSUME g[LastLine(f, k)] = f[LastLine(f, k)]
       PROVE  Reading(g, k) = Reading(f, k)
  <2>1. Reading(g, k).val = Reading(f, k).val
    BY <1>1, <1>11, ReadingIs
  <2> QED
    BY <1>10, <2>1, ReadingIs
<1> QED
  BY <1>1, <1>10, <1>11

----------------------------------------------------------------------------
(* A run on a page that parses.                                            *)

LEMMA NoDuplicates ==
    ASSUME NEW f, Parses(f)
    PROVE  Duplicated(f) = {}
  BY DEF Parses, Duplicated, Keys, KeyLines

\* A status is edited for one of two reasons.
LEMMA RunEdits ==
    ASSUME NEW t, NEW p \in PageTexts, p.head, Parses(p.fm),
           NEW q, q = Fixed(t, p)[1]
    PROVE  /\ q \in PageTexts
           /\ q.head
           /\ EditedPage(p, q)
           /\ \A i \in DOMAIN p.fm :
                  p.fm[i].key = Status =>
                      \/ q.fm[i] = p.fm[i]
                      \/ q.fm[i].val = InProgress /\ DateMismatch(p.fm)
                      \/ q.fm[i].val = Over /\ Finished(p)
<1> DEFINE u == AfterQuotes(p)
           n == AfterNumbers(p)
           s == AfterDates(p)
           c == AfterBoxes(p)
<1>1. q = c
  BY RunIs
<1>2. AfterKeys(p) = u
  BY NoDuplicates DEF AfterKeys
<1>3. /\ u \in PageTexts /\ n \in PageTexts /\ s \in PageTexts /\ c \in PageTexts
      /\ EditedPage(p, u) /\ EditedPage(u, n) /\ EditedPage(n, s) /\ EditedPage(s, c)
  BY <1>2, StageFacts
<1>4. EditedPage(p, c)
  BY <1>3, PageAgain
<1>5. c.head
  BY <1>4 DEF EditedPage
<1>6. ASSUME NEW i \in DOMAIN p.fm, p.fm[i].key = Status
      PROVE  \/ c.fm[i] = p.fm[i]
             \/ c.fm[i].val = InProgress /\ DateMismatch(p.fm)
             \/ c.fm[i].val = Over /\ Finished(p)
  <2>1. u.fm[i] = p.fm[i]
    BY <1>6, UnquotedIs, KeyNames DEF AfterQuotes
  <2>2. /\ DOMAIN u.fm = DOMAIN p.fm /\ DOMAIN n.fm = DOMAIN p.fm
        /\ DOMAIN s.fm = DOMAIN p.fm
    <3>1. ASSUME NEW x \in PageTexts, NEW y \in PageTexts, EditedPage(x, y)
          PROVE  DOMAIN y.fm = DOMAIN x.fm
      <4>1. x.fm \in Seq(Lines) /\ y.fm \in Seq(Lines) /\ Edited(x.fm, y.fm)
        BY <3>1, TextIs DEF EditedPage
      <4> QED
        BY <4>1, EditedPlaces
    <3> HIDE DEF u, n, s
    <3> QED
      BY <1>3, <3>1
  <2>3. n.fm[i] = u.fm[i]
    <3>1. u.fm[i].key # Priority
      BY <1>6, <2>1, KeyNames
    <3>2. n = u \/ n = Numbered(u)
      BY <1>2 DEF AfterNumbers
    <3> HIDE DEF n, u
    <3>3. Numbered(u).fm[i] = u.fm[i]
      BY <1>3, <2>2, <3>1, NumberedIs
    <3> QED
      BY <3>2, <3>3
  <2>4. s.fm[i] = n.fm[i] \/ (s.fm[i].val = InProgress /\ DateMismatch(p.fm))
    BY <1>3, <2>2, PromotedIs DEF AfterDates
  <2>5. c.fm[i] = s.fm[i] \/ (c.fm[i].val = Over /\ Finished(p))
    BY <1>3, <2>2, CompletedIs DEF AfterBoxes
  <2> HIDE DEF u, n, s, c
  <2> QED
    BY <2>1, <2>3, <2>4, <2>5
<1> QED
  BY <1>1, <1>3, <1>4, <1>5, <1>6

LEMMA StatusChange ==
    ASSUME NEW t, NEW p \in PageTexts, p.head, Parses(p.fm),
           NEW q, q = Fixed(t, p)[1]
    PROVE  \/ FirstStatus(q.fm) = FirstStatus(p.fm)
           \/ FirstStatus(q.fm) = InProgress /\ DateMismatch(p.fm)
           \/ FirstStatus(q.fm) = Over /\ Finished(p)
<1>1. /\ q \in PageTexts /\ EditedPage(p, q)
      /\ \A i \in DOMAIN p.fm :
             p.fm[i].key = Status =>
                 \/ q.fm[i] = p.fm[i]
                 \/ q.fm[i].val = InProgress /\ DateMismatch(p.fm)
                 \/ q.fm[i].val = Over /\ Finished(p)
  BY RunEdits
<1>2. p.fm \in Seq(Lines) /\ q.fm \in Seq(Lines) /\ Edited(p.fm, q.fm)
  BY <1>1, TextIs DEF EditedPage
<1>3. CASE FirstStatus(p.fm) = None
  BY <1>2, <1>3, StatusNow
<1>4. CASE FirstStatus(p.fm) # None
  <2>1. PICK i \in Fits(p.fm, Status, StatusWords) :
            FirstStatus(p.fm) = p.fm[i].val /\ FirstStatus(q.fm) = q.fm[i].val
    BY <1>2, <1>4, StatusNow
  <2>2. i \in DOMAIN p.fm /\ p.fm[i].key = Status
    BY DEF Fits
  <2> QED
    BY <1>1, <2>1, <2>2
<1> QED
  BY <1>3, <1>4

\* The first status of a page that parses is what a reader gets for the key.
LEMMA OnlyStatus ==
    ASSUME NEW f \in Seq(Lines), Parses(f), NEW i \in DOMAIN f, f[i].key = Status,
           f[i].val \in StatusWords
    PROVE  FirstStatus(f) = f[i].val
<1>1. i \in Fits(f, Status, StatusWords)
  BY DEF Fits
<1>2. PICK j \in Fits(f, Status, StatusWords) :
          FirstWord(f, Status, StatusWords) = f[j].val
  BY <1>1, FirstWordIs, NoWord
<1>3. j \in DOMAIN f /\ f[j].key = Status
  BY DEF Fits
<1>4. Status # Item
  BY KeyNames DEF EditedKeys
<1>5. j = i
  BY <1>3, <1>4 DEF Parses
<1> QED
  BY <1>2, <1>5, Firsts

----------------------------------------------------------------------------
(* A page that parses keeps what it means.                                 *)

SameMeaning(p, q) ==
    /\ Parses(q.fm)
    /\ Keys(q.fm) = Keys(p.fm)
    /\ \A i \in DOMAIN p.body :
           p.body[i].key = Box => q.body[i] = p.body[i]
    /\ \A k \in Keys(p.fm) :
        LET old == Reading(p.fm, k)
            new == Reading(q.fm, k)
        IN  \/ new = old
            \/ k = "priority" /\ new.val \in {"1", "2", "3"}
            \/ k \in BooleanKeys /\ new.val \in {"true", "false"}
            \/ /\ k = "status"
               /\ new.val = "in_progress"
               /\ old.val \in {"next", "backlog"}
               /\ DateKeys \cap Keys(p.fm) # {}
            \/ /\ k = "status"
               /\ new.val = "completed"
               /\ "recurring" \notin Keys(p.fm)
               /\ Line(Box, " ") \notin ToSet(p.body)

LEMMA PlainWord ==
    ASSUME NEW w, w \notin DOMAIN Commented
    PROVE  Word(w) = w
  BY DEF Word

LEMMA InConcat ==
    ASSUME NEW S, NEW s \in Seq(S), NEW t \in Seq(S), NEW i \in DOMAIN t
    PROVE  Len(s) + i \in DOMAIN (s \o t) /\ (s \o t)[Len(s) + i] = t[i]
<1> DEFINE n == Len(s)
           m == Len(t)
<1>1. n \in Nat /\ m \in Nat /\ i \in 1..m
  BY ConcatIs
<1>2. DOMAIN (s \o t) = 1..(n + m) /\ (s \o t)[n + i] = t[i]
  BY ConcatIs
<1> HIDE DEF n, m
<1>3. n + i \in 1..(n + m)
  BY <1>1
<1> QED
  BY <1>2, <1>3 DEF n

\* A page without an open box, where only done and begun ones are, has none.
LEMMA NoOpenBox ==
    ASSUME NEW p \in PageTexts, AllChecked(p)
    PROVE  Line(Box, " ") \notin ToSet(p.body)
<1> SUFFICES ASSUME Line(Box, " ") \in ToSet(p.body) PROVE FALSE
  OBVIOUS
<1> DEFINE fm == p.fm
           body == p.body
           s == fm \o body
<1>1. fm \in Seq(Lines) /\ body \in Seq(Lines) /\ Text(p) = s
  BY TextIs
<1>2. PICK i \in DOMAIN body : body[i] = Line(Box, " ")
  BY DEF ToSet
<1> DEFINE j == Len(fm) + i
<1> HIDE DEF fm, body
<1>4. j \in DOMAIN s /\ s[j] = body[i]
  BY <1>1, InConcat
<1> HIDE DEF j, s
<1>5. Line(Box, " ").key = Box /\ Line(Box, " ").val = " "
  BY DEF Line
<1>6. s[j].key = Box /\ s[j].val = " "
  BY <1>2, <1>4, <1>5
<1>7. j \in Boxes(p)
  BY <1>1, <1>4, <1>6 DEF Boxes
<1>8. s[j].val = "x"
  BY <1>1, <1>7 DEF AllChecked
<1> QED
  BY <1>6, <1>8

LEMMA MeaningIs ==
    ASSUME NEW t, NEW p \in PageTexts, p.head, Parses(p.fm)
    PROVE  SameMeaning(p, Fixed(t, p)[1])
<1> DEFINE q == Fixed(t, p)[1]
           f == p.fm
           g == q.fm
<1>1. /\ q \in PageTexts /\ EditedPage(p, q)
      /\ \A i \in DOMAIN f :
             f[i].key = Status =>
                 \/ g[i] = f[i]
                 \/ g[i].val = InProgress /\ DateMismatch(f)
                 \/ g[i].val = Over /\ Finished(p)
  BY RunEdits
<1> HIDE DEF q
<1>2. /\ f \in Seq(Lines) /\ g \in Seq(Lines) /\ Edited(f, g)
      /\ p.body \in Seq(Lines) /\ q.body \in Seq(Lines) /\ Edited(p.body, q.body)
  BY <1>1, TextIs DEF EditedPage
<1>3. Parses(g) /\ Keys(g) = Keys(f)
  BY <1>2, StillParses, SameKeys
<1>4. ASSUME NEW i \in DOMAIN p.body, p.body[i].key = Box
      PROVE  q.body[i] = p.body[i]
  <2>1. EditedLine(p.body[i], q.body[i])
    BY <1>2, EditedPlaces
  <2>2. p.body[i].key \notin EditedKeys
    BY <1>4, KeyNames
  <2> QED
    BY <2>1, <2>2, LineEdits
<1>5. ASSUME NEW k \in Keys(f)
      PROVE  LET old == Reading(f, k)
                 new == Reading(g, k)
             IN  \/ new = old
                 \/ k = "priority" /\ new.val \in {"1", "2", "3"}
                 \/ k \in BooleanKeys /\ new.val \in {"true", "false"}
                 \/ /\ k = "status"
                    /\ new.val = "in_progress"
                    /\ old.val \in {"next", "backlog"}
                    /\ DateKeys \cap Keys(f) # {}
                 \/ /\ k = "status"
                    /\ new.val = "completed"
                    /\ "recurring" \notin Keys(f)
                    /\ Line(Box, " ") \notin ToSet(p.body)
  <2> DEFINE i == LastLine(f, k)
             a == f[i]
             b == g[i]
  <2>1. /\ i \in DOMAIN f /\ a.key = k
        /\ b = a => Reading(g, k) = Reading(f, k)
        /\ Reading(f, k).val = Word(a.val) /\ Reading(g, k).val = Word(b.val)
    <3>1. i \in DOMAIN f /\ f[i].key = k
      BY <1>2, LastLineIs
    <3>2. /\ LastLine(g, k) = i
          /\ g[i] = f[i] => Reading(g, k) = Reading(f, k)
      BY <1>2, SameReading
    <3>3. Reading(f, k).val = Word(f[i].val)
      BY ReadingIs
    <3>4. Reading(g, k).val = Word(g[i].val)
      <4>1. Reading(g, k).val = Word(g[LastLine(g, k)].val)
        BY ReadingIs
      <4> QED
        BY <3>2, <4>1
    <3> QED
      BY <3>1, <3>2, <3>3, <3>4
  <2>2. EditedLine(a, b)
    BY <1>2, <2>1, EditedPlaces
  <2>3. k = Status =>
            \/ b = a
            \/ b.val = InProgress /\ DateMismatch(f)
            \/ b.val = Over /\ Finished(p)
    BY <1>1, <2>1
  <2>4. a.key = Status /\ a.val \in StatusWords => FirstStatus(f) = a.val
    BY <1>2, <2>1, OnlyStatus
  <2> HIDE DEF i, a, b
  <2>5. CASE b = a
    BY <2>1, <2>5
  <2>6. CASE Changed(a, b, {Priority}, PriorityWords, Numbers)
    <3>1. k = Priority /\ b.val \in Numbers
      BY <2>1, <2>6 DEF Changed
    <3>2. Word(b.val) = b.val
      BY <3>1, OpenWords, PlainWord
    <3> QED
      BY <2>1, <3>1, <3>2 DEF Priority, Numbers
  <2>7. CASE Changed(a, b, BooleanKeys, Quoted, Truths)
    <3>1. k \in BooleanKeys /\ b.val \in Truths
      BY <2>1, <2>7 DEF Changed
    <3>2. Word(b.val) = b.val
      BY <3>1, OpenWords, PlainWord
    <3> QED
      BY <2>1, <3>1, <3>2 DEF Truths
  <2>8. CASE b # a /\ Changed(a, b, {Status}, StatusWords, Moved)
    <3>1. k = Status /\ a.val \in StatusWords /\ b.val \in Moved
      BY <2>1, <2>8 DEF Changed
    <3>2. Word(b.val) = b.val /\ Word(a.val) = a.val
      BY <3>1, OpenWords, PlainWord
    <3>3. FirstStatus(f) = a.val
      BY <2>1, <2>4, <3>1
    <3>4. CASE b.val = InProgress /\ DateMismatch(f)
      <4>1. a.val \in Unstarted
        BY <3>3, <3>4, Rules
      <4>2. \E j \in DOMAIN f : f[j].key \in DateKeys
        BY <3>4 DEF DateMismatch
      <4>3. Item \notin DateKeys
        BY DEF Item, DateKeys
      <4>4. DateKeys \cap Keys(f) # {}
        BY <4>2, <4>3 DEF Keys
      <4> QED
        BY <2>1, <3>1, <3>2, <3>4, <4>1, <4>4 DEF Status, InProgress, Unstarted
    <3>5. CASE b.val = Over /\ Finished(p)
      <4>1. AllChecked(p) /\ CountsBoxes(p)
        BY <3>5, Rules
      <4>2. Line(Box, " ") \notin ToSet(p.body)
        BY <4>1, NoOpenBox
      <4>3. "recurring" \notin Keys(f)
        BY <4>1 DEF CountsBoxes
      <4> QED
        BY <2>1, <3>1, <3>2, <3>5, <4>2, <4>3 DEF Status, Over
    <3> QED
      BY <2>3, <2>8, <3>1, <3>4, <3>5
  <2> QED
    BY <2>2, <2>5, <2>6, <2>7, <2>8 DEF EditedLine
<1> HIDE DEF f, g
<1>6. SameMeaning(p, q)
  BY <1>3, <1>4, <1>5 DEF SameMeaning, f, g
<1> QED
  BY <1>6 DEF q

\* A run with --fix is the only step that counts one.
LEMMA FixStep ==
    ASSUME PageInv, Next, FixDone
    PROVE  page' = Fixed(type, page)[1] /\ type' = type /\ page \in PageTexts
<1>1. fixes \in Nat /\ fixes' = fixes + 1 /\ page \in PageTexts
  BY DEF PageInv, FixDone
<1>2. fixes' # fixes /\ fixes' # 0
  BY <1>1
<1>3. LintFix
  BY <1>2 DEF Next, Lint, Validate, LintFixDies
<1> QED
  BY <1>1, <1>3 DEF LintFix, FixRun

\* On a page that parses, --fix keeps every key, every checkbox and what each
\* key means, but for a priority that gets its number, a quoted boolean, and a
\* status that moves on for a reason the page gives.
THEOREM KeepsMeaning == Spec => MeaningKept
<1>1. ASSUME PageInv, Next, FixDone, page.head, Parses(page.fm)
      PROVE  SameMeaning(page, page')
  BY <1>1, FixStep, MeaningIs
<1>2. PageInv /\ [Next]_vars =>
          [FixDone /\ page.head /\ Parses(page.fm) =>
               SameMeaning(page, page')]_vars
  BY <1>1
<1>3. Spec => [][FixDone /\ page.head /\ Parses(page.fm) =>
                     SameMeaning(page, page')]_vars
  BY <1>2, PageAlways, PTL DEF Spec
<1> QED
  BY <1>3 DEF MeaningKept, SameMeaning

----------------------------------------------------------------------------
(* The rules on a page that parses, before and after its edits.            *)

LEMMA PriorityBefore ==
    ASSUME NEW f \in Seq(Lines), NEW g \in Seq(Lines), Edited(f, g), Parses(f),
           InvalidPriority(g)
    PROVE  InvalidPriority(f)
<1>1. FirstWord(g, Priority, PriorityWords) \in NumberedWords
  BY Firsts DEF InvalidPriority
<1>2. None \notin NumberedWords
  BY DEF None, NumberedWords
<1>3. PICK i \in Fits(g, Priority, PriorityWords) :
          FirstWord(g, Priority, PriorityWords) = g[i].val
  BY <1>1, <1>2, FirstWordIs, NoWord
<1>4. i \in Fits(f, Priority, PriorityWords) /\ g[i] = f[i]
  BY FewerPriorities
<1>5. PICK j \in Fits(f, Priority, PriorityWords) :
          FirstWord(f, Priority, PriorityWords) = f[j].val
  BY <1>4, FirstWordIs, NoWord
<1>6. /\ i \in DOMAIN f /\ f[i].key = Priority
      /\ j \in DOMAIN f /\ f[j].key = Priority
  BY <1>4 DEF Fits
<1>7. Priority # Item
  BY KeyNames DEF EditedKeys
<1>8. i = j
  BY <1>6, <1>7 DEF Parses
<1> QED
  BY <1>1, <1>3, <1>4, <1>5, <1>8, Firsts DEF InvalidPriority

LEMMA OtherReading ==
    ASSUME NEW f \in Seq(Lines), NEW g \in Seq(Lines), Edited(f, g),
           NEW k, k \notin EditedKeys
    PROVE  /\ k \in Keys(f) => Reading(g, k) = Reading(f, k)
           /\ Field(g, k) = Field(f, k)
<1>1. Keys(g) = Keys(f)
  BY SameKeys
<1>2. ASSUME k \in Keys(f) PROVE Reading(g, k) = Reading(f, k)
  <2>1. LastLine(f, k) \in KeyLines(f, k)
    BY <1>2, LastLineIs
  <2>2. g[LastLine(f, k)] = f[LastLine(f, k)]
    BY <2>1, OtherLines
  <2> QED
    BY <1>2, <2>2, SameReading
<1>3. Field(g, k) = Field(f, k)
  BY <1>1, <1>2 DEF Field
<1> QED
  BY <1>2, <1>3

\* A status that is edited was no list.
LEMMA EditedStatus ==
    ASSUME NEW f \in Seq(Lines), NEW g \in Seq(Lines), Edited(f, g),
           Status \in Keys(f)
    PROVE  \/ Reading(g, Status) = Reading(f, Status)
           \/ ~IsList(Reading(f, Status)) /\ Reading(g, Status).val \in Moved
<1> DEFINE i == LastLine(f, Status)
           a == f[i]
           b == g[i]
<1>1. i \in DOMAIN f /\ a.key = Status
  BY LastLineIs
<1>2. /\ LastLine(g, Status) = i
      /\ b = a => Reading(g, Status) = Reading(f, Status)
  BY SameReading
<1>3. Reading(f, Status).val = Word(a.val)
  BY ReadingIs
<1>4. Reading(g, Status).val = Word(b.val)
  <2>1. Reading(g, Status).val = Word(g[LastLine(g, Status)].val)
    BY ReadingIs
  <2> QED
    BY <1>2, <2>1
<1>5. EditedLine(a, b)
  BY <1>1, EditedPlaces
<1> HIDE DEF i, a, b
<1>6. ASSUME b # a
      PROVE  ~IsList(Reading(f, Status)) /\ Reading(g, Status).val \in Moved
  <2>1. a.val \in StatusWords /\ b.val \in Moved
    BY <1>1, <1>5, <1>6, KeyNames DEF EditedLine, Changed
  <2>2. Word(a.val) = a.val /\ Word(b.val) = b.val
    BY <2>1, OpenWords, PlainWord
  <2>3. a.val \notin DOMAIN FlowLists /\ a.val # ""
    BY <2>1, OpenWords, WordNames
  <2> QED
    BY <1>3, <1>4, <2>1, <2>2, <2>3 DEF IsList
<1> QED
  BY <1>2, <1>6

LEMMA DecodesBefore ==
    ASSUME NEW f \in Seq(Lines), NEW g \in Seq(Lines), Edited(f, g), Parses(f),
           NEW keys, keys \cap EditedKeys \subseteq {Status}, Decodes(g, keys)
    PROVE  Decodes(f, keys)
<1>1. Keys(g) = Keys(f)
  BY SameKeys
<1>2. ASSUME NEW k \in keys \cap Keys(f) PROVE ~IsList(Reading(f, k))
  <2>1. ~IsList(Reading(g, k))
    BY <1>1 DEF Decodes
  <2>2. CASE k \notin EditedKeys
    <3>1. Reading(g, k) = Reading(f, k)
      BY <2>2, OtherReading
    <3> QED
      BY <2>1, <3>1
  <2>3. CASE k = Status
    <3>1. \/ Reading(g, k) = Reading(f, k)
          \/ ~IsList(Reading(f, k))
      BY <2>3, EditedStatus
    <3> QED
      BY <2>1, <3>1
  <2> QED
    BY <2>2, <2>3
<1> QED
  BY <1>2 DEF Decodes

LEMMA OtherKeys ==
    /\ "defer_date" \notin EditedKeys /\ "created_by" \notin EditedKeys
    /\ "recurring" \notin EditedKeys /\ "blocked_by" \notin EditedKeys
    /\ "created" \notin EditedKeys /\ "goals" \notin EditedKeys
    /\ "task_identifier" \notin EditedKeys /\ "phase" \notin EditedKeys
    /\ "status" = Status
  BY DEF EditedKeys, BooleanKeys, Priority, Status

LEMMA HoldBefore ==
    ASSUME NEW f \in Seq(Lines), NEW g \in Seq(Lines), Edited(f, g), Parses(f),
           HoldWithDefer(g)
    PROVE  HoldWithDefer(f)
<1> DEFINE keys == {"status", "defer_date", "created_by", "recurring"}
<1>1. keys \cap EditedKeys \subseteq {Status}
  BY OtherKeys
<1>2. Decodes(g, keys)
  BY DEF HoldWithDefer
<1> HIDE DEF keys
<1>3. Decodes(f, keys)
  BY <1>1, <1>2, DecodesBefore
<1>4. /\ Field(g, "defer_date") = Field(f, "defer_date")
      /\ Field(g, "created_by") = Field(f, "created_by")
      /\ Field(g, "recurring") = Field(f, "recurring")
  BY OtherKeys, OtherReading
<1>5. Field(g, Status) = "hold"
  BY OtherKeys DEF HoldWithDefer
<1>6. "hold" # "" /\ "hold" # "folded" /\ "hold" \notin Moved
  BY DEF Moved
<1>7. Status \in Keys(g) /\ Reading(g, Status).items = <<>>
      /\ Reading(g, Status).val = "hold"
  BY <1>5, <1>6 DEF Field
<1>8. Status \in Keys(f)
  BY <1>7, SameKeys
<1>9. Reading(g, Status) = Reading(f, Status)
  BY <1>6, <1>7, <1>8, EditedStatus
<1>10. Field(f, Status) = "hold"
  BY <1>5, <1>7, <1>8, <1>9 DEF Field
<1> QED
  BY <1>3, <1>4, <1>10, OtherKeys DEF HoldWithDefer, keys

LEMMA BlockedBefore ==
    ASSUME NEW f \in Seq(Lines), NEW g \in Seq(Lines), Edited(f, g), Parses(f),
           BlockedByScalar(g)
    PROVE  BlockedByScalar(f)
<1>1. "blocked_by" \in Keys(f)
  BY SameKeys DEF BlockedByScalar
<1>2. Reading(g, "blocked_by") = Reading(f, "blocked_by")
  BY <1>1, OtherKeys, OtherReading
<1> QED
  BY <1>1, <1>2 DEF BlockedByScalar

LEMMA IdentifierBefore ==
    ASSUME NEW f \in Seq(Lines), NEW g \in Seq(Lines), Edited(f, g), Parses(f)
    PROVE  /\ IdentifierMissing(g) => IdentifierMissing(f)
           /\ IdentifierInvalid(g) => IdentifierInvalid(f)
<1> DEFINE keys == {"task_identifier"}
<1>1. keys \cap EditedKeys \subseteq {Status}
  BY OtherKeys
<1> HIDE DEF keys
<1>2. Decodes(g, keys) => Decodes(f, keys)
  BY <1>1, DecodesBefore
<1>3. Field(g, "task_identifier") = Field(f, "task_identifier")
  BY OtherKeys, OtherReading
<1> QED
  BY <1>2, <1>3 DEF IdentifierMissing, IdentifierInvalid, keys

LEMMA SameGoals ==
    ASSUME NEW f \in Seq(Lines), NEW g \in Seq(Lines), Edited(f, g)
    PROVE  OrphanGoals(g) = OrphanGoals(f)
<1> DEFINE inline(h) == {i \in KeyLines(h, "goals") : h[i].val \in DOMAIN FlowLists}
           lists(h) == {i \in KeyLines(h, "goals") :
                           h[i].val = "" /\ i + 1 \in KeyLines(h, Item)}
           items(h, l) == {h[i].val : i \in {i \in KeyLines(h, Item) : i > Min(l)}}
<1>1. /\ KeyLines(g, "goals") = KeyLines(f, "goals")
      /\ \A i \in KeyLines(f, "goals") : g[i] = f[i]
  BY OtherKeys, OtherLines
<1>2. /\ KeyLines(g, Item) = KeyLines(f, Item)
      /\ \A i \in KeyLines(f, Item) : g[i] = f[i]
  BY KeyNames, OtherLines
<1>3. inline(g) = inline(f)
  BY <1>1
<1>4. lists(g) = lists(f)
  BY <1>1, <1>2
<1>5. \A l : items(g, l) = items(f, l)
  BY <1>2
<1>6. inline(f) # {} => g[Min(inline(f))] = f[Min(inline(f))]
  <2>1. inline(f) \in SUBSET KeyLines(f, "goals")
    OBVIOUS
  <2>2. inline(f) \in SUBSET Nat /\ IsFiniteSet(inline(f))
    BY <2>1, KeyLinesIn, FS_Subset
  <2> HIDE DEF inline
  <2>3. inline(f) # {} => Min(inline(f)) \in inline(f)
    BY <2>2, MinIs
  <2> QED
    BY <1>1, <2>1, <2>3
<1>7. \A h : GoalItems(h) =
          IF inline(h) # {} THEN ToSet(FlowLists[h[Min(inline(h))].val])
          ELSE IF lists(h) = {} THEN {} ELSE items(h, lists(h))
  BY DEF GoalItems
<1> HIDE DEF inline, lists, items
<1>8. GoalItems(g) = GoalItems(f)
  BY <1>3, <1>4, <1>5, <1>6, <1>7
<1> QED
  BY <1>8 DEF OrphanGoals

\* A goal misses its start date only as before, or for being completed.
LEMMA CreatedBefore ==
    ASSUME NEW f \in Seq(Lines), NEW g \in Seq(Lines), Edited(f, g), Parses(g),
           CreatedMissing(g)
    PROVE  CreatedMissing(f) \/ FirstStatus(g) = Over
<1> DEFINE words == StatusWords \cup DOMAIN Commented
           F == Fits(f, Status, words)
           i == Min(F)
<1>1. /\ DOMAIN g = DOMAIN f
      /\ \A j \in DOMAIN f : EditedLine(f[j], g[j]) /\ g[j].key = f[j].key
  BY EditedPlaces
<1>2. ASSUME NEW j \in DOMAIN f, f[j].key = Status
      PROVE  /\ f[j].val \in words <=> g[j].val \in words
             /\ g[j] = f[j] \/ g[j].val \in Moved
  <2>1. EditedLine(f[j], g[j])
    BY <1>1
  <2>2. g[j] = f[j] \/ (f[j].val \in StatusWords /\ g[j].val \in Moved)
    BY <1>2, <2>1, KeyNames DEF EditedLine, Changed
  <2> QED
    BY <2>2, WordNames
<1>3. Fits(g, Status, words) = F
  <2> HIDE DEF words
  <2> QED
    BY <1>1, <1>2 DEF Fits
<1> HIDE DEF words
<1>4. /\ FirstWord(f, Status, words) = IF F = {} THEN None ELSE f[i].val
      /\ FirstWord(g, Status, words) = IF F = {} THEN None ELSE g[i].val
  BY <1>3 DEF FirstWord
<1>5. F # {} => i \in F
  BY FitsIn, MinIs
<1> HIDE DEF i, F
<1> DEFINE created(h) == KeyLines(h, "created")
<1>6. /\ created(g) = created(f)
      /\ \A j \in created(f) : g[j] = f[j]
  BY OtherKeys, OtherLines
<1>7. created(f) # {} => g[Min(created(f))] = f[Min(created(f))]
  <2>1. created(f) \in SUBSET Nat /\ IsFiniteSet(created(f))
    BY KeyLinesIn
  <2> HIDE DEF created
  <2> QED
    BY <1>6, <2>1, MinIs
<1>8. \A h : CreatedMissing(h) <=>
          /\ Word(FirstWord(h, Status, words)) = Over
          /\ created(h) = {} \/ h[Min(created(h))].val \in {"", "null"}
  BY OtherKeys DEF CreatedMissing, words, Over
<1> HIDE DEF created
<1>9. CASE FirstWord(g, Status, words) = FirstWord(f, Status, words)
  BY <1>6, <1>7, <1>8, <1>9
<1>10. CASE FirstWord(g, Status, words) # FirstWord(f, Status, words)
  <2>1. F # {} /\ g[i].val # f[i].val /\ i \in F
    BY <1>4, <1>5, <1>10
  <2>2. i \in DOMAIN f /\ f[i].key = Status
    BY <2>1 DEF F, Fits
  <2>3. g[i].val \in Moved /\ i \in DOMAIN g /\ g[i].key = Status
    BY <1>1, <1>2, <2>1, <2>2
  <2>4. Word(g[i].val) = g[i].val
    BY <2>3, OpenWords, PlainWord
  <2>5. g[i].val = Over
    BY <1>4, <1>8, <2>1, <2>4
  <2>6. FirstStatus(g) = g[i].val
    BY <2>3, OnlyStatus, WordNames
  <2> QED
    BY <2>5, <2>6
<1> QED
  BY <1>9, <1>10

\* A status and a phase that do not fit did not before either.
LEMMA PhaseBefore ==
    ASSUME NEW f \in Seq(Lines), NEW g \in Seq(Lines), Edited(f, g),
           \/ FirstStatus(g) = FirstStatus(f)
           \/ FirstStatus(g) = InProgress /\ FirstStatus(f) \in Unstarted,
           PhaseMismatch(g)
    PROVE  PhaseMismatch(f)
<1> DEFINE phase == FirstWord(f, "phase", Phases)
           over == {"completed", "aborted"}
           parked == {"backlog", "hold"}
<1>1. FirstWord(g, "phase", Phases) = phase
  BY OtherKeys, OtherWords
<1>2. \A h : PhaseMismatch(h) <=>
          /\ FirstStatus(h) # None
          /\ FirstWord(h, "phase", Phases) # None
          /\ \/ FirstStatus(h) \in over /\ FirstWord(h, "phase", Phases) # "done"
             \/ FirstStatus(h) \notin over /\ FirstWord(h, "phase", Phases) = "done"
             \/ /\ FirstStatus(h) \in parked
                /\ FirstWord(h, "phase", Phases) \in ActivePhases
  BY DEF PhaseMismatch
<1>3. /\ InProgress \notin over /\ InProgress \notin parked
      /\ \A w \in Unstarted : w \notin over
  BY DEF InProgress, Unstarted
<1> HIDE DEF phase, over, parked
<1>4. CASE FirstStatus(g) = FirstStatus(f)
  BY <1>1, <1>2, <1>4 DEF phase
<1>5. CASE FirstStatus(g) = InProgress /\ FirstStatus(f) \in Unstarted
  <2>1. FirstWord(g, "phase", Phases) = "done" /\ phase # None
    BY <1>1, <1>2, <1>3, <1>5
  <2>2. FirstStatus(f) # None
    BY <1>5, StatusNames
  <2> QED
    BY <1>1, <1>2, <1>3, <1>5, <2>1, <2>2 DEF phase
<1> QED
  BY <1>4, <1>5

\* Each rule that finds something afterwards found it before, or the status is
\* completed now.
LEMMA TroubleBefore ==
    ASSUME NEW t, NEW p \in PageTexts, p.head, Parses(p.fm),
           NEW q, q = Fixed(t, p)[1]
    PROVE  /\ InvalidPriority(q.fm) => InvalidPriority(p.fm)
           /\ InvalidStatus(q.fm) => InvalidStatus(p.fm)
           /\ PhaseMismatch(q.fm) => PhaseMismatch(p.fm) \/ FirstStatus(q.fm) = Over
           /\ DateMismatch(q.fm) => DateMismatch(p.fm)
           /\ HoldWithDefer(q.fm) => HoldWithDefer(p.fm)
           /\ Unfinished(q) => Unfinished(p)
           /\ Finished(q) => Finished(p)
           /\ BlockedByScalar(q.fm) => BlockedByScalar(p.fm)
           /\ CreatedMissing(q.fm) => CreatedMissing(p.fm) \/ FirstStatus(q.fm) = Over
           /\ IdentifierMissing(q.fm) => IdentifierMissing(p.fm)
           /\ IdentifierInvalid(q.fm) => IdentifierInvalid(p.fm)
           /\ Duplicated(q.fm) = Duplicated(p.fm)
           /\ QuotedBooleans(q.fm) \subseteq QuotedBooleans(p.fm)
           /\ OrphanGoals(q.fm) = OrphanGoals(p.fm)
<1> DEFINE f == p.fm
           g == q.fm
<1>1. q \in PageTexts /\ EditedPage(p, q)
  BY RunEdits
<1>2. f \in Seq(Lines) /\ g \in Seq(Lines) /\ Edited(f, g) /\ Parses(f)
  BY <1>1, TextIs DEF EditedPage
<1>3. Parses(g)
  BY <1>2, StillParses
<1>4. \/ FirstStatus(g) = FirstStatus(f)
      \/ FirstStatus(g) = InProgress /\ DateMismatch(f)
      \/ FirstStatus(g) = Over /\ Finished(p)
  BY StatusChange
<1>5. DateMismatch(f) => FirstStatus(f) \in Unstarted
  BY Rules
<1>6. /\ AllChecked(q) <=> AllChecked(p)
      /\ CountsBoxes(q) <=> CountsBoxes(p)
  BY <1>1, SameBoxes
<1>7. InvalidStatus(g) => InvalidStatus(f)
  <2>1. InProgress \in CanonicalStatuses /\ Over \in CanonicalStatuses
    BY DEF InProgress, Over, CanonicalStatuses
  <2> HIDE DEF f, g
  <2> QED
    BY <1>4, <2>1 DEF InvalidStatus
<1>8. PhaseMismatch(g) => PhaseMismatch(f) \/ FirstStatus(g) = Over
  BY <1>2, <1>4, <1>5, PhaseBefore
<1>9. DateMismatch(g) => DateMismatch(f)
  <2>1. DateMismatch(g) => FirstStatus(g) \in Unstarted
    BY Rules
  <2> QED
    BY <1>2, <1>4, <2>1, StatusNames, SameDateRule
<1>10. Unfinished(q) => Unfinished(p)
  BY <1>4, <1>6, Rules, StatusNames
<1>11. Finished(q) => Finished(p)
  BY <1>4, <1>5, <1>6, Rules, StatusNames
<1>12. CreatedMissing(g) => CreatedMissing(f) \/ FirstStatus(g) = Over
  BY <1>2, <1>3, CreatedBefore
<1> QED
  BY <1>2, <1>7, <1>8, <1>9, <1>10, <1>11, <1>12, PriorityBefore, HoldBefore,
     BlockedBefore, IdentifierBefore, SameKeys, FewerQuoted, SameGoals

LEMMA NewTrouble ==
    ASSUME NEW t, NEW p \in PageTexts, p.head, Parses(p.fm),
           NEW q, q = Fixed(t, p)[1],
           NEW i \in Issues(t, q), i \notin Issues(t, p)
    PROVE  /\ FirstStatus(q.fm) = "completed"
           /\ i.kind \in {"STATUS_PHASE_MISMATCH", "COMPLETED_GOAL_MISSING_CREATED"}
<1> DEFINE orphans == OrphanGoals(p.fm)
<1>1. q.head
  BY RunEdits
<1>2. OrphanGoals(q.fm) = orphans
  BY TroubleBefore
<1>3. Because(t, q, orphans, i)
  <2>1. i \in Found(t, q, OrphanGoals(q.fm))
    BY <1>1 DEF Issues
  <2> QED
    BY <1>2, <2>1, FoundMeans
<1>4. ~Because(t, p, orphans, i)
  <2>1. i \notin Found(t, p, orphans)
    BY DEF Issues
  <2> QED
    BY <2>1, FoundMeans
<1>5. CASE i = Issue("STATUS_PHASE_MISMATCH", "") /\ PhaseMismatch(q.fm)
  <2>1. FirstStatus(q.fm) = Over
    BY <1>4, <1>5, TroubleBefore DEF Because
  <2> QED
    BY <1>5, <2>1 DEF Issue, Over
<1>6. CASE /\ i = Issue("COMPLETED_GOAL_MISSING_CREATED", "")
           /\ t = "goal" /\ CreatedMissing(q.fm)
  <2>1. FirstStatus(q.fm) = Over
    BY <1>4, <1>6, TroubleBefore DEF Because
  <2> QED
    BY <1>6, <2>1 DEF Issue, Over
<1>7. CASE i = Issue("INVALID_PRIORITY", "") /\ InvalidPriority(q.fm)
  <2>1. InvalidPriority(q.fm) => InvalidPriority(p.fm)
    BY TroubleBefore
  <2>2. Because(t, p, orphans, i)
    BY <1>7, <2>1 DEF Because
  <2> QED
    BY <1>4, <2>2
<1>8. CASE i = Issue("INVALID_STATUS", "") /\ InvalidStatus(q.fm)
  <2>1. InvalidStatus(q.fm) => InvalidStatus(p.fm)
    BY TroubleBefore
  <2>2. Because(t, p, orphans, i)
    BY <1>8, <2>1 DEF Because
  <2> QED
    BY <1>4, <2>2
<1>9. CASE i = Issue("STATUS_DATE_MISMATCH", "") /\ DateMismatch(q.fm)
  <2>1. DateMismatch(q.fm) => DateMismatch(p.fm)
    BY TroubleBefore
  <2>2. Because(t, p, orphans, i)
    BY <1>9, <2>1 DEF Because
  <2> QED
    BY <1>4, <2>2
<1>10. CASE /\ i = Issue("HOLD_WITH_DEFER_DATE", "")
            /\ t = "task" /\ HoldWithDefer(q.fm)
  <2>1. HoldWithDefer(q.fm) => HoldWithDefer(p.fm)
    BY TroubleBefore
  <2>2. Because(t, p, orphans, i)
    BY <1>10, <2>1 DEF Because
  <2> QED
    BY <1>4, <2>2
<1>11. CASE i = Issue("UNFINISHED_CHECKBOXES", "") /\ Unfinished(q)
  <2>1. Unfinished(q) => Unfinished(p)
    BY TroubleBefore
  <2>2. Because(t, p, orphans, i)
    BY <1>11, <2>1 DEF Because
  <2> QED
    BY <1>4, <2>2
<1>12. CASE i = Issue("STATUS_CHECKBOX_MISMATCH", "") /\ Finished(q)
  <2>1. Finished(q) => Finished(p)
    BY TroubleBefore
  <2>2. Because(t, p, orphans, i)
    BY <1>12, <2>1 DEF Because
  <2> QED
    BY <1>4, <2>2
<1>13. CASE i = Issue("BLOCKED_BY_SCALAR", "") /\ BlockedByScalar(q.fm)
  <2>1. BlockedByScalar(q.fm) => BlockedByScalar(p.fm)
    BY TroubleBefore
  <2>2. Because(t, p, orphans, i)
    BY <1>13, <2>1 DEF Because
  <2> QED
    BY <1>4, <2>2
<1>14. CASE /\ i = Issue("MISSING_TASK_IDENTIFIER", "")
            /\ t = "task" /\ IdentifierMissing(q.fm)
  <2>1. IdentifierMissing(q.fm) => IdentifierMissing(p.fm)
    BY TroubleBefore
  <2>2. Because(t, p, orphans, i)
    BY <1>14, <2>1 DEF Because
  <2> QED
    BY <1>4, <2>2
<1>15. CASE /\ i = Issue("INVALID_TASK_IDENTIFIER", "")
            /\ t = "task" /\ IdentifierInvalid(q.fm)
  <2>1. IdentifierInvalid(q.fm) => IdentifierInvalid(p.fm)
    BY TroubleBefore
  <2>2. Because(t, p, orphans, i)
    BY <1>15, <2>1 DEF Because
  <2> QED
    BY <1>4, <2>2
<1>16. CASE \E k \in Duplicated(q.fm) : i = Issue("DUPLICATE_KEY", k)
  <2>1. Duplicated(q.fm) = Duplicated(p.fm)
    BY TroubleBefore
  <2>2. \E k \in Duplicated(p.fm) : i = Issue("DUPLICATE_KEY", k)
    BY <1>16, <2>1
  <2>3. Because(t, p, orphans, i)
    BY <2>2 DEF Because
  <2> QED
    BY <1>4, <2>3
<1>17. CASE \E k \in QuotedBooleans(q.fm) : i = Issue("QUOTED_BOOLEAN", k)
  <2>1. QuotedBooleans(q.fm) \subseteq QuotedBooleans(p.fm)
    BY TroubleBefore
  <2>2. \E k \in QuotedBooleans(p.fm) : i = Issue("QUOTED_BOOLEAN", k)
    BY <1>17, <2>1
  <2>3. Because(t, p, orphans, i)
    BY <2>2 DEF Because
  <2> QED
    BY <1>4, <2>3
<1>18. CASE \E g \in orphans : i = Issue("ORPHAN_GOAL", g)
  BY <1>4, <1>18 DEF Because
<1> HIDE DEF orphans
<1> QED
  BY <1>3, <1>5, <1>6, <1>7, <1>8, <1>9, <1>10, <1>11, <1>12, <1>13, <1>14, <1>15,
     <1>16, <1>17, <1>18 DEF Because

\* On a page that parses, --fix leads to no issue the page did not have, but
\* for what completing it leads to: the phase that is not done, and for a goal
\* the missing start date.
THEOREM NoTrouble == Spec => NoNewTrouble
<1> DEFINE New == IF page' = page THEN {}
                  ELSE Issues(type, page') \ Issues(type, page)
           Allowed(i) ==
               /\ FirstStatus(page'.fm) = "completed"
               /\ i.kind \in {"STATUS_PHASE_MISMATCH",
                              "COMPLETED_GOAL_MISSING_CREATED"}
<1>1. ASSUME PageInv, Next, FixDone, page.head, Parses(page.fm), NEW i \in New
      PROVE  Allowed(i)
  <2>1. page' = Fixed(type, page)[1] /\ page \in PageTexts
    BY <1>1, FixStep
  <2>2. i \in Issues(type, page') /\ i \notin Issues(type, page)
    BY <1>1
  <2> QED
    BY <1>1, <2>1, <2>2, NewTrouble
<1> HIDE DEF New, Allowed
<1>2. PageInv /\ [Next]_vars =>
          [FixDone /\ page.head /\ Parses(page.fm) =>
               \A i \in New : Allowed(i)]_vars
  BY <1>1
<1> USE DEF New, Allowed
<1>3. Spec => [][FixDone /\ page.head /\ Parses(page.fm) =>
                     \A i \in New : Allowed(i)]_vars
  BY <1>2, PageAlways, PTL DEF Spec
<1> QED
  BY <1>3 DEF NoNewTrouble

=============================================================================
