---------------------------- MODULE MCVaultTasks ----------------------------
(* Small tasks directories for VaultTasks.                                  *)
EXTENDS VaultTasks, TLC

CONSTANTS a, b, p1, p2, id1, id2, id3, which, why

\* A question, one that was answered before and contains the delimiter, a
\* blank item, a note between them, and a bullet of the next section.
QuestionsBody ==
    << Line("questions", <<>>),
       Line("item", <<which>>),
       Line("item", <<>>),
       Line("note", <<why>>),
       Line("item", <<why, Arrow, Stars, which, Arrow, Stars, why, Stars>>),
       Line("heading", <<why>>),
       Line("item", <<why>>) >>

MCTasks == {a, b}
MCProcs == {p1, p2}
MCIds == {id1, id2, id3}
MCWords == {which, why}
MCBodies == [t \in MCTasks |-> IF t = a THEN QuestionsBody ELSE <<>>]
MCIdentified == [t \in MCTasks |-> NoId]

\* Words, an arrow at the end, and an answer that cannot be read back.
MCAnswers == { <<which>>, <<why, Arrow>>, <<why, Arrow, Stars, which>> }

MCSymmetry == Permutations(MCProcs) \cup Permutations(MCIds)
=============================================================================
