------------------------- MODULE TranscriptMutex -------------------------
(***************************************************************************)
(* What the per-session lock promises (docs/work-on-session-lifecycle.md,  *)
(* "The per-session lock"): a transcript has at most one process writing   *)
(* it, and it passes from one writer to the next only through a moment in  *)
(* which nobody writes.  How invocations mint, persist, lock, spawn and    *)
(* resume is left to WorkOnSession, which implements this module.          *)
(***************************************************************************)
CONSTANTS
    Sessions,  \* session ids, each naming one transcript file
    Writers,   \* processes that can write a transcript
    None       \* nobody is writing; not one of Writers

VARIABLE writer  \* writer[s]: the process writing the transcript of s

TypeOK == writer \in [Sessions -> Writers \cup {None}]

Init == writer = [s \in Sessions |-> None]

\* A claude process starts on session s.
Open(s, w) ==
    /\ writer[s] = None
    /\ writer' = [writer EXCEPT ![s] = w]

\* The claude process of session s ends.
Close(s) ==
    /\ writer[s] # None
    /\ writer' = [writer EXCEPT ![s] = None]

Next == \E s \in Sessions : Close(s) \/ \E w \in Writers : Open(s, w)

Spec == Init /\ [][Next]_writer
==========================================================================
