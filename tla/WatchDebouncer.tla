-------------------------- MODULE WatchDebouncer -------------------------
(***************************************************************************)
(* `vault-cli watch`: pkg/ops/watch.go.  One goroutine (Execute) takes     *)
(* file events from fsnotify and re-arms a timer per vault path; each      *)
(* expired timer is a goroutine of its own, which first deletes the map    *)
(* entry of its path under the mutex and then calls the handler.           *)
(*                                                                         *)
(* A critical section of debouncer.mu is one step.  Between a timer's      *)
(* expiry, its critical section and its handler call anything may happen.  *)
(* Time itself is not modelled: a timer may expire at any moment after it  *)
(* was armed.                                                              *)
(***************************************************************************)
EXTENDS Naturals, Sequences

CONSTANTS
    Paths,      \* files whose events fsnotify reports
    Watched,    \* the .md files among them, in a registered directory
    MaxEvents   \* bound on changes of the file system

ASSUME WatchAssumption == Watched \subseteq Paths /\ MaxEvents \in Nat

Ops == {"Create", "Write", "Remove", "Rename", "Chmod"}

VARIABLES
    exists,   \* the files that exist now
    changes,  \* changes of the file system so far
    queue,    \* events fsnotify has not handed over yet: <<path, op>>
    loop,     \* "running", or "returned" once the context is done
    timers,   \* every timer ever armed, oldest first
    pending,  \* debouncer.pending: the index of a timer, 0 for no entry
    out,      \* handler calls so far: indices of timers
    prompt    \* prompt[k] (history): no event of k was scheduled while an
              \* expired timer of k had yet to call the handler

vars == <<exists, changes, queue, loop, timers, pending, out, prompt>>

\* A timer's life: armed, stopped, or expired, then its map entry deleted,
\* then its handler called.
TimerStates == {"armed", "stopped", "expired", "unlisted", "called"}

Types == {"created", "modified", "deleted"}

\* A timer reports the number-th change (history) of the file system.
Timer == [path : Watched, type : Types, number : Nat, state : TimerStates]

TypeOK ==
    /\ exists \subseteq Paths
    /\ changes \in 0..MaxEvents
    /\ queue \in Seq(Paths \X Ops)
    /\ loop \in {"running", "returned"}
    /\ timers \in Seq(Timer)
    /\ pending \in [Watched -> 0..Len(timers)]
    /\ out \in Seq(1..Len(timers))
    /\ prompt \in [Watched -> BOOLEAN]

Init ==
    /\ exists \in SUBSET Paths
    /\ changes = 0
    /\ queue = <<>>
    /\ loop = "running"
    /\ timers = <<>>
    /\ pending = [k \in Watched |-> 0]
    /\ out = <<>>
    /\ prompt = [k \in Watched |-> TRUE]

--------------------------------------------------------------------------
(* The file system, as fsnotify reports it.                                *)

Change(k, op) ==
    /\ changes < MaxEvents
    /\ changes' = changes + 1
    /\ queue' = Append(queue, <<k, op>>)
    /\ UNCHANGED <<loop, timers, pending, out, prompt>>

\* A new file, or a temporary one renamed onto k.
CreateFile(k) == exists' = exists \cup {k} /\ Change(k, "Create")

SaveFile(k) == k \in exists /\ Change(k, "Write") /\ UNCHANGED exists

TouchFile(k) == k \in exists /\ Change(k, "Chmod") /\ UNCHANGED exists

\* Deleted, or renamed to some other name.
RemoveFile(k) ==
    /\ k \in exists
    /\ exists' = exists \ {k}
    /\ \E op \in {"Remove", "Rename"} : Change(k, op)

--------------------------------------------------------------------------
(* Execute, handleEvent and schedule.                                      *)

\* Mutant: every operation is an event.
EventType_Any(op) ==
    IF op = "Chmod" THEN "changed" ELSE
    CASE op = "Write" -> "modified"
      [] op = "Create" -> "created"
      [] OTHER -> "deleted"

\* Mutant: a rename away is not reported.
EventType_RenameIgnored(op) ==
    CASE op = "Write" -> "modified"
      [] op = "Create" -> "created"
      [] op = "Remove" -> "deleted"
      [] OTHER -> ""

\* mapFsnotifyOp; "" is ignored.
EventType(op) ==
    CASE op = "Write" -> "modified"
      [] op = "Create" -> "created"
      [] op \in {"Remove", "Rename"} -> "deleted"
      [] OTHER -> ""

SetState(t, s) == timers' = [timers EXCEPT ![t].state = s]

\* Mutant: the old timer is not stopped.
Stopped_Never(ts, t) == ts

\* Timer.Stop: an expired timer is too late to stop.
Stopped(ts, t) ==
    IF t # 0 /\ ts[t].state = "armed"
    THEN [ts EXCEPT ![t].state = "stopped"] ELSE ts

\* An expired timer of k whose handler call is still to come.
Overdue(k) ==
    \E t \in DOMAIN timers :
        timers[t].path = k /\ timers[t].state \in {"expired", "unlisted"}

\* A timer for the event that is now taken from the queue.
Armed(k, type) == [path |-> k, type |-> type, state |-> "armed",
                   number |-> changes - Len(queue) + 1]

\* Mutant: a path that is already waiting is not scheduled again.
Schedule_KeepFirst(k, type) ==
    IF pending[k] # 0 THEN UNCHANGED <<timers, pending, prompt>>
    ELSE /\ timers' = Append(timers, Armed(k, type))
         /\ pending' = [pending EXCEPT ![k] = Len(timers) + 1]
         /\ prompt' = [prompt EXCEPT ![k] = @ /\ ~Overdue(k)]

\* schedule: stop the timer the map has for k, arm and enter a new one.
Schedule(k, type) ==
    /\ timers' = Append(Stopped(timers, pending[k]), Armed(k, type))
    /\ pending' = [pending EXCEPT ![k] = Len(timers) + 1]
    /\ prompt' = [prompt EXCEPT ![k] = @ /\ ~Overdue(k)]

\* Execute takes the next event; handleEvent ignores other files and ops.
HandleEvent ==
    /\ loop = "running"
    /\ queue # <<>>
    /\ queue' = Tail(queue)
    /\ LET k == Head(queue)[1]
           type == EventType(Head(queue)[2])
       IN IF k \in Watched /\ type # ""
          THEN Schedule(k, type)
          ELSE UNCHANGED <<timers, pending, prompt>>
    /\ UNCHANGED <<exists, changes, loop, out>>

\* The context is done: no further event is taken.
Cancel ==
    /\ loop = "running"
    /\ loop' = "returned"
    /\ UNCHANGED <<exists, changes, queue, timers, pending, out, prompt>>

--------------------------------------------------------------------------
(* A timer's goroutine.                                                    *)

Expire(t) ==
    /\ timers[t].state = "armed"
    /\ SetState(t, "expired")
    /\ UNCHANGED <<exists, changes, queue, loop, pending, out, prompt>>

\* delete(d.pending, key), whichever timer the entry is by now.
Unlisted(k) == [pending EXCEPT ![k] = 0]

Unlist(t) ==
    /\ timers[t].state = "expired"
    /\ SetState(t, "unlisted")
    /\ pending' = Unlisted(timers[t].path)
    /\ UNCHANGED <<exists, changes, queue, loop, out, prompt>>

CallHandler(t) ==
    /\ timers[t].state = "unlisted"
    /\ SetState(t, "called")
    /\ out' = Append(out, t)
    /\ UNCHANGED <<exists, changes, queue, loop, pending, prompt>>

TimerStep(t) == Expire(t) \/ Unlist(t) \/ CallHandler(t)

Next ==
    \/ \E k \in Paths :
           CreateFile(k) \/ SaveFile(k) \/ TouchFile(k) \/ RemoveFile(k)
    \/ HandleEvent
    \/ Cancel
    \/ \E t \in DOMAIN timers : TimerStep(t)

Spec == Init /\ [][Next]_vars

\* While the command runs, timers expire and goroutines get their turn.  Once
\* Execute has returned the process may end at any moment.
FairSpec ==
    /\ Spec
    /\ WF_vars(HandleEvent)
    /\ \A t \in 1..MaxEvents :
           WF_vars(loop = "running" /\ t \in DOMAIN timers /\ TimerStep(t))

--------------------------------------------------------------------------
(* Properties.                                                             *)

Of(k) == {t \in DOMAIN timers : timers[t].path = k}
Live(t) == timers[t].state \in {"armed", "expired", "unlisted"}

\* While its timers are prompt, a path has at most one that can still call
\* the handler, and it is the newest.
OneLiveWhenPrompt ==
    \A k \in Watched : prompt[k] =>
        \A t, u \in Of(k) : Live(t) => u <= t

\* Nothing of k is under way any more.
Settled(k) ==
    /\ \A i \in DOMAIN queue : queue[i][1] # k
    /\ \A t \in Of(k) : ~Live(t)

\* The handler calls for k.
Called(k) == {i \in DOMAIN out : timers[out[i]].path = k}

\* What a watcher was told last about a prompt path is true: "deleted" iff
\* the file is gone, however the changes were collapsed.
LastWordTrue ==
    \A k \in Watched :
        prompt[k] /\ Settled(k) =>
            \A i \in Called(k) : (\A j \in Called(k) : j <= i) =>
                (timers[out[i]].type = "deleted" <=> k \notin exists)

\* The n-th change is one of k that a watcher wants to hear of.
Reportable(k, n) ==
    \E i \in DOMAIN queue :
        /\ n = changes - Len(queue) + i
        /\ queue[i][1] = k /\ queue[i][2] # "Chmod"

\* As long as the watch runs, a reportable change is followed by a handler
\* call for its file made from this change or a later one: collapsing events
\* loses no last event.
NothingLost ==
    \A k \in Watched, n \in 1..MaxEvents :
        Reportable(k, n) ~>
            \/ loop = "returned"
            \/ \E i \in DOMAIN out : /\ timers[out[i]].path = k
                                     /\ timers[out[i]].number >= n

==========================================================================
