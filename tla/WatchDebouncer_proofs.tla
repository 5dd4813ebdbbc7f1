------------------------ MODULE WatchDebouncer_proofs ------------------------
(***************************************************************************)
(* What WatchDebouncer says of the watcher's timers, for any files, any    *)
(* number of changes and any order of the timers' steps.                   *)
(***************************************************************************)
EXTENDS WatchDebouncer, SequenceTheorems, TLAPS

USE WatchAssumption

\* No event is in the queue that did not happen: a timer's number is a number.
QueueBound == Len(queue) <= changes

\* While the timers of a path are prompt, the map knows the armed one.  (When
\* they are not, a late timer may have deleted the entry of its successor.)
ArmedPending ==
    \A k \in Watched : prompt[k] =>
        \A t \in Of(k) : timers[t].state = "armed" => pending[k] = t

----------------------------------------------------------------------------
(* Types.                                                                  *)

\* A timer that changes its state is a timer of the same path.
LEMMA StateSet ==
    ASSUME timers \in Seq(Timer), NEW t \in DOMAIN timers,
           NEW s \in TimerStates
    PROVE  /\ [timers EXCEPT ![t].state = s] \in Seq(Timer)
           /\ Len([timers EXCEPT ![t].state = s]) = Len(timers)
           /\ \A u \in DOMAIN timers :
                  /\ [timers EXCEPT ![t].state = s][u].path = timers[u].path
                  /\ [timers EXCEPT ![t].state = s][u].type = timers[u].type
                  /\ [timers EXCEPT ![t].state = s][u].state =
                         IF u = t THEN s ELSE timers[u].state
<1> DEFINE new == [timers[t] EXCEPT !.state = s]
<1>1. timers[t] \in Timer
  OBVIOUS
<1>2. /\ new \in Timer
      /\ new.path = timers[t].path /\ new.type = timers[t].type
      /\ new.state = s
  BY <1>1 DEF Timer
<1>3. [timers EXCEPT ![t].state = s] = [timers EXCEPT ![t] = new]
  OBVIOUS
<1> HIDE DEF new
<1>4. /\ [timers EXCEPT ![t] = new] \in Seq(Timer)
      /\ Len([timers EXCEPT ![t] = new]) = Len(timers)
      /\ \A u \in DOMAIN timers :
             [timers EXCEPT ![t] = new][u] = IF u = t THEN new ELSE timers[u]
  BY <1>2
<1> QED
  BY <1>2, <1>3, <1>4

\* What schedule makes of the timers: the one in the map is stopped if it still
\* can be, and a new one is armed.
LEMMA Scheduled ==
    ASSUME timers \in Seq(Timer), QueueBound, queue \in Seq(Paths \X Ops),
           changes \in Nat, queue # <<>>,
           NEW k \in Watched, NEW type \in Types,
           pending \in [Watched -> 0..Len(timers)], Schedule(k, type)
    PROVE  /\ timers' \in Seq(Timer) /\ Len(timers') = Len(timers) + 1
           /\ timers'[Len(timers) + 1].path = k
           /\ timers'[Len(timers) + 1].type = type
           /\ timers'[Len(timers) + 1].state = "armed"
           /\ \A u \in DOMAIN timers :
                  /\ timers'[u].path = timers[u].path
                  /\ timers'[u].type = timers[u].type
                  /\ timers'[u].state =
                         IF u = pending[k] /\ timers[u].state = "armed"
                         THEN "stopped" ELSE timers[u].state
<1> DEFINE stopped == Stopped(timers, pending[k])
           new == Armed(k, type)
<1>1. /\ stopped \in Seq(Timer) /\ Len(stopped) = Len(timers)
      /\ \A u \in DOMAIN timers :
             /\ stopped[u].path = timers[u].path
             /\ stopped[u].type = timers[u].type
             /\ stopped[u].state =
                    IF u = pending[k] /\ timers[u].state = "armed"
                    THEN "stopped" ELSE timers[u].state
  <2>1. CASE pending[k] # 0 /\ timers[pending[k]].state = "armed"
    <3>1. pending[k] \in DOMAIN timers /\ pending[k] \in Nat
      BY <2>1
    <3>2. stopped = [timers EXCEPT ![pending[k]].state = "stopped"]
      BY <2>1 DEF Stopped
    <3>3. "stopped" \in TimerStates
      BY DEF TimerStates
    <3> DEFINE kept == [timers EXCEPT ![pending[k]].state = "stopped"]
    <3>4. /\ kept \in Seq(Timer)
          /\ Len(kept) = Len(timers)
          /\ \A u \in DOMAIN timers :
                 /\ kept[u].path = timers[u].path
                 /\ kept[u].type = timers[u].type
                 /\ kept[u].state =
                        IF u = pending[k] THEN "stopped" ELSE timers[u].state
      BY <3>1, <3>3, StateSet
    <3> HIDE DEF kept
    <3> QED
      BY <2>1, <3>2, <3>4 DEF kept
  <2>2. CASE ~(pending[k] # 0 /\ timers[pending[k]].state = "armed")
    <3>1. stopped = timers
      BY <2>2 DEF Stopped
    <3> QED
      BY <2>2, <3>1
  <2> QED
    BY <2>1, <2>2
<1>2. new \in Timer /\ new.path = k /\ new.type = type /\ new.state = "armed"
  <2>1. Len(queue) \in Nat /\ changes - Len(queue) + 1 \in Nat
    BY DEF QueueBound
  <2> QED
    BY <2>1 DEF Armed, Timer, TimerStates
<1>3. timers' = Append(stopped, new)
  BY DEF Schedule
<1> HIDE DEF stopped, new
<1> QED
  BY <1>1, <1>2, <1>3

\* A set of timers only grows, and what points into it goes on doing so.
LEMMA Grown ==
    ASSUME NEW n \in Nat, NEW m \in Nat, n <= m,
           NEW f \in [Watched -> 0..n], NEW s \in Seq(1..n)
    PROVE  f \in [Watched -> 0..m] /\ s \in Seq(1..m)
<1>1. 0..n \subseteq 0..m /\ 1..n \subseteq 1..m
  OBVIOUS
<1>2. s \in [1..Len(s) -> 1..m] /\ Len(s) \in Nat
  BY <1>1
<1> QED
  BY <1>1, <1>2

----------------------------------------------------------------------------
(* The invariant.                                                          *)

IInv == TypeOK /\ QueueBound /\ ArmedPending /\ OneLiveWhenPrompt

LEMMA Initially == Init => IInv
  BY DEF Init, IInv, TypeOK, QueueBound, ArmedPending, OneLiveWhenPrompt, Of

\* A change of the file system touches no timer.
LEMMA ChangeKeeps ==
    ASSUME IInv, NEW k \in Paths, NEW op \in Ops,
           exists' \subseteq Paths, Change(k, op)
    PROVE  IInv'
<1> USE DEF IInv, Change
<1>1. changes \in Nat /\ changes < MaxEvents /\ queue \in Seq(Paths \X Ops)
  BY DEF TypeOK
<1>2. <<k, op>> \in Paths \X Ops
  OBVIOUS
<1>3. queue' \in Seq(Paths \X Ops) /\ Len(queue') = Len(queue) + 1
  BY <1>1, <1>2
<1>4. TypeOK'
  BY <1>1, <1>3 DEF TypeOK
<1>5. QueueBound'
  BY <1>1, <1>3 DEF QueueBound
<1> QED
  BY <1>4, <1>5 DEF ArmedPending, OneLiveWhenPrompt, Of, Live

\* A timer that goes from one state to another, its type and its path unharmed.
LEMMA StateKeeps ==
    ASSUME IInv, NEW t \in DOMAIN timers, NEW s \in TimerStates, SetState(t, s)
    PROVE  /\ timers' \in Seq(Timer) /\ Len(timers') = Len(timers)
           /\ DOMAIN timers' = DOMAIN timers
           /\ \A u \in DOMAIN timers :
                  /\ timers'[u].path = timers[u].path
                  /\ timers'[u].type = timers[u].type
                  /\ timers'[u].state = IF u = t THEN s ELSE timers[u].state
<1>1. timers \in Seq(Timer)
  BY DEF IInv, TypeOK
<1>2. timers' = [timers EXCEPT ![t].state = s]
  BY DEF SetState
<1>3. timers' \in Seq(Timer) /\ Len(timers') = Len(timers)
  BY <1>1, <1>2, StateSet
<1>4. DOMAIN timers' = DOMAIN timers
  BY <1>1, <1>3
<1> QED
  BY <1>1, <1>2, <1>3, <1>4, StateSet

LEMMA ExpireKeeps ==
    ASSUME IInv, NEW t \in DOMAIN timers, Expire(t)
    PROVE  IInv'
<1>1. "expired" \in TimerStates /\ SetState(t, "expired")
  BY DEF TimerStates, Expire
<1>2. /\ timers' \in Seq(Timer) /\ Len(timers') = Len(timers)
      /\ DOMAIN timers' = DOMAIN timers
      /\ \A u \in DOMAIN timers :
             /\ timers'[u].path = timers[u].path
             /\ timers'[u].state = IF u = t THEN "expired" ELSE timers[u].state
  BY <1>1, StateKeeps
<1>3. /\ timers[t].state = "armed"
      /\ UNCHANGED <<exists, changes, queue, loop, pending, out, prompt>>
  BY DEF Expire
<1>4. TypeOK' /\ QueueBound'
  BY <1>2, <1>3 DEF IInv, TypeOK, QueueBound
<1>5. ArmedPending'
  BY <1>2, <1>3 DEF IInv, ArmedPending, Of
<1>6. OneLiveWhenPrompt'
  BY <1>2, <1>3 DEF IInv, OneLiveWhenPrompt, Of, Live
<1> QED
  BY <1>4, <1>5, <1>6 DEF IInv

\* The entry that is deleted is that of the path's only live timer, which is
\* the one that deletes it: no other timer of the path is armed.
LEMMA UnlistKeeps ==
    ASSUME IInv, NEW t \in DOMAIN timers, Unlist(t)
    PROVE  IInv'
<1> DEFINE k == timers[t].path
<1>1. "unlisted" \in TimerStates /\ SetState(t, "unlisted")
  BY DEF TimerStates, Unlist
<1>2. /\ timers' \in Seq(Timer) /\ Len(timers') = Len(timers)
      /\ DOMAIN timers' = DOMAIN timers
      /\ \A u \in DOMAIN timers :
             /\ timers'[u].path = timers[u].path
             /\ timers'[u].state = IF u = t THEN "unlisted" ELSE timers[u].state
  BY <1>1, StateKeeps
<1>3. /\ timers[t].state = "expired" /\ pending' = [pending EXCEPT ![k] = 0]
      /\ UNCHANGED <<exists, changes, queue, loop, out, prompt>>
  BY DEF Unlist, Unlisted
<1>4. timers \in Seq(Timer) /\ pending \in [Watched -> 0..Len(timers)]
  BY DEF IInv, TypeOK
<1>5. timers[t] \in Timer /\ t \in Nat
  BY <1>4
<1>6. k \in Watched
  BY <1>5 DEF Timer
<1>7. TypeOK' /\ QueueBound'
  <2>1. pending' \in [Watched -> 0..Len(timers)]
    BY <1>3, <1>4, <1>6
  <2> QED
    BY <2>1, <1>2, <1>3 DEF IInv, TypeOK, QueueBound
<1>8. ArmedPending'
  <2> SUFFICES ASSUME NEW j \in Watched, prompt[j], NEW u \in DOMAIN timers,
                      timers[u].path = j, timers[u].state = "armed", u # t
               PROVE  pending'[j] = u
    BY <1>2, <1>3 DEF ArmedPending, Of
  <2>1. pending[j] = u
    BY DEF IInv, ArmedPending, Of
  <2>2. j # k
    <3> SUFFICES ASSUME j = k PROVE FALSE
      OBVIOUS
    <3>1. Live(t) /\ Live(u)
      BY <1>3 DEF Live
    <3>2. t <= u /\ u <= t
      BY <3>1 DEF IInv, OneLiveWhenPrompt, Of
    <3> QED
      BY <3>2, <1>4
  <2> QED
    BY <2>1, <2>2, <1>3, <1>4
<1>9. OneLiveWhenPrompt'
  BY <1>2, <1>3 DEF IInv, OneLiveWhenPrompt, Of, Live
<1> QED
  BY <1>7, <1>8, <1>9 DEF IInv

LEMMA CallKeeps ==
    ASSUME IInv, NEW t \in DOMAIN timers, CallHandler(t)
    PROVE  IInv'
<1>1. "called" \in TimerStates /\ SetState(t, "called")
  BY DEF TimerStates, CallHandler
<1>2. /\ timers' \in Seq(Timer) /\ Len(timers') = Len(timers)
      /\ DOMAIN timers' = DOMAIN timers
      /\ \A u \in DOMAIN timers :
             /\ timers'[u].path = timers[u].path
             /\ timers'[u].state = IF u = t THEN "called" ELSE timers[u].state
  BY <1>1, StateKeeps
<1>3. /\ timers[t].state = "unlisted" /\ out' = Append(out, t)
      /\ UNCHANGED <<exists, changes, queue, loop, pending, prompt>>
  BY DEF CallHandler
<1>4. TypeOK' /\ QueueBound'
  <2>1. t \in 1..Len(timers) /\ out \in Seq(1..Len(timers))
    BY DEF IInv, TypeOK
  <2>2. out' \in Seq(1..Len(timers))
    BY <2>1, <1>3
  <2> QED
    BY <2>2, <1>2, <1>3 DEF IInv, TypeOK, QueueBound
<1>5. ArmedPending'
  BY <1>2, <1>3 DEF IInv, ArmedPending, Of
<1>6. OneLiveWhenPrompt'
  BY <1>2, <1>3 DEF IInv, OneLiveWhenPrompt, Of, Live
<1> QED
  BY <1>4, <1>5, <1>6 DEF IInv

\* An event is handled.  Unless one is overdue, the live timers of the path
\* are armed, hence the one in the map, which schedule stops.
LEMMA ScheduleKeeps ==
    ASSUME IInv, queue # <<>>, queue' = Tail(queue),
           UNCHANGED <<exists, changes, loop, out>>,
           NEW k \in Watched, NEW type \in Types, Schedule(k, type)
    PROVE  IInv'
<1> DEFINE n == Len(timers)
<1>1. /\ timers \in Seq(Timer) /\ pending \in [Watched -> 0..n] /\ n \in Nat
      /\ queue \in Seq(Paths \X Ops) /\ changes \in 0..MaxEvents
      /\ QueueBound /\ prompt \in [Watched -> BOOLEAN] /\ out \in Seq(1..n)
  BY DEF IInv, TypeOK
<1>2. /\ timers' \in Seq(Timer) /\ Len(timers') = n + 1
      /\ timers'[n + 1].path = k
      /\ timers'[n + 1].state = "armed"
      /\ \A u \in DOMAIN timers :
             /\ timers'[u].path = timers[u].path
             /\ timers'[u].state =
                    IF u = pending[k] /\ timers[u].state = "armed"
                    THEN "stopped" ELSE timers[u].state
  BY <1>1, Scheduled
<1>3. /\ pending' = [pending EXCEPT ![k] = n + 1]
      /\ prompt' = [prompt EXCEPT ![k] = @ /\ ~Overdue(k)]
  BY DEF Schedule
<1>4. DOMAIN timers = 1..n /\ DOMAIN timers' = 1..(n + 1)
  BY <1>1, <1>2
<1>5. \A x \in 1..(n + 1) : x # n + 1 => x \in 1..n
  <2>1. n \in Nat
    BY <1>1
  <2> HIDE DEF n
  <2> QED
    BY <2>1
<1>6. ASSUME prompt'[k]
      PROVE  \A u \in 1..n : timers'[u].path = k =>
                 timers'[u].state \notin {"armed", "expired", "unlisted"}
  <2>1. prompt[k] /\ ~Overdue(k)
    BY <1>1, <1>3, <1>6
  <2> SUFFICES ASSUME NEW u \in 1..n, timers[u].path = k
               PROVE  timers'[u].state \notin {"armed", "expired", "unlisted"}
    BY <1>2, <1>4
  <2>2. timers[u].state \notin {"expired", "unlisted"}
    BY <2>1, <1>4 DEF Overdue
  <2>3. timers[u].state = "armed" => pending[k] = u
    BY <2>1, <1>4 DEF IInv, ArmedPending, Of
  <2> QED
    BY <2>2, <2>3, <1>2, <1>4
<1>7. \A j \in Watched : j # k => prompt'[j] = prompt[j] /\ pending'[j] = pending[j]
  BY <1>1, <1>3
<1>8. TypeOK'
  <2>1. pending \in [Watched -> 0..(n + 1)] /\ out \in Seq(1..(n + 1))
    BY <1>1, Grown
  <2>2. pending' \in [Watched -> 0..(n + 1)]
    BY <2>1, <1>1, <1>3
  <2>3. prompt' \in [Watched -> BOOLEAN]
    BY <1>1, <1>3
  <2>4. queue' \in Seq(Paths \X Ops)
    BY <1>1
  <2> QED
    BY <2>1, <2>2, <2>3, <2>4, <1>2 DEF IInv, TypeOK
<1>9. QueueBound'
  BY <1>1 DEF QueueBound
<1>10. ArmedPending'
  <2> SUFFICES ASSUME NEW j \in Watched, prompt'[j], NEW u \in 1..(n + 1),
                      timers'[u].path = j, timers'[u].state = "armed"
               PROVE  pending'[j] = u
    BY <1>4 DEF ArmedPending, Of
  <2>1. CASE u = n + 1
    BY <2>1, <1>1, <1>2, <1>3
  <2>2. CASE u # n + 1
    <3>1. u \in 1..n
      BY <2>2, <1>5
    <3>2. j # k
      BY <3>1, <1>6
    <3>3. timers[u].path = j /\ timers[u].state = "armed"
      BY <3>1, <1>2, <1>4
    <3> QED
      BY <3>1, <3>2, <3>3, <1>4, <1>7 DEF IInv, ArmedPending, Of
  <2> QED
    BY <2>1, <2>2
<1>11. OneLiveWhenPrompt'
  <2> SUFFICES ASSUME NEW j \in Watched, prompt'[j],
                      NEW t \in 1..(n + 1), NEW u \in 1..(n + 1),
                      timers'[t].path = j, timers'[u].path = j,
                      timers'[t].state \in {"armed", "expired", "unlisted"}
               PROVE  u <= t
    BY <1>4 DEF OneLiveWhenPrompt, Of, Live
  <2>1. CASE t = n + 1
    BY <2>1, <1>1
  <2>2. CASE t # n + 1
    <3>1. t \in 1..n
      BY <2>2, <1>5
    <3>2. j # k
      BY <3>1, <1>6
    <3>3. u \in 1..n
      BY <3>2, <1>1, <1>2
    <3>4. timers[t].path = j /\ timers[u].path = j
      BY <3>1, <3>3, <1>2, <1>4
    <3>5. timers[t].state \in {"armed", "expired", "unlisted"}
      BY <3>1, <1>2, <1>4
    <3> QED
      BY <3>1, <3>2, <3>3, <3>4, <3>5, <1>4, <1>7
         DEF IInv, OneLiveWhenPrompt, Of, Live
  <2> QED
    BY <2>1, <2>2
<1> QED
  BY <1>8, <1>9, <1>10, <1>11 DEF IInv

LEMMA HandleKeeps ==
    ASSUME IInv, HandleEvent
    PROVE  IInv'
<1> DEFINE k == Head(queue)[1]
           type == EventType(Head(queue)[2])
<1>1. /\ queue # <<>> /\ queue' = Tail(queue)
      /\ UNCHANGED <<exists, changes, loop, out>>
  BY DEF HandleEvent
<1>2. CASE k \in Watched /\ type # ""
  <2>1. Schedule(k, type)
    BY <1>2 DEF HandleEvent
  <2>2. queue \in Seq(Paths \X Ops)
    BY DEF IInv, TypeOK
  <2>3. Head(queue) \in Paths \X Ops
    BY <1>1, <2>2
  <2>4. type \in Types
    BY <1>2, <2>3 DEF EventType, Ops, Types
  <2> HIDE DEF k, type
  <2> QED
    BY <1>1, <1>2, <2>1, <2>4, ScheduleKeeps
<1>3. CASE ~(k \in Watched /\ type # "")
  <2>1. UNCHANGED <<timers, pending, prompt>>
    BY <1>3 DEF HandleEvent
  <2>2. queue \in Seq(Paths \X Ops) /\ changes \in 0..MaxEvents
    BY DEF IInv, TypeOK
  <2>3. queue' \in Seq(Paths \X Ops) /\ Len(queue') = Len(queue) - 1
    BY <1>1, <2>2
  <2>4. TypeOK' /\ QueueBound'
    BY <1>1, <2>1, <2>2, <2>3 DEF IInv, TypeOK, QueueBound
  <2>5. ArmedPending' /\ OneLiveWhenPrompt'
    BY <1>1, <2>1 DEF IInv, ArmedPending, OneLiveWhenPrompt, Of, Live
  <2> QED
    BY <2>4, <2>5 DEF IInv
<1> QED
  BY <1>2, <1>3

LEMMA StepKeeps == IInv /\ [Next]_vars => IInv'
<1> SUFFICES ASSUME IInv, [Next]_vars PROVE IInv'
  OBVIOUS
<1>1. ASSUME NEW k \in Paths,
             CreateFile(k) \/ SaveFile(k) \/ TouchFile(k) \/ RemoveFile(k)
      PROVE  IInv'
  <2>1. exists' \subseteq Paths /\ \E op \in Ops : Change(k, op)
    BY <1>1 DEF CreateFile, SaveFile, TouchFile, RemoveFile, Ops, IInv, TypeOK
  <2> QED
    BY <2>1, ChangeKeeps
<1>2. CASE HandleEvent
  BY <1>2, HandleKeeps
<1>3. CASE Cancel
  BY <1>3 DEF Cancel, IInv, TypeOK, QueueBound, ArmedPending,
              OneLiveWhenPrompt, Of, Live
<1>4. ASSUME NEW t \in DOMAIN timers, TimerStep(t)
      PROVE  IInv'
  BY <1>4, ExpireKeeps, UnlistKeeps, CallKeeps DEF TimerStep
<1>5. CASE UNCHANGED vars
  BY <1>5 DEF vars, IInv, TypeOK, QueueBound, ArmedPending,
              OneLiveWhenPrompt, Of, Live
<1> QED
  BY <1>1, <1>2, <1>3, <1>4, <1>5 DEF Next

LEMMA Inductive == Spec => []IInv
BY Initially, StepKeeps, PTL DEF Spec

\* The queue holds file events, the map timers that exist, and no handler is
\* called for a timer that was never armed (watch.go, debouncer and schedule).
THEOREM TypeCorrect == Spec => []TypeOK
<1>1. IInv => TypeOK
  BY DEF IInv
<1> QED
  BY <1>1, Inductive, PTL

\* While a path's timers are prompt, however its events and the steps of its
\* timers interleave, only its newest timer can still call the handler: schedule
\* has stopped every earlier one (watch.go:186-198).
THEOREM OneLive == Spec => []OneLiveWhenPrompt
<1>1. IInv => OneLiveWhenPrompt
  BY DEF IInv
<1> QED
  BY <1>1, Inductive, PTL

----------------------------------------------------------------------------
(* What the watcher is told last.                                          *)

\* The events of k in the queue that will be handled.
Waiting(k) == {i \in DOMAIN queue : queue[i][1] = k /\ queue[i][2] # "Chmod"}

\* The last event of a file says whether the file is there,
LastEventTrue ==
    \A k \in Watched : \A i \in Waiting(k) :
        (\A j \in Waiting(k) : j <= i) =>
            (queue[i][2] \in {"Remove", "Rename"} <=> k \notin exists)

\* and so does its newest timer once all its events have been handled.
LastTimerTrue ==
    \A k \in Watched : Waiting(k) = {} =>
        \A t \in Of(k) : (\A u \in Of(k) : u <= t) =>
            (timers[t].type = "deleted" <=> k \notin exists)

\* The map has timers of the file for a file.
EntriesOwn == \A k \in Watched : pending[k] # 0 => timers[pending[k]].path = k

\* A timer is stopped for a newer one, which in the end is not stopped.
Replaced ==
    \A t \in DOMAIN timers : timers[t].state = "stopped" =>
        \E u \in DOMAIN timers : /\ t < u /\ timers[u].path = timers[t].path
                                 /\ timers[u].state # "stopped"

CallsMade ==
    \A t \in DOMAIN timers : timers[t].state = "called" =>
        \E i \in DOMAIN out : out[i] = t

\* Prompt calls are made in the order of their timers.
CallsInOrder ==
    \A k \in Watched : prompt[k] =>
        \A i, j \in Called(k) : i < j => out[i] <= out[j]

NewsInv == /\ LastEventTrue /\ LastTimerTrue
           /\ EntriesOwn /\ Replaced
           /\ CallsMade /\ CallsInOrder

LEMMA NewsInitially == Init => NewsInv
  BY DEF Init, NewsInv, LastEventTrue, LastTimerTrue, EntriesOwn, Replaced,
         CallsMade, CallsInOrder, Waiting, Of, Called

\* A change comes after all events that wait, and agrees with its file.
LEMMA ChangeNews ==
    ASSUME IInv, NewsInv, NEW k \in Paths, NEW op \in Ops, Change(k, op),
           \A j \in Paths : j # k => (j \in exists' <=> j \in exists),
           op = "Chmod" => (k \in exists' <=> k \in exists),
           op # "Chmod" =>
               (op \in {"Remove", "Rename"} <=> k \notin exists')
    PROVE  NewsInv'
<1> DEFINE n == Len(queue)
<1>1. /\ queue \in Seq(Paths \X Ops) /\ n \in Nat
      /\ queue' = Append(queue, <<k, op>>)
      /\ UNCHANGED <<loop, timers, pending, out, prompt>>
  BY DEF IInv, TypeOK, Change
<1>2. <<k, op>>[1] = k /\ <<k, op>>[2] = op
  OBVIOUS
<1>3. /\ DOMAIN queue = 1..n /\ DOMAIN queue' = 1..(n + 1)
      /\ \A i \in 1..n : queue'[i] = queue[i]
      /\ queue'[n + 1] = <<k, op>>
  <2> DEFINE e == <<k, op>>
  <2>1. e \in Paths \X Ops /\ queue' = Append(queue, e)
    BY <1>1
  <2> HIDE DEF e
  <2>2. /\ DOMAIN queue = 1..n /\ DOMAIN queue' = 1..(n + 1)
        /\ \A i \in 1..n : queue'[i] = queue[i]
        /\ queue'[n + 1] = e
    BY <1>1, <2>1, AppendProperties
  <2> QED
    BY <2>2 DEF e
<1> HIDE DEF n
<1>4. ASSUME NEW j \in Watched, j # k \/ op = "Chmod"
      PROVE  /\ Waiting(j)' = Waiting(j)
             /\ \A i \in Waiting(j) : i \in 1..n /\ queue'[i] = queue[i]
             /\ j \in exists' <=> j \in exists
  <2>1. ~(queue'[n + 1][1] = j /\ queue'[n + 1][2] # "Chmod")
    BY <1>2, <1>3, <1>4
  <2>2. \A i \in 1..(n + 1) : i # n + 1 => i \in 1..n
    BY <1>1
  <2>3. 1..n \subseteq 1..(n + 1)
    BY <1>1
  <2>4. Waiting(j)' = Waiting(j)
    BY <1>3, <2>1, <2>2, <2>3 DEF Waiting
  <2> QED
    BY <1>3, <1>4, <2>4, WatchAssumption DEF Waiting
<1>5. ASSUME op # "Chmod"
      PROVE  /\ n + 1 \in Waiting(k)'
             /\ \A i \in Waiting(k)' : i \in 1..(n + 1)
             /\ queue'[n + 1][2] = op
  <2>1. n + 1 \in 1..(n + 1)
    BY <1>1
  <2> QED
    BY <1>2, <1>3, <1>5, <2>1 DEF Waiting
<1>6. LastEventTrue'
  <2> SUFFICES ASSUME NEW j \in Watched, NEW i \in Waiting(j)',
                      \A h \in Waiting(j)' : h <= i
               PROVE  queue'[i][2] \in {"Remove", "Rename"} <=> j \notin exists'
    BY DEF LastEventTrue
  <2>1. CASE j # k \/ op = "Chmod"
    BY <1>4, <2>1 DEF NewsInv, LastEventTrue
  <2>2. CASE j = k /\ op # "Chmod"
    <3>1. i \in 1..(n + 1) /\ n + 1 <= i
      BY <1>5, <2>2
    <3>2. i = n + 1
      BY <1>1, <3>1
    <3> QED
      BY <1>5, <2>2, <3>2
  <2> QED
    BY <2>1, <2>2
<1>7. LastTimerTrue'
  <2> SUFFICES ASSUME NEW j \in Watched, Waiting(j)' = {}, NEW t \in Of(j),
                      \A u \in Of(j) : u <= t
               PROVE  timers[t].type = "deleted" <=> j \notin exists'
    BY <1>1 DEF LastTimerTrue, Of
  <2>1. j # k \/ op = "Chmod"
    BY <1>5
  <2> QED
    BY <1>4, <2>1 DEF NewsInv, LastTimerTrue
<1>8. EntriesOwn' /\ Replaced' /\ CallsMade' /\ CallsInOrder'
  BY <1>1 DEF NewsInv, EntriesOwn, Replaced, CallsMade, CallsInOrder, Called
<1> QED
  BY <1>6, <1>7, <1>8 DEF NewsInv

\* A timer that goes on stays what it is, and stands in for the stopped ones.
LEMMA TimerGoesOn ==
    ASSUME NewsInv, NEW t \in DOMAIN timers, DOMAIN timers' = DOMAIN timers,
           NEW s, s # "stopped", timers[t].state # "stopped",
           \A u \in DOMAIN timers :
               /\ timers'[u].path = timers[u].path
               /\ timers'[u].type = timers[u].type
               /\ timers'[u].state = IF u = t THEN s ELSE timers[u].state,
           UNCHANGED <<exists, queue>>
    PROVE  LastTimerTrue' /\ Replaced'
<1>1. \A k : Of(k)' = Of(k)
  BY DEF Of
<1>2. LastTimerTrue'
  <2> SUFFICES ASSUME NEW k \in Watched, Waiting(k) = {}, NEW u \in Of(k),
                      \A v \in Of(k) : v <= u
               PROVE  timers'[u].type = "deleted" <=> k \notin exists
    BY <1>1 DEF LastTimerTrue, Waiting
  <2>1. timers'[u].type = timers[u].type
    BY DEF Of
  <2> QED
    BY <2>1 DEF NewsInv, LastTimerTrue
<1>3. Replaced'
  <2> SUFFICES ASSUME NEW u \in DOMAIN timers, timers'[u].state = "stopped"
               PROVE  \E v \in DOMAIN timers :
                          /\ u < v /\ timers'[v].path = timers'[u].path
                          /\ timers'[v].state # "stopped"
    BY DEF Replaced
  <2>1. timers[u].state = "stopped"
    OBVIOUS
  <2>2. PICK v \in DOMAIN timers :
            /\ u < v /\ timers[v].path = timers[u].path
            /\ timers[v].state # "stopped"
    BY <2>1 DEF NewsInv, Replaced
  <2> QED
    BY <2>2
<1> QED
  BY <1>2, <1>3

\* A step of a timer's goroutine that calls no handler.
LEMMA StateNews ==
    ASSUME IInv, NewsInv, NEW t \in DOMAIN timers,
           NEW s \in {"expired", "unlisted"}, SetState(t, s),
           timers[t].state \in {"armed", "expired"},
           \A k \in Watched : pending'[k] = pending[k] \/ pending'[k] = 0,
           UNCHANGED <<exists, changes, queue, loop, out, prompt>>
    PROVE  NewsInv'
<1>1. s \in TimerStates
  BY DEF TimerStates
<1>2. /\ timers \in Seq(Timer) /\ DOMAIN timers' = DOMAIN timers
      /\ pending \in [Watched -> 0..Len(timers)]
      /\ out \in Seq(1..Len(timers))
      /\ \A u \in DOMAIN timers :
             /\ timers'[u].path = timers[u].path
             /\ timers'[u].type = timers[u].type
             /\ timers'[u].state = IF u = t THEN s ELSE timers[u].state
  BY <1>1, StateKeeps DEF IInv, TypeOK
<1>3. DOMAIN timers = 1..Len(timers) /\ Len(timers) \in Nat
  BY <1>2
<1>4. LastEventTrue'
  BY DEF NewsInv, LastEventTrue, Waiting
<1>5. LastTimerTrue' /\ Replaced'
  <2>1. s # "stopped" /\ timers[t].state # "stopped"
    OBVIOUS
  <2> QED
    BY <1>2, <2>1, TimerGoesOn
<1>6. EntriesOwn'
  <2> SUFFICES ASSUME NEW k \in Watched, pending'[k] # 0
               PROVE  timers'[pending'[k]].path = k
    BY DEF EntriesOwn
  <2>1. pending'[k] = pending[k] /\ pending[k] \in DOMAIN timers
    BY <1>2, <1>3
  <2> QED
    BY <1>2, <2>1 DEF NewsInv, EntriesOwn
<1>7. CallsMade'
  BY <1>2 DEF NewsInv, CallsMade
<1>8. CallsInOrder'
  <2>1. \A i \in DOMAIN out : out[i] \in DOMAIN timers
    BY <1>2, <1>3
  <2>2. \A k : Called(k)' = Called(k)
    BY <1>2, <2>1 DEF Called
  <2> QED
    BY <2>2 DEF NewsInv, CallsInOrder
<1> QED
  BY <1>4, <1>5, <1>6, <1>7, <1>8 DEF NewsInv

\* The handler is called for a path's newest timer, if its timers are prompt.
LEMMA CallNews ==
    ASSUME IInv, NewsInv, NEW t \in DOMAIN timers, CallHandler(t)
    PROVE  NewsInv'
<1>1. "called" \in TimerStates /\ SetState(t, "called")
  BY DEF TimerStates, CallHandler
<1>2. /\ timers \in Seq(Timer) /\ DOMAIN timers' = DOMAIN timers
      /\ pending \in [Watched -> 0..Len(timers)]
      /\ out \in Seq(1..Len(timers))
      /\ \A u \in DOMAIN timers :
             /\ timers'[u].path = timers[u].path
             /\ timers'[u].type = timers[u].type
             /\ timers'[u].state = IF u = t THEN "called" ELSE timers[u].state
  BY <1>1, StateKeeps DEF IInv, TypeOK
<1>3. DOMAIN timers = 1..Len(timers) /\ Len(timers) \in Nat
  BY <1>2
<1>4. /\ timers[t].state = "unlisted" /\ out' = Append(out, t)
      /\ UNCHANGED <<exists, changes, queue, loop, pending, prompt>>
  BY DEF CallHandler
<1> DEFINE n == Len(out)
<1>5. /\ n \in Nat /\ DOMAIN out = 1..n /\ DOMAIN out' = 1..(n + 1)
      /\ \A i \in 1..n : out'[i] = out[i] /\ out[i] \in DOMAIN timers
      /\ out'[n + 1] = t
  BY <1>2, <1>3, <1>4, AppendProperties
<1> HIDE DEF n
<1>6. \A i \in 1..(n + 1) : i # n + 1 => i \in 1..n
  BY <1>5
<1>7. LastEventTrue'
  BY <1>4 DEF NewsInv, LastEventTrue, Waiting
<1>8. LastTimerTrue' /\ Replaced'
  BY <1>2, <1>4, TimerGoesOn
<1>9. EntriesOwn'
  <2> SUFFICES ASSUME NEW k \in Watched, pending[k] # 0
               PROVE  timers'[pending[k]].path = k
    BY <1>4 DEF EntriesOwn
  <2>1. pending[k] \in DOMAIN timers
    BY <1>2, <1>3
  <2> QED
    BY <1>2, <2>1 DEF NewsInv, EntriesOwn
<1>10. CallsMade'
  <2> SUFFICES ASSUME NEW u \in DOMAIN timers, timers'[u].state = "called"
               PROVE  \E i \in 1..(n + 1) : out'[i] = u
    BY <1>2, <1>5 DEF CallsMade
  <2>1. CASE u = t
    <3>1. n + 1 \in 1..(n + 1)
      BY <1>5
    <3> QED
      BY <1>5, <2>1, <3>1
  <2>2. CASE u # t
    <3>1. timers[u].state = "called"
      BY <1>2, <2>2
    <3>2. PICK i \in 1..n : out[i] = u
      BY <1>5, <3>1 DEF NewsInv, CallsMade
    <3>3. i \in 1..(n + 1)
      BY <1>5
    <3> QED
      BY <1>5, <3>2, <3>3
  <2> QED
    BY <2>1, <2>2
<1>11. CallsInOrder'
  <2> SUFFICES ASSUME NEW k \in Watched, prompt[k],
                      NEW i \in Called(k)', NEW j \in Called(k)', i < j
               PROVE  out'[i] <= out'[j]
    BY <1>4 DEF CallsInOrder
  <2>1. /\ i \in 1..(n + 1) /\ j \in 1..(n + 1)
        /\ timers'[out'[i]].path = k /\ timers'[out'[j]].path = k
    BY <1>5 DEF Called
  <2>2. i \in 1..n
    BY <1>5, <2>1
  <2>3. out'[i] = out[i] /\ out[i] \in DOMAIN timers /\ timers[out[i]].path = k
    BY <1>2, <1>5, <2>1, <2>2
  <2>4. CASE j = n + 1
    <3>1. out'[j] = t /\ timers[t].path = k
      BY <1>2, <1>5, <2>1, <2>4
    <3>2. t \in Of(k) /\ Live(t) /\ out[i] \in Of(k)
      BY <1>4, <2>3, <3>1 DEF Of, Live
    <3>3. out[i] <= t
      BY <3>2 DEF IInv, OneLiveWhenPrompt
    <3> QED
      BY <2>3, <3>1, <3>3
  <2>5. CASE j # n + 1
    <3>1. j \in 1..n
      BY <1>6, <2>1, <2>5
    <3>2. out'[j] = out[j] /\ timers[out[j]].path = k
      BY <1>2, <1>5, <2>1, <3>1
    <3>3. i \in Called(k) /\ j \in Called(k)
      BY <1>5, <2>2, <2>3, <3>1, <3>2 DEF Called
    <3> QED
      BY <2>3, <3>2, <3>3 DEF NewsInv, CallsInOrder
  <2> QED
    BY <2>4, <2>5
<1> QED
  BY <1>7, <1>8, <1>9, <1>10, <1>11 DEF NewsInv

\* The first event of the queue is taken.
LEMMA Taken ==
    ASSUME queue \in Seq(Paths \X Ops), queue # <<>>, queue' = Tail(queue),
           NEW k
    PROVE  /\ \A i \in Waiting(k)' : /\ i + 1 \in Waiting(k) /\ i \in Nat
                                     /\ queue'[i] = queue[i + 1]
           /\ \A i \in Waiting(k) :
                  i = 1 \/ (i \in Nat /\ i - 1 \in Waiting(k)')
           /\ 1 \in Waiting(k) <=> /\ Head(queue)[1] = k
                                   /\ Head(queue)[2] # "Chmod"
<1> DEFINE n == Len(queue)
<1>1. /\ n \in Nat /\ n > 0 /\ DOMAIN queue = 1..n /\ DOMAIN queue' = 1..(n - 1)
      /\ \A i \in 1..(n - 1) : queue'[i] = queue[i + 1]
      /\ Head(queue) = queue[1]
  OBVIOUS
<1> HIDE DEF n
<1>2. ASSUME NEW i \in Waiting(k)'
      PROVE  i + 1 \in Waiting(k) /\ i \in Nat /\ queue'[i] = queue[i + 1]
  <2>1. i \in 1..(n - 1) /\ queue'[i][1] = k /\ queue'[i][2] # "Chmod"
    BY <1>1 DEF Waiting
  <2>2. i + 1 \in 1..n /\ i \in Nat /\ queue'[i] = queue[i + 1]
    BY <1>1, <2>1
  <2> QED
    BY <1>1, <2>1, <2>2 DEF Waiting
<1>3. ASSUME NEW i \in Waiting(k), i # 1
      PROVE  i \in Nat /\ i - 1 \in Waiting(k)'
  <2>1. i \in 1..n /\ queue[i][1] = k /\ queue[i][2] # "Chmod"
    BY <1>1 DEF Waiting
  <2>2. i - 1 \in 1..(n - 1) /\ i \in Nat /\ (i - 1) + 1 = i
    BY <1>1, <1>3, <2>1
  <2>3. queue'[i - 1] = queue[i]
    BY <1>1, <2>2
  <2> QED
    BY <1>1, <2>1, <2>2, <2>3 DEF Waiting
<1>4. 1 \in Waiting(k) <=> Head(queue)[1] = k /\ Head(queue)[2] # "Chmod"
  BY <1>1 DEF Waiting
<1> QED
  BY <1>2, <1>3, <1>4

\* The events that still wait are not changed by the one that is taken.
LEMMA TakenNews ==
    ASSUME IInv, NewsInv, queue # <<>>, queue' = Tail(queue), exists' = exists
    PROVE  LastEventTrue'
<1> SUFFICES ASSUME NEW k \in Watched, NEW i \in Waiting(k)',
                    \A j \in Waiting(k)' : j <= i
             PROVE  queue'[i][2] \in {"Remove", "Rename"} <=> k \notin exists
  BY DEF LastEventTrue
<1>1. queue \in Seq(Paths \X Ops)
  BY DEF IInv, TypeOK
<1>2. i + 1 \in Waiting(k) /\ i \in Nat /\ queue'[i] = queue[i + 1]
  BY <1>1, Taken
<1>3. \A j \in Waiting(k) : j <= i + 1
  <2> SUFFICES ASSUME NEW j \in Waiting(k) PROVE j <= i + 1
    OBVIOUS
  <2>1. j = 1 \/ (j \in Nat /\ j - 1 \in Waiting(k)')
    BY <1>1, Taken
  <2> QED
    BY <1>2, <2>1
<1> QED
  BY <1>2, <1>3 DEF NewsInv, LastEventTrue

\* When no event waits any more, the one that was taken was the last.
LEMMA LastTaken ==
    ASSUME IInv, NewsInv, queue # <<>>, queue' = Tail(queue),
           NEW k \in Watched, Waiting(k)' = {}
    PROVE  IF Head(queue)[1] = k /\ Head(queue)[2] # "Chmod"
           THEN Head(queue)[2] \in {"Remove", "Rename"} <=> k \notin exists
           ELSE Waiting(k) = {}
<1>1. queue \in Seq(Paths \X Ops) /\ Head(queue) = queue[1]
  BY DEF IInv, TypeOK
<1>2. \A i \in Waiting(k) : i = 1
  BY <1>1, Taken
<1>3. 1 \in Waiting(k) <=> Head(queue)[1] = k /\ Head(queue)[2] # "Chmod"
  BY <1>1, Taken
<1>4. CASE 1 \in Waiting(k)
  <2>1. \A j \in Waiting(k) : j <= 1
    BY <1>2
  <2> QED
    BY <1>1, <1>3, <1>4, <2>1 DEF NewsInv, LastEventTrue
<1>5. CASE 1 \notin Waiting(k)
  BY <1>2, <1>3, <1>5
<1> QED
  BY <1>4, <1>5

\* The new timer has the type of the event it is for.
LEMMA ScheduleNews ==
    ASSUME IInv, NewsInv, queue # <<>>, queue' = Tail(queue),
           UNCHANGED <<exists, changes, loop, out>>,
           NEW k \in Watched, NEW type \in Types, Schedule(k, type),
           Head(queue)[1] = k, Head(queue)[2] # "Chmod",
           type = "deleted" <=> Head(queue)[2] \in {"Remove", "Rename"}
    PROVE  NewsInv'
<1> DEFINE n == Len(timers)
<1>1. /\ timers \in Seq(Timer) /\ pending \in [Watched -> 0..n] /\ n \in Nat
      /\ queue \in Seq(Paths \X Ops) /\ changes \in Nat
      /\ QueueBound /\ prompt \in [Watched -> BOOLEAN] /\ out \in Seq(1..n)
  BY DEF IInv, TypeOK
<1>2. /\ timers' \in Seq(Timer) /\ Len(timers') = n + 1
      /\ timers'[n + 1].path = k
      /\ timers'[n + 1].type = type
      /\ timers'[n + 1].state = "armed"
      /\ \A u \in DOMAIN timers :
             /\ timers'[u].path = timers[u].path
             /\ timers'[u].type = timers[u].type
             /\ timers'[u].state =
                    IF u = pending[k] /\ timers[u].state = "armed"
                    THEN "stopped" ELSE timers[u].state
  BY <1>1, Scheduled
<1>3. /\ pending' = [pending EXCEPT ![k] = n + 1]
      /\ prompt' = [prompt EXCEPT ![k] = @ /\ ~Overdue(k)]
  BY DEF Schedule
<1>4. /\ DOMAIN timers = 1..n /\ DOMAIN timers' = 1..(n + 1)
      /\ \A i \in DOMAIN out : out[i] \in 1..n
  BY <1>1, <1>2
<1> HIDE DEF n
<1>5. /\ \A x \in 1..(n + 1) : x # n + 1 => x \in 1..n
      /\ \A x \in 1..n : x \in 1..(n + 1) /\ x < n + 1
      /\ n + 1 \in 1..(n + 1)
  BY <1>1
<1>6. LastEventTrue'
  BY TakenNews
<1>7. LastTimerTrue'
  <2> SUFFICES ASSUME NEW j \in Watched, Waiting(j)' = {},
                      NEW t \in 1..(n + 1), timers'[t].path = j,
                      \A u \in 1..(n + 1) : timers'[u].path = j => u <= t
               PROVE  timers'[t].type = "deleted" <=> j \notin exists
    BY <1>4 DEF LastTimerTrue, Of
  <2>1. CASE j = k
    <3>1. n + 1 <= t
      BY <1>2, <1>5, <2>1
    <3>2. t = n + 1
      BY <1>1, <3>1
    <3> QED
      BY <1>2, <2>1, <3>2, LastTaken
  <2>2. CASE j # k
    <3>1. t \in 1..n
      BY <1>2, <1>5, <2>2
    <3>2. timers[t].path = j /\ timers'[t].type = timers[t].type
      BY <1>2, <1>4, <3>1
    <3>3. \A u \in 1..n : timers[u].path = j => u <= t
      BY <1>2, <1>4, <1>5
    <3>4. Waiting(j) = {}
      BY <2>2, LastTaken
    <3> QED
      BY <1>4, <3>1, <3>2, <3>3, <3>4 DEF NewsInv, LastTimerTrue, Of
  <2> QED
    BY <2>1, <2>2
<1>8. EntriesOwn'
  <2> SUFFICES ASSUME NEW j \in Watched, pending'[j] # 0
               PROVE  timers'[pending'[j]].path = j
    BY DEF EntriesOwn
  <2>1. CASE j = k
    BY <1>1, <1>2, <1>3, <2>1
  <2>2. CASE j # k
    <3>1. pending'[j] = pending[j] /\ pending[j] \in 0..n
      BY <1>1, <1>3, <2>2
    <3>2. pending[j] \in 1..n
      BY <1>1, <3>1
    <3> QED
      BY <1>2, <1>4, <3>1, <3>2 DEF NewsInv, EntriesOwn
  <2> QED
    BY <2>1, <2>2
<1>9. Replaced'
  <2> SUFFICES ASSUME NEW t \in 1..(n + 1), timers'[t].state = "stopped"
               PROVE  \E u \in 1..(n + 1) :
                          /\ t < u /\ timers'[u].path = timers'[t].path
                          /\ timers'[u].state # "stopped"
    BY <1>4 DEF Replaced
  <2>1. t \in 1..n /\ timers'[t].path = timers[t].path
    <3>1. t # n + 1
      BY <1>2
    <3> QED
      BY <1>2, <1>4, <1>5, <3>1
  <2>2. CASE timers[t].path = k
    <3>1. /\ t < n + 1 /\ timers'[n + 1].path = timers'[t].path
          /\ timers'[n + 1].state # "stopped"
      BY <1>2, <1>5, <2>1, <2>2
    <3> QED
      BY <1>5, <3>1
  <2>3. CASE timers[t].path # k
    <3>1. \A u \in 1..n : timers[u].path # k =>
              timers'[u].state = timers[u].state
      <4> SUFFICES ASSUME NEW u \in 1..n, timers[u].path # k, u = pending[k]
                   PROVE  FALSE
        BY <1>2, <1>4
      <4>1. pending[k] # 0
        BY <1>1
      <4> QED
        BY <4>1 DEF NewsInv, EntriesOwn
    <3>2. timers[t].state = "stopped"
      BY <2>1, <2>3, <3>1
    <3>3. PICK u \in 1..n : /\ t < u /\ timers[u].path = timers[t].path
                            /\ timers[u].state # "stopped"
      BY <1>4, <2>1, <3>2 DEF NewsInv, Replaced
    <3>4. /\ timers'[u].path = timers[u].path
          /\ timers'[u].state = timers[u].state
      BY <1>2, <1>4, <2>3, <3>1, <3>3
    <3> QED
      BY <1>5, <2>1, <3>3, <3>4
  <2> QED
    BY <2>2, <2>3
<1>10. CallsMade'
  <2> SUFFICES ASSUME NEW t \in 1..(n + 1), timers'[t].state = "called"
               PROVE  \E i \in DOMAIN out : out[i] = t
    BY <1>4 DEF CallsMade
  <2>1. t \in 1..n
    BY <1>2, <1>5
  <2>2. timers[t].state = "called"
    BY <1>2, <1>4, <2>1
  <2> QED
    BY <1>4, <2>1, <2>2 DEF NewsInv, CallsMade
<1>11. CallsInOrder'
  <2>1. \A j : Called(j)' = Called(j)
    BY <1>2, <1>4 DEF Called
  <2>2. \A j \in Watched : prompt'[j] => prompt[j]
    BY <1>1, <1>3
  <2> QED
    BY <2>1, <2>2 DEF NewsInv, CallsInOrder
<1> QED
  BY <1>6, <1>7, <1>8, <1>9, <1>10, <1>11 DEF NewsInv

LEMMA HandleNews ==
    ASSUME IInv, NewsInv, HandleEvent
    PROVE  NewsInv'
<1> DEFINE k == Head(queue)[1]
           op == Head(queue)[2]
           type == EventType(op)
<1>1. /\ queue # <<>> /\ queue' = Tail(queue)
      /\ UNCHANGED <<exists, changes, loop, out>>
  BY DEF HandleEvent
<1>2. queue \in Seq(Paths \X Ops)
  BY DEF IInv, TypeOK
<1>3. Head(queue) \in Paths \X Ops
  BY <1>1, <1>2
<1>4. op \in Ops
  BY <1>3
<1>5. CASE k \in Watched /\ type # ""
  <2>1. Schedule(k, type)
    BY <1>5 DEF HandleEvent
  <2>2. type \in Types /\ op # "Chmod"
    BY <1>4, <1>5 DEF EventType, Ops, Types
  <2>3. type = "deleted" <=> op \in {"Remove", "Rename"}
    BY <1>4 DEF EventType, Ops
  <2> QED
    BY <1>1, <1>5, <2>1, <2>2, <2>3, ScheduleNews
<1>6. CASE ~(k \in Watched /\ type # "")
  <2>1. UNCHANGED <<timers, pending, prompt>>
    BY <1>6 DEF HandleEvent
  <2>2. k \in Watched => op = "Chmod"
    BY <1>4, <1>6 DEF EventType, Ops
  <2>3. LastEventTrue'
    BY <1>1, TakenNews
  <2>4. LastTimerTrue'
    <3> SUFFICES ASSUME NEW j \in Watched, Waiting(j)' = {}
                 PROVE  \A t \in Of(j) : (\A u \in Of(j) : u <= t) =>
                            (timers[t].type = "deleted" <=> j \notin exists)
      BY <1>1, <2>1 DEF LastTimerTrue, Of
    <3>1. Waiting(j) = {}
      BY <1>1, <2>2, LastTaken
    <3> QED
      BY <3>1 DEF NewsInv, LastTimerTrue
  <2>5. EntriesOwn' /\ Replaced' /\ CallsMade' /\ CallsInOrder'
    BY <1>1, <2>1 DEF NewsInv, EntriesOwn, Replaced, CallsMade, CallsInOrder,
                      Called
  <2> QED
    BY <2>3, <2>4, <2>5 DEF NewsInv
<1> QED
  BY <1>5, <1>6

LEMMA NewsKept == IInv /\ NewsInv /\ [Next]_vars => NewsInv'
<1> SUFFICES ASSUME IInv, NewsInv, [Next]_vars PROVE NewsInv'
  OBVIOUS
<1>1. ASSUME NEW k \in Paths,
             CreateFile(k) \/ SaveFile(k) \/ TouchFile(k) \/ RemoveFile(k)
      PROVE  NewsInv'
  <2>1. CASE CreateFile(k)
    BY <2>1, ChangeNews DEF CreateFile, Ops
  <2>2. CASE SaveFile(k)
    BY <2>2, ChangeNews DEF SaveFile, Ops
  <2>3. CASE TouchFile(k)
    BY <2>3, ChangeNews DEF TouchFile, Ops
  <2>4. CASE RemoveFile(k)
    BY <2>4, ChangeNews DEF RemoveFile, Ops
  <2> QED
    BY <1>1, <2>1, <2>2, <2>3, <2>4
<1>2. CASE HandleEvent
  BY <1>2, HandleNews
<1>3. CASE Cancel
  BY <1>3 DEF Cancel, NewsInv, LastEventTrue, LastTimerTrue, EntriesOwn,
              Replaced, CallsMade, CallsInOrder, Waiting, Of, Called
<1>4. ASSUME NEW t \in DOMAIN timers, TimerStep(t)
      PROVE  NewsInv'
  <2>1. CASE Expire(t)
    BY <2>1, StateNews DEF Expire
  <2>2. CASE Unlist(t)
    <3>1. \A k \in Watched : pending'[k] = pending[k] \/ pending'[k] = 0
      BY <2>2 DEF Unlist, Unlisted, IInv, TypeOK
    <3> QED
      BY <2>2, <3>1, StateNews DEF Unlist
  <2>3. CASE CallHandler(t)
    BY <2>3, CallNews
  <2> QED
    BY <1>4, <2>1, <2>2, <2>3 DEF TimerStep
<1>5. CASE UNCHANGED vars
  BY <1>5 DEF vars, NewsInv, LastEventTrue, LastTimerTrue, EntriesOwn,
              Replaced, CallsMade, CallsInOrder, Waiting, Of, Called
<1> QED
  BY <1>1, <1>2, <1>3, <1>4, <1>5 DEF Next

\* When nothing is under way, every newest timer was called, and last.
LEMMA NewsTrue == IInv /\ NewsInv => LastWordTrue
<1> SUFFICES ASSUME IInv, NewsInv, NEW k \in Watched, prompt[k], Settled(k),
                    NEW i \in Called(k), \A j \in Called(k) : j <= i
             PROVE  timers[out[i]].type = "deleted" <=> k \notin exists
  BY DEF LastWordTrue
<1>1. /\ timers \in Seq(Timer) /\ out \in Seq(1..Len(timers))
      /\ \A u \in DOMAIN timers : timers[u].state \in TimerStates /\ u \in Nat
  <2>1. timers \in Seq(Timer) /\ out \in Seq(1..Len(timers))
    BY DEF IInv, TypeOK
  <2>2. \A u \in DOMAIN timers : timers[u] \in Timer /\ u \in Nat
    BY <2>1
  <2>3. \A u \in DOMAIN timers : timers[u].state \in TimerStates
    BY <2>2 DEF Timer
  <2> QED
    BY <2>1, <2>2, <2>3
<1>2. /\ out[i] \in Of(k) /\ i \in Nat
      /\ \A j \in Called(k) : j \in Nat
  BY <1>1 DEF Called, Of
<1>3. Waiting(k) = {}
  BY DEF Settled, Waiting
<1>4. ASSUME NEW u \in Of(k), timers[u].state # "stopped"
      PROVE  u <= out[i]
  <2>1. timers[u].state = "called"
    BY <1>1, <1>4 DEF Settled, Live, Of, TimerStates
  <2>2. PICK j \in DOMAIN out : out[j] = u
    BY <2>1 DEF Of, NewsInv, CallsMade
  <2>3. j \in Called(k) /\ j <= i /\ j \in Nat
    BY <1>2, <2>2 DEF Called, Of
  <2>4. CASE j < i
    BY <2>2, <2>3, <2>4 DEF NewsInv, CallsInOrder
  <2>5. CASE j = i
    BY <1>1, <2>2, <2>5 DEF Of
  <2> QED
    BY <1>2, <2>3, <2>4, <2>5
<1>5. ASSUME NEW u \in Of(k), timers[u].state = "stopped"
      PROVE  u <= out[i]
  <2>1. PICK v \in DOMAIN timers : /\ u < v /\ timers[v].path = timers[u].path
                                   /\ timers[v].state # "stopped"
    BY <1>5 DEF Of, NewsInv, Replaced
  <2>2. v <= out[i]
    BY <1>4, <2>1 DEF Of
  <2>3. u \in Nat /\ v \in Nat /\ out[i] \in Nat
    BY <1>1, <1>2 DEF Of
  <2> QED
    BY <2>1, <2>2, <2>3
<1> QED
  BY <1>2, <1>3, <1>4, <1>5 DEF NewsInv, LastTimerTrue

\* Collapsing the events of a file never leaves a watcher with a wrong last
\* word: when nothing of a prompt file is under way, the last handler call for
\* it said "deleted" iff the file is gone (watch.go:173-207).
THEOREM LastWord == Spec => []LastWordTrue
BY NewsInitially, NewsKept, NewsTrue, Inductive, PTL DEF Spec

=============================================================================
