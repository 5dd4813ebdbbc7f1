---------------------- MODULE WorkOnSession_proofs -----------------------
(***************************************************************************)
(* Theorems about WorkOnSession, for any set of invocations, users and     *)
(* launch configurations, any subset of the faults and any number of edits *)
(* by other programs.                                                      *)
(***************************************************************************)
EXTENDS WorkOnSession, TLAPS

\* The constants are what the module's assumptions say.
USE SessionAssumption, HolderAssumption, UserAssumption,
    InvocationAssumption, FaultAssumption, EditAssumption

--------------------------------------------------------------------------
(* Type correctness.                                                       *)

LEMMA InitTypeOK == Init => TypeOK
  BY DEF Init, TypeOK, Task, Phases, Locations, ChildStates, Sessions

\* Steps that only move an invocation keep the types.
LEMMA SilentTypeOK ==
  ASSUME TypeOK, NEW p \in Procs, NEW l, NEW m \in Locations, Silent(p, l, m)
  PROVE  TypeOK'
  BY DEF TypeOK, Silent, Goto

LEMMA StepTypeOK ==
  ASSUME TypeOK, TargetInv, NEW p \in Procs, Step(p)
  PROVE  TypeOK'
<1> USE DEF TypeOK, Goto, Locations
<1>1. CASE Find(p)
  BY <1>1 DEF Find, ReadTask
<1>2. CASE FindError(p) \/ EnterRefused(p) \/ WriteError(p) \/ NoStarter(p)
           \/ RereadError(p) \/ PersistError(p) \/ AcquireFails(p)
           \/ ClearReadError(p) \/ ClearWriteError(p) \/ ResumeRefused(p)
           \/ Exec(p)
  BY <1>2, SilentTypeOK
     DEF FindError, EnterRefused, WriteError, NoStarter, RereadError,
         PersistError, AcquireFails, ClearReadError, ClearWriteError,
         ResumeRefused, Exec
<1>3. CASE Enter(p)
  <2>1. User[p] \in Users
    OBVIOUS
  <2>2. Entered(mem[p], User[p]) \in Task
    <3> DEFINE phase == IF mem[p].phase = "none" THEN "planning" ELSE mem[p].phase
               owner == Assign(mem[p].assignee, User[p])
    <3>1. phase \in Phases /\ owner \in Users \cup {Nobody}
      BY <2>1 DEF Assign, Task, Phases
    <3>2. Entered(mem[p], User[p]) = [mem[p] EXCEPT !.phase = phase,
                                          !.status = "in_progress",
                                          !.assignee = owner]
      BY DEF Entered
    <3> HIDE DEF phase, owner
    <3> QED
      BY <3>1, <3>2 DEF Task
  <2> QED
    BY <1>3, <2>2 DEF Enter
<1>4. CASE Write(p)
  BY <1>4 DEF Write, WriteTask
<1>5. CASE UseCached(p)
  BY <1>5 DEF UseCached, Task
<1>6. CASE Mint(p)
  BY <1>6 DEF Mint, Sessions
<1>7. CASE Reread(p)
  BY <1>7 DEF Reread, ReadTask
<1>8. CASE Persist(p)
  <2>1. tgt[p] \in Sessions
    BY <1>8 DEF Persist, TargetInv, TargetRight
  <2>2. [mem[p] EXCEPT !.sid = IF @ = NoSid THEN tgt[p] ELSE @,
                       !.metrics = @ \cup {tgt[p]}] \in Task
    BY <2>1 DEF Task
  <2>3. disk' \in Task /\ fresh' \in [Procs -> BOOLEAN]
    BY <1>8, <2>2 DEF Persist, WriteTask
  <2>4. pc' \in [Procs -> Locations]
    BY <1>8 DEF Persist, Settled
  <2> QED
    BY <1>8, <2>3, <2>4 DEF Persist
<1>9. CASE Acquire(p)
  BY <1>9 DEF Acquire, Taken
<1>10. CASE Spawn(p)
  BY <1>10 DEF Spawn, Taken, ChildStates
<1>11. CASE SpawnFails(p)
  BY <1>11 DEF SpawnFails, Released
<1>12. CASE TurnEnds(p)
  BY <1>12 DEF TurnEnds, Released, Settled
<1>13. CASE TurnAbandoned(p)
  BY <1>13 DEF TurnAbandoned, Released
<1>14. CASE TurnKilled(p)
  BY <1>14 DEF TurnKilled, ChildStates
<1>15. CASE ClearRead(p)
  BY <1>15 DEF ClearRead, ReadTask
<1>16. CASE ClearWrite(p)
  <2>1. Cleared(mem[p], tgt[p]) \in Task
    BY DEF Cleared, Task
  <2> QED
    BY <1>16, <2>1 DEF ClearWrite, WriteTask
<1>17. CASE ResumeAcquire(p)
  BY <1>17 DEF ResumeAcquire, Taken
<1>18. CASE ExecFails(p)
  BY <1>18 DEF ExecFails, Released
<1> QED
  BY <1>1, <1>2, <1>3, <1>4, <1>5, <1>6, <1>7, <1>8, <1>9, <1>10, <1>11,
     <1>12, <1>13, <1>14, <1>15, <1>16, <1>17, <1>18 DEF Step

LEMMA EnvironmentTypeOK ==
  ASSUME TypeOK,
         \/ \E p \in Procs : ClaudeExits(p) \/ Crash(p)
         \/ \E s \in Procs : ChildStep(s)
         \/ Edit
         \/ UNCHANGED vars
  PROVE  TypeOK'
<1> USE DEF TypeOK, Goto
<1>1. ASSUME NEW p \in Procs, ClaudeExits(p)
      PROVE  TypeOK'
  BY <1>1 DEF ClaudeExits, Released, Locations
<1>2. CASE \E p \in Procs : Crash(p)
  BY <1>2 DEF Crash, Locations
<1>3. ASSUME NEW s \in Procs, ChildStep(s)
      PROVE  TypeOK'
  <2> s \in Sessions
    BY DEF Sessions
  <2>1. CASE ChildConnects(s)
    <3>1. [disk EXCEPT !.sid = s, !.metrics = @ \cup {s}] \in Task
      BY DEF Task
    <3> QED
      BY <2>1, <3>1 DEF ChildConnects, WriteTask
  <2>2. CASE ChildWorks(s)
    BY <2>2 DEF ChildWorks, WriteTask, Task, Phases
  <2>3. CASE ChildExits(s)
    BY <2>3 DEF ChildExits, Released, ChildStates
  <2> QED
    BY <1>3, <2>1, <2>2, <2>3 DEF ChildStep
<1>4. CASE Edit
  <2>1. disk' \in Task /\ fresh' \in [Procs -> BOOLEAN]
    BY <1>4 DEF Edit, WriteTask, Task
  <2>2. edits' \in 0..MaxEdits
    BY <1>4 DEF Edit
  <2> QED
    BY <1>4, <2>1, <2>2 DEF Edit
<1>5. CASE UNCHANGED vars
  BY <1>5 DEF vars
<1> QED
  BY <1>1, <1>2, <1>3, <1>4, <1>5

--------------------------------------------------------------------------
(* Who holds which lock.                                                   *)

\* Where invocation p is after a step of its own that ends at l.
LEMMA MovedPc ==
  ASSUME TypeOK, NEW p \in Procs, NEW l, Goto(p, l)
  PROVE  /\ pc'[p] = l
         /\ \A q \in Procs : q # p => pc'[q] = pc[q]
  BY DEF TypeOK, Goto

\* A step of p outside its lock-holding locations leaves the locks alone.
LEMMA QuietLockInv ==
  ASSUME TypeOK, LockInv, NEW p \in Procs, UNCHANGED <<lock, child>>,
         pc[p] \notin Holding, pc'[p] \notin Holding,
         \A q \in Procs : q # p => pc'[q] = pc[q] /\ tgt'[q] = tgt[q]
  PROVE  LockInv'
<1> SUFFICES ASSUME NEW s \in Sessions
             PROVE  HeldRightly(s)'
  BY DEF LockInv
<1> USE DEF HeldRightly
<1>1. HeldRightly(s)
  BY DEF LockInv
<1>2. p \notin lock[s] /\ lock'[s] = lock[s] /\ child'[s] = child[s]
  BY <1>1
<1>3. \A q \in Procs : q \in lock'[s] <=> pc'[q] \in Holding /\ tgt'[q] = s
  BY <1>1, <1>2
<1>4. \A q \in Procs \cap lock[s] : pc'[q] = pc[q]
  BY <1>2
<1> QED
  BY <1>1, <1>2, <1>3, <1>4

\* Closing p's own descriptor, as p leaves its lock-holding locations.
LEMMA ReleaseLockInv ==
  ASSUME TypeOK, LockInv, TargetInv, NEW p \in Procs,
         pc[p] \in Holding, pc'[p] \notin Holding,
         tgt[p] \in Sessions, lock' = Released(tgt[p], p),
         UNCHANGED <<child, tgt>>,
         \A q \in Procs : q # p => pc'[q] = pc[q]
  PROVE  LockInv'
<1> SUFFICES ASSUME NEW s \in Sessions
             PROVE  HeldRightly(s)'
  BY DEF LockInv
<1> USE DEF HeldRightly
<1>1. HeldRightly(s)
  BY DEF LockInv
<1>2. lock'[s] = lock[s] \ {p}
  BY <1>1 DEF Released, TypeOK
<1>3. \A q \in Procs : q \in lock'[s] <=> pc'[q] \in Holding /\ tgt'[q] = s
  BY <1>1, <1>2
<1>4. Child \in lock'[s] <=> child'[s] = "running"
  BY <1>1, <1>2, HolderAssumption
<1> QED
  BY <1>1, <1>2, <1>3, <1>4

\* Opening the lock of a session that nobody has open.
LEMMA AcquireLockInv ==
  ASSUME TypeOK, LockInv, NEW p \in Procs,
         pc[p] \notin Holding, pc'[p] \in Holding,
         tgt[p] \in Sessions, Free(tgt[p]), lock' = Taken(tgt[p], p),
         UNCHANGED <<child, tgt>>,
         \A q \in Procs : q # p => pc'[q] = pc[q]
  PROVE  LockInv'
<1> SUFFICES ASSUME NEW s \in Sessions
             PROVE  HeldRightly(s)'
  BY DEF LockInv
<1> USE DEF HeldRightly
<1>1. HeldRightly(s)
  BY DEF LockInv
<1>2. CASE s = tgt[p]
  <2>1. lock[s] = {} /\ lock'[s] = {p}
    BY <1>2 DEF Free, Taken, TypeOK
  <2>2. Child \notin lock'[s]
    BY <2>1, HolderAssumption
  <2>3. \A q \in Procs : q \in lock'[s] <=> pc'[q] \in Holding /\ tgt'[q] = s
    BY <1>1, <1>2, <2>1
  <2> QED
    BY <1>1, <2>1, <2>2, <2>3
<1>3. CASE s # tgt[p]
  <2>1. lock'[s] = lock[s] /\ p \notin lock[s]
    BY <1>1, <1>3 DEF Taken, TypeOK
  <2>2. \A q \in Procs : q \in lock'[s] <=> pc'[q] \in Holding /\ tgt'[q] = s
    BY <1>1, <1>3, <2>1
  <2>3. \A q \in Procs \cap lock[s] : pc'[q] = pc[q]
    BY <2>1
  <2> QED
    BY <1>1, <2>1, <2>2, <2>3
<1> QED
  BY <1>2, <1>3

LEMMA StepLockInv ==
  ASSUME TypeOK, LockInv, TargetInv, NEW p \in Procs, Step(p)
  PROVE  LockInv'
<1> USE DEF Holding
<1>1. CASE \/ FindError(p) \/ EnterRefused(p) \/ WriteError(p)
           \/ NoStarter(p) \/ RereadError(p) \/ PersistError(p)
           \/ AcquireFails(p) \/ ClearReadError(p) \/ ClearWriteError(p)
           \/ ResumeRefused(p)
  <2>1. PICK l \in Locations, m \in Locations :
            Silent(p, l, m) /\ l \notin Holding /\ m \notin Holding
    BY <1>1 DEF FindError, EnterRefused, WriteError, NoStarter, RereadError,
                PersistError, AcquireFails, ClearReadError, ClearWriteError,
                ResumeRefused, Locations
  <2> QED
    BY <2>1, MovedPc, QuietLockInv DEF Silent
<1>2. CASE Find(p) \/ Enter(p) \/ Write(p) \/ Reread(p) \/ ClearRead(p)
           \/ ClearWrite(p)
  BY <1>2, MovedPc, QuietLockInv
     DEF Find, Enter, Write, Reread, ClearRead, ClearWrite
<1>3. CASE UseCached(p) \/ Mint(p)
  BY <1>3, MovedPc, QuietLockInv DEF UseCached, Mint, TypeOK
<1>4. CASE Persist(p)
  BY <1>4, MovedPc, QuietLockInv DEF Persist, Settled
<1>5. CASE Acquire(p) \/ ResumeAcquire(p)
  BY <1>5, MovedPc, AcquireLockInv
     DEF Acquire, ResumeAcquire, TargetInv, TargetRight, Sessions
<1>6. CASE SpawnFails(p) \/ TurnEnds(p) \/ TurnAbandoned(p) \/ ExecFails(p)
  <2>1. /\ pc[p] \in Holding
        /\ tgt[p] \in Sessions
        /\ lock' = Released(tgt[p], p)
        /\ UNCHANGED <<child, tgt>>
    BY <1>6 DEF SpawnFails, TurnEnds, TurnAbandoned, ExecFails, TargetInv,
                TargetRight, Sessions
  <2>2. PICK l \in Locations : Goto(p, l) /\ l \notin Holding
    BY <1>6 DEF SpawnFails, TurnEnds, TurnAbandoned, ExecFails, Settled,
                Locations
  <2> QED
    BY <2>1, <2>2, MovedPc, ReleaseLockInv
<1>7. CASE Spawn(p)
  <2> SUFFICES ASSUME NEW s \in Sessions
               PROVE  HeldRightly(s)'
    BY DEF LockInv
  <2> USE DEF HeldRightly
  <2>1. HeldRightly(s)
    BY DEF LockInv
  <2>2. /\ pc[p] = "spawn" /\ tgt[p] = p /\ tgt' = tgt
        /\ pc'[p] = "wait" /\ \A q \in Procs : q # p => pc'[q] = pc[q]
    BY <1>7, MovedPc DEF Spawn, TargetInv, TargetRight
  <2>3. \A q \in Procs : q \in lock'[s] <=> q \in lock[s]
    BY <1>7, HolderAssumption DEF Spawn, Taken, TypeOK
  <2>4. \A q \in Procs : q \in lock'[s] <=> pc'[q] \in Holding /\ tgt'[q] = s
    BY <2>1, <2>2, <2>3
  <2>5. CASE s = p
    <3>1. child'[s] = "running" /\ Child \in lock'[s]
      BY <1>7, <2>5 DEF Spawn, Taken, TypeOK
    <3>2. \A q \in Procs \cap lock'[s] : q = p
      BY <2>1, <2>2, <2>3, <2>5
    <3> QED
      BY <2>1, <2>2, <2>3, <2>4, <3>1, <3>2
  <2>6. CASE s # p
    <3>1. child'[s] = child[s] /\ lock'[s] = lock[s] /\ p \notin lock[s]
      BY <1>7, <2>1, <2>2, <2>6 DEF Spawn, Taken, TypeOK
    <3>2. \A q \in Procs \cap lock[s] : pc'[q] = pc[q]
      BY <2>2, <3>1
    <3> QED
      BY <2>1, <2>4, <3>1, <3>2
  <2> QED
    BY <2>5, <2>6
<1>8. CASE TurnKilled(p)
  <2> SUFFICES ASSUME NEW s \in Sessions
               PROVE  HeldRightly(s)'
    BY DEF LockInv
  <2> USE DEF HeldRightly
  <2>1. HeldRightly(s)
    BY DEF LockInv
  <2>2. /\ pc[p] = "wait" /\ tgt[p] = p /\ tgt' = tgt
        /\ pc'[p] = "clear" /\ \A q \in Procs : q # p => pc'[q] = pc[q]
    BY <1>8, MovedPc DEF TurnKilled, TargetInv, TargetRight
  <2>3. CASE s = p
    <3>1. lock'[s] = lock[s] \ {p, Child} /\ child'[s] = "bad"
      BY <1>8, <2>3 DEF TurnKilled, TypeOK
    <3> QED
      BY <2>1, <2>2, <2>3, <3>1, HolderAssumption
  <2>4. CASE s # p
    <3>1. child'[s] = child[s] /\ lock'[s] = lock[s] /\ p \notin lock[s]
      BY <1>8, <2>1, <2>2, <2>4 DEF TurnKilled, TypeOK
    <3>2. \A q \in Procs \cap lock[s] : pc'[q] = pc[q]
      BY <2>2, <3>1
    <3>3. \A q \in Procs : q \in lock'[s] <=> pc'[q] \in Holding /\ tgt'[q] = s
      BY <2>1, <2>2, <2>4, <3>1
    <3> QED
      BY <2>1, <3>1, <3>2, <3>3
  <2> QED
    BY <2>3, <2>4
<1>9. CASE Exec(p)
  <2> SUFFICES ASSUME NEW s \in Sessions
               PROVE  HeldRightly(s)'
    BY DEF LockInv
  <2> USE DEF HeldRightly
  <2>1. HeldRightly(s)
    BY DEF LockInv
  <2>2. /\ pc[p] = "exec" /\ pc'[p] = "claude" /\ tgt' = tgt
        /\ lock' = lock /\ child' = child
        /\ \A q \in Procs : q # p => pc'[q] = pc[q]
    BY <1>9, MovedPc DEF Exec, Silent
  <2> QED
    BY <2>1, <2>2
<1> QED
  BY <1>1, <1>2, <1>3, <1>4, <1>5, <1>6, <1>7, <1>8, <1>9 DEF Step

LEMMA EnvironmentLockInv ==
  ASSUME TypeOK, LockInv, TargetInv,
         \/ \E p \in Procs : ClaudeExits(p) \/ Crash(p)
         \/ \E s \in Procs : ChildStep(s)
         \/ Edit
         \/ UNCHANGED vars
  PROVE  LockInv'
<1>1. ASSUME NEW p \in Procs, ClaudeExits(p)
      PROVE  LockInv'
  BY <1>1, MovedPc, ReleaseLockInv DEF ClaudeExits, TargetInv, TargetRight, Holding
<1>2. ASSUME NEW p \in Procs, Crash(p)
      PROVE  LockInv'
  <2> SUFFICES ASSUME NEW s \in Sessions
               PROVE  HeldRightly(s)'
    BY DEF LockInv
  <2> USE DEF HeldRightly
  <2>1. HeldRightly(s)
    BY DEF LockInv
  <2>2. /\ pc'[p] \notin Holding
        /\ \A q \in Procs : q # p => pc'[q] = pc[q]
    BY <1>2, MovedPc DEF Crash, Holding
  <2>3. lock'[s] = lock[s] \ {p} /\ UNCHANGED <<child, tgt>>
    BY <1>2 DEF Crash
  <2> QED
    BY <2>1, <2>2, <2>3, HolderAssumption
<1>3. ASSUME NEW c \in Procs, ChildExits(c)
      PROVE  LockInv'
  <2> SUFFICES ASSUME NEW s \in Sessions
               PROVE  HeldRightly(s)'
    BY DEF LockInv
  <2> USE DEF HeldRightly
  <2>1. HeldRightly(s)
    BY DEF LockInv
  <2>2. UNCHANGED <<pc, tgt>>
    BY <1>3 DEF ChildExits
  <2>3. CASE s = c
    <3>1. lock'[s] = lock[s] \ {Child} /\ child'[s] # "running"
      BY <1>3, <2>3 DEF ChildExits, Released, TypeOK
    <3> QED
      BY <2>1, <2>2, <3>1, HolderAssumption
  <2>4. CASE s # c
    <3>1. lock'[s] = lock[s] /\ child'[s] = child[s]
      BY <1>3, <2>4 DEF ChildExits, Released, TypeOK
    <3> QED
      BY <2>1, <2>2, <3>1
  <2> QED
    BY <2>3, <2>4
<1>4. CASE UNCHANGED <<pc, tgt, lock, child>>
  BY <1>4 DEF LockInv, HeldRightly
<1> QED
  BY <1>1, <1>2, <1>3, <1>4 DEF ChildStep, ChildConnects, ChildWorks, Edit, vars

--------------------------------------------------------------------------
(* Which session an invocation handles.                                    *)

\* An invocation's own steps leave the others where they are.
LEMMA OthersUnmoved ==
  ASSUME TypeOK, NEW p \in Procs, Step(p) \/ ClaudeExits(p) \/ Crash(p),
         NEW q \in Procs, q # p
  PROVE  pc'[q] = pc[q] /\ tgt'[q] = tgt[q]
  BY DEF TypeOK, Goto, Silent, Step, ClaudeExits, Crash, Find, FindError,
         Enter, EnterRefused, Write, WriteError, UseCached, NoStarter, Mint,
         Reread, RereadError, Persist, PersistError, Acquire, AcquireFails,
         Spawn, SpawnFails, TurnEnds, TurnAbandoned, TurnKilled, ClearRead,
         ClearReadError, ClearWrite, ClearWriteError, ResumeAcquire,
         ResumeRefused, Exec, ExecFails

LEMMA StepTargetRight ==
  ASSUME TypeOK, TargetInv, NEW p \in Procs,
         Step(p) \/ ClaudeExits(p) \/ Crash(p)
  PROVE  TargetRight(p)'
<1>1. TargetRight(p)
  BY DEF TargetInv
<1> USE DEF TargetRight
<1>2. CASE Step(p) /\ (UseCached(p) \/ Mint(p))
  BY <1>2, MovedPc DEF UseCached, Mint, TypeOK, Task, Sessions
<1>3. CASE Step(p) /\ (Persist(p) \/ TurnEnds(p))
  BY <1>1, <1>3, MovedPc DEF Persist, TurnEnds, Settled, Sessions
<1>4. CASE Step(p) /\ ~UseCached(p) /\ ~Mint(p) /\ ~Persist(p) /\ ~TurnEnds(p)
  BY <1>1, <1>4, MovedPc
     DEF Silent, Step, Find, FindError, Enter, EnterRefused, Write,
         WriteError, NoStarter, Reread, RereadError, PersistError, Acquire,
         AcquireFails, Spawn, SpawnFails, TurnAbandoned, TurnKilled,
         ClearRead, ClearReadError, ClearWrite, ClearWriteError,
         ResumeAcquire, ResumeRefused, Exec, ExecFails, Sessions
<1>5. CASE ClaudeExits(p) \/ Crash(p)
  BY <1>5, MovedPc DEF ClaudeExits, Crash
<1> QED
  BY <1>2, <1>3, <1>4, <1>5

LEMMA NextTargetInv ==
  ASSUME TypeOK, TargetInv, [Next]_vars
  PROVE  TargetInv'
<1>1. ASSUME NEW p \in Procs, Step(p) \/ ClaudeExits(p) \/ Crash(p)
      PROVE  TargetInv'
  BY <1>1, OthersUnmoved, StepTargetRight DEF TargetInv, TargetRight
<1>2. CASE (\E s \in Procs : ChildStep(s)) \/ Edit \/ UNCHANGED vars
  <2>1. UNCHANGED <<pc, tgt>>
    BY <1>2 DEF ChildStep, ChildConnects, ChildWorks, ChildExits, Edit, vars
  <2> QED
    BY <2>1 DEF TargetInv, TargetRight
<1> QED
  BY <1>1, <1>2 DEF Next

--------------------------------------------------------------------------
(* The inductive invariant, and what follows from it.                      *)

LEMMA InitIInv == Init => IInv
<1> SUFFICES ASSUME Init PROVE IInv
  OBVIOUS
<1>1. TypeOK
  BY InitTypeOK
<1>2. LockInv
  BY DEF Init, LockInv, HeldRightly, Holding
<1>3. TargetInv
  BY DEF Init, TargetInv, TargetRight
<1> QED
  BY <1>1, <1>2, <1>3 DEF IInv

LEMMA NextIInv == IInv /\ [Next]_vars => IInv'
<1> SUFFICES ASSUME IInv, [Next]_vars PROVE IInv'
  OBVIOUS
<1> USE DEF IInv
<1>1. TypeOK'
  BY StepTypeOK, EnvironmentTypeOK DEF Next
<1>2. LockInv'
  BY StepLockInv, EnvironmentLockInv DEF Next
<1>3. TargetInv'
  BY NextTargetInv
<1> QED
  BY <1>1, <1>2, <1>3

\* The inductive invariant holds throughout.
THEOREM Invariance == Spec => []IInv
  BY InitIInv, NextIInv, PTL DEF Spec

\* Every variable keeps its type, in particular: whatever interleaving, the
\* task on disk names only sessions that were minted or were there before.
THEOREM TypeCorrect == Spec => []TypeOK
<1>1. IInv => TypeOK
  BY DEF IInv
<1> QED
  BY <1>1, Invariance, PTL

\* Two live claude processes on s would both have the lock of s open.
LEMMA WritersAgree ==
  ASSUME LockInv, NEW s \in Sessions,
         NEW a \in LiveWriters(s), NEW b \in LiveWriters(s)
  PROVE  a = b
<1> USE DEF LiveWriters
<1>1. HeldRightly(s)
  BY DEF LockInv
<1>2. \A w \in LiveWriters(s) : w \in lock[s]
  BY <1>1 DEF HeldRightly, Holding
<1>3. \A p \in Procs \cap LiveWriters(s) : pc[p] = "claude"
  BY HolderAssumption
<1>4. CASE a \in Procs /\ b \in Procs
  BY <1>1, <1>2, <1>4 DEF HeldRightly
<1>5. CASE a = Child /\ b = Child
  BY <1>5
<1>6. ~(Child \in LiveWriters(s) /\ \E p \in Procs : p \in LiveWriters(s))
  BY <1>1, <1>2, <1>3 DEF HeldRightly
<1> QED
  BY <1>4, <1>5, <1>6

\* No transcript ever has two live claude processes.
THEOREM OneWriter == Spec => []SingleWriter
<1>1. IInv => SingleWriter
  BY WritersAgree DEF IInv, SingleWriter
<1> QED
  BY <1>1, Invariance, PTL

\* Nothing that is over holds a lock: a lock that refuses someone belongs to
\* an invocation that is using it or to the session's running child.
THEOREM NoStaleLock == Spec => []LockHeldByLiving
<1>1. IInv => LockHeldByLiving
  BY DEF IInv, LockInv, HeldRightly, LockHeldByLiving
<1> QED
  BY <1>1, Invariance, PTL

--------------------------------------------------------------------------
(* Sessions implement the transcript mutex.                                *)

\* A step that starts one writer where there was none is an Open ...
LEMMA OpenStep ==
  ASSUME NEW s \in Sessions, NEW w \in Procs \cup {Child},
         LiveWriters(s) = {}, LiveWriters(s)' = {w},
         \A t \in Sessions : t # s => LiveWriters(t)' = LiveWriters(t)
  PROVE  Mutex!Next
<1>1. WriterOf(s) = None /\ WriterOf(s)' = w
  BY DEF WriterOf, MemberOrNone
<1>2. \A t \in Sessions : t # s => WriterOf(t)' = WriterOf(t)
  BY DEF WriterOf
<1>3. Mutex!Open(s, w)
  BY <1>1, <1>2 DEF Mutex!Open
<1> QED
  BY <1>3 DEF Mutex!Next

\* ... one that ends the only writer is a Close ...
LEMMA CloseStep ==
  ASSUME NEW s \in Sessions, NEW w \in Procs \cup {Child},
         LiveWriters(s) = {w}, LiveWriters(s)' = {},
         \A t \in Sessions : t # s => LiveWriters(t)' = LiveWriters(t)
  PROVE  Mutex!Next
<1>1. WriterOf(s) # None /\ WriterOf(s)' = None
  BY HolderAssumption DEF WriterOf, MemberOrNone
<1>2. \A t \in Sessions : t # s => WriterOf(t)' = WriterOf(t)
  BY DEF WriterOf
<1>3. Mutex!Close(s)
  BY <1>1, <1>2 DEF Mutex!Close
<1> QED
  BY <1>3 DEF Mutex!Next

\* ... and one that changes no writer is a stutter.
LEMMA StutterStep ==
  ASSUME \A t \in Sessions : LiveWriters(t)' = LiveWriters(t)
  PROVE  UNCHANGED [t \in Sessions |-> WriterOf(t)]
  BY DEF WriterOf

\* An invocation that holds the lock of s and is neither waiting for a child
\* nor claude itself knows that nobody writes the transcript of s.
LEMMA HolderAlone ==
  ASSUME LockInv, NEW p \in Procs, NEW s \in Sessions,
         p \in lock[s], pc[p] \notin {"wait", "claude"}
  PROVE  LiveWriters(s) = {}
<1>1. HeldRightly(s)
  BY DEF LockInv
<1>2. Child \notin LiveWriters(s)
  BY <1>1, HolderAssumption DEF LiveWriters, HeldRightly
<1>3. ASSUME NEW q \in Procs, q \in LiveWriters(s)
      PROVE  FALSE
  <2>1. pc[q] = "claude" /\ tgt[q] = s
    BY <1>3, HolderAssumption DEF LiveWriters
  <2>2. q = p
    BY <1>1, <2>1 DEF HeldRightly, Holding
  <2> QED
    BY <2>1, <2>2
<1> QED
  BY <1>2, <1>3 DEF LiveWriters

\* The writers of s are only ever one.
LEMMA OnlyWriter ==
  ASSUME LockInv, NEW s \in Sessions, NEW w \in LiveWriters(s)
  PROVE  LiveWriters(s) = {w}
  BY WritersAgree

LEMMA NextMutex ==
  ASSUME IInv, [Next]_vars
  PROVE  [Mutex!Next]_([s \in Sessions |-> WriterOf(s)])
<1> USE DEF IInv
<1>1. ASSUME NEW p \in Procs, Spawn(p)
      PROVE  Mutex!Next
  <2>1. /\ p \in Sessions /\ pc[p] = "spawn" /\ tgt[p] = p /\ tgt' = tgt
        /\ pc'[p] = "wait" /\ \A q \in Procs : q # p => pc'[q] = pc[q]
    BY <1>1, MovedPc DEF Spawn, TargetInv, TargetRight, Sessions
  <2>2. p \in lock[p]
    BY <2>1 DEF LockInv, HeldRightly, Holding
  <2>3. LiveWriters(p) = {}
    BY <2>1, <2>2, HolderAlone
  <2>4. child'[p] = "running" /\ \A t \in Sessions : t # p => child'[t] = child[t]
    BY <1>1, <2>1 DEF Spawn, TypeOK
  <2>5. LiveWriters(p)' = {Child}
    BY <2>1, <2>3, <2>4 DEF LiveWriters
  <2>6. \A t \in Sessions : t # p => LiveWriters(t)' = LiveWriters(t)
    BY <2>1, <2>4 DEF LiveWriters
  <2> QED
    BY <2>1, <2>3, <2>5, <2>6, OpenStep
<1>2. ASSUME NEW p \in Procs, Exec(p)
      PROVE  Mutex!Next
  <2>1. /\ pc[p] = "exec" /\ tgt[p] \in Sessions /\ UNCHANGED <<tgt, child>>
        /\ pc'[p] = "claude" /\ \A q \in Procs : q # p => pc'[q] = pc[q]
    BY <1>2, MovedPc DEF Exec, Silent, TargetInv, TargetRight
  <2>2. p \in lock[tgt[p]]
    BY <2>1 DEF LockInv, HeldRightly, Holding
  <2>3. LiveWriters(tgt[p]) = {}
    BY <2>1, <2>2, HolderAlone
  <2>4. LiveWriters(tgt[p])' = {p}
    BY <2>1, <2>3 DEF LiveWriters
  <2>5. \A t \in Sessions : t # tgt[p] => LiveWriters(t)' = LiveWriters(t)
    BY <2>1 DEF LiveWriters
  <2> QED
    BY <2>1, <2>3, <2>4, <2>5, OpenStep
<1>3. ASSUME NEW p \in Procs, pc[p] = "claude", ClaudeExits(p) \/ Crash(p)
      PROVE  Mutex!Next
  <2>1. /\ tgt[p] \in Sessions /\ UNCHANGED <<tgt, child>>
        /\ pc'[p] # "claude" /\ \A q \in Procs : q # p => pc'[q] = pc[q]
    BY <1>3, MovedPc DEF ClaudeExits, Crash, TargetInv, TargetRight
  <2>2. LiveWriters(tgt[p]) = {p}
    <3>1. p \in LiveWriters(tgt[p])
      BY <1>3 DEF LiveWriters
    <3> QED
      BY <2>1, <3>1, OnlyWriter
  <2>3. LiveWriters(tgt[p])' = {}
    BY <2>1, <2>2, HolderAssumption DEF LiveWriters
  <2>4. \A t \in Sessions : t # tgt[p] => LiveWriters(t)' = LiveWriters(t)
    BY <2>1 DEF LiveWriters
  <2> QED
    BY <2>1, <2>2, <2>3, <2>4, CloseStep
<1>4. ASSUME NEW s \in Procs, TurnKilled(s) \/ ChildExits(s)
      PROVE  Mutex!Next
  <2> s \in Sessions
    BY DEF Sessions
  <2>1. /\ child[s] = "running" /\ child'[s] # "running" /\ tgt' = tgt
        /\ \A t \in Sessions : t # s => child'[t] = child[t]
    BY <1>4 DEF TurnKilled, ChildExits, TypeOK
  <2>2. \A q \in Procs : pc'[q] = "claude" <=> pc[q] = "claude"
    <3>1. CASE TurnKilled(s)
      BY <3>1, MovedPc DEF TurnKilled
    <3>2. CASE ChildExits(s)
      BY <3>2 DEF ChildExits
    <3> QED
      BY <1>4, <3>1, <3>2
  <2>3. LiveWriters(s) = {Child}
    <3>1. Child \in LiveWriters(s)
      BY <2>1 DEF LiveWriters
    <3> QED
      BY <3>1, OnlyWriter
  <2>4. LiveWriters(s)' = {}
    BY <2>1, <2>2, <2>3, HolderAssumption DEF LiveWriters
  <2>5. \A t \in Sessions : t # s => LiveWriters(t)' = LiveWriters(t)
    BY <2>1, <2>2 DEF LiveWriters
  <2> QED
    BY <2>3, <2>4, <2>5, CloseStep
<1>5. ASSUME NEW p \in Procs, Step(p) \/ Crash(p), pc[p] # "claude",
             ~Spawn(p), ~Exec(p), ~TurnKilled(p)
      PROVE  UNCHANGED [s \in Sessions |-> WriterOf(s)]
  <2>1. child' = child /\ pc'[p] # "claude"
    BY <1>5, MovedPc
       DEF Silent, Step, Crash, Find, FindError, Enter, EnterRefused, Write,
           WriteError, UseCached, NoStarter, Mint, Reread, RereadError,
           Persist, Settled, PersistError, Acquire, AcquireFails, SpawnFails,
           TurnEnds, TurnAbandoned, ClearRead, ClearReadError, ClearWrite,
           ClearWriteError, ResumeAcquire, ResumeRefused, ExecFails
  <2>2. \A q \in Procs : q # p => pc'[q] = pc[q] /\ tgt'[q] = tgt[q]
    BY <1>5, OthersUnmoved
  <2>3. \A t \in Sessions : LiveWriters(t)' = LiveWriters(t)
    BY <1>5, <2>1, <2>2 DEF LiveWriters
  <2> QED
    BY <2>3, StutterStep
<1>6. ASSUME UNCHANGED <<pc, tgt, child>>
      PROVE  UNCHANGED [s \in Sessions |-> WriterOf(s)]
  BY <1>6, StutterStep DEF LiveWriters
<1>7. ASSUME NEW p \in Procs, Step(p), pc[p] = "claude"
      PROVE  FALSE
  BY <1>7
     DEF Silent, Step, Find, FindError, Enter, EnterRefused, Write,
         WriteError, UseCached, NoStarter, Mint, Reread, RereadError,
         Persist, PersistError, Acquire, AcquireFails, Spawn, SpawnFails,
         TurnEnds, TurnAbandoned, TurnKilled, ClearRead, ClearReadError,
         ClearWrite, ClearWriteError, ResumeAcquire, ResumeRefused, Exec,
         ExecFails
<1>8. ASSUME NEW p \in Procs, ClaudeExits(p)
      PROVE  Mutex!Next
  BY <1>3, <1>8 DEF ClaudeExits
<1>9. CASE \E p \in Procs : Step(p) \/ ClaudeExits(p) \/ Crash(p)
  BY <1>1, <1>2, <1>3, <1>4, <1>5, <1>7, <1>8, <1>9
<1>10. CASE (\E s \in Procs : ChildStep(s)) \/ Edit \/ UNCHANGED vars
  BY <1>4, <1>6, <1>10 DEF ChildStep, ChildConnects, ChildWorks, Edit, vars
<1> QED
  BY <1>9, <1>10 DEF Next

\* Every behaviour of the work-on sessions is one of the transcript mutex:
\* each transcript passes from writer to writer through nobody.
THEOREM Refinement == Spec => MutexSpec
<1>1. Init => Mutex!Init
  <2> SUFFICES ASSUME Init PROVE Mutex!Init
    OBVIOUS
  <2>1. \A s \in Sessions : LiveWriters(s) = {}
    BY DEF Init, LiveWriters
  <2> QED
    BY <2>1 DEF Mutex!Init, WriterOf, MemberOrNone
<1>2. IInv /\ [Next]_vars => [Mutex!Next]_([s \in Sessions |-> WriterOf(s)])
  BY NextMutex
<1> QED
  BY <1>1, <1>2, Invariance, PTL DEF Spec, MutexSpec, Mutex!Spec

--------------------------------------------------------------------------
(* Writes from up to date copies.                                          *)

LEMMA NextFreshInv ==
  ASSUME TypeOK, FreshInv, [Next]_vars
  PROVE  FreshInv'
<1>1. CASE fresh' = [p \in Procs |-> FALSE]
  BY <1>1 DEF FreshInv
<1>2. ASSUME NEW p \in Procs, Find(p) \/ Reread(p) \/ ClearRead(p)
      PROVE  FreshInv'
  <2>1. /\ disk' = disk /\ mem'[p] = disk
        /\ \A q \in Procs : q # p => mem'[q] = mem[q] /\ fresh'[q] = fresh[q]
    BY <1>2 DEF Find, Reread, ClearRead, ReadTask, TypeOK
  <2>2. /\ pc'[p] \in {"enter", "persist", "clearwrite"}
        /\ \A q \in Procs : q # p => pc'[q] = pc[q]
    BY <1>2, MovedPc DEF Find, Reread, ClearRead
  <2> QED
    BY <2>1, <2>2 DEF FreshInv
<1>3. ASSUME NEW p \in Procs, Enter(p)
      PROVE  FreshInv'
  <2>1. /\ disk' = disk /\ fresh' = fresh
        /\ pc[p] = "enter" /\ ~InInbox(mem[p])
        /\ mem'[p] = Entered(mem[p], User[p])
        /\ \A q \in Procs : q # p => mem'[q] = mem[q]
    BY <1>3 DEF Enter, TypeOK
  <2>2. pc'[p] = "write" /\ \A q \in Procs : q # p => pc'[q] = pc[q]
    BY <1>3, MovedPc DEF Enter
  <2> QED
    BY <2>1, <2>2 DEF FreshInv, InInbox
<1>4. ASSUME NEW p \in Procs, UNCHANGED <<disk, mem, fresh>>,
             pc'[p] \notin {"enter", "write", "persist", "clearwrite"},
             \A q \in Procs : q # p => pc'[q] = pc[q]
      PROVE  FreshInv'
  BY <1>4 DEF FreshInv
<1>5. ASSUME NEW p \in Procs, Step(p) \/ ClaudeExits(p) \/ Crash(p)
      PROVE  FreshInv'
  <2>1. CASE Find(p) \/ Reread(p) \/ ClearRead(p) \/ Enter(p)
    BY <1>2, <1>3, <2>1
  <2>2. CASE Write(p) \/ Persist(p) \/ ClearWrite(p)
    BY <1>1, <2>2 DEF Write, Persist, ClearWrite, WriteTask
  <2>3. CASE /\ ~(Find(p) \/ Reread(p) \/ ClearRead(p) \/ Enter(p))
             /\ ~(Write(p) \/ Persist(p) \/ ClearWrite(p))
    <3>1. /\ UNCHANGED <<disk, mem, fresh>>
          /\ pc'[p] \notin {"enter", "write", "persist", "clearwrite"}
      BY <1>5, <2>3, MovedPc
         DEF Silent, Step, ClaudeExits, Crash, FindError, EnterRefused,
             WriteError, UseCached, NoStarter, Mint, RereadError,
             PersistError, Acquire, AcquireFails, Spawn, SpawnFails,
             TurnEnds, Settled, TurnAbandoned, TurnKilled, ClearReadError,
             ClearWriteError, ResumeAcquire, ResumeRefused, Exec, ExecFails
    <3> QED
      BY <1>4, <1>5, <3>1, OthersUnmoved
  <2> QED
    BY <2>1, <2>2, <2>3
<1>6. CASE (\E s \in Procs : ChildConnects(s) \/ ChildWorks(s)) \/ Edit
  BY <1>1, <1>6 DEF ChildConnects, ChildWorks, Edit, WriteTask
<1>7. CASE (\E s \in Procs : ChildExits(s)) \/ UNCHANGED vars
  BY <1>7 DEF ChildExits, vars, FreshInv
<1> QED
  BY <1>5, <1>6, <1>7 DEF Next, ChildStep

LEMMA FreshInvariance == Spec => []FreshInv
<1>1. Init => FreshInv
  BY DEF Init, FreshInv
<1>2. TypeOK /\ FreshInv /\ [Next]_vars => FreshInv'
  BY NextFreshInv
<1> QED
  BY <1>1, <1>2, TypeCorrect, PTL DEF Spec

\* With an up to date copy the session bookkeeping touches nothing but the
\* session fields, and of the metrics entries none but the run's own.
THEOREM Confined == Spec => BookkeepingConfined
<1>1. ASSUME TypeOK, FreshInv, NEW p \in Procs, fresh[p],
             Persist(p) \/ ClearWrite(p)
      PROVE  /\ \A f \in {"phase", "status", "assignee"} : disk'[f] = disk[f]
             /\ disk'.metrics \ {tgt[p]} = disk.metrics \ {tgt[p]}
  <2>1. mem[p] = disk /\ disk \in Task
    BY <1>1 DEF FreshInv, TypeOK, Persist, ClearWrite
  <2>2. CASE Persist(p)
    <3>1. disk' = [disk EXCEPT !.sid = IF @ = NoSid THEN tgt[p] ELSE @,
                               !.metrics = @ \cup {tgt[p]}]
      BY <2>1, <2>2 DEF Persist, WriteTask
    <3> QED
      BY <2>1, <3>1 DEF Task
  <2>3. CASE ClearWrite(p)
    <3>1. disk' = [disk EXCEPT !.sid = NoSid, !.metrics = @ \ {tgt[p]}]
      BY <2>1, <2>3 DEF ClearWrite, WriteTask, Cleared
    <3> QED
      BY <2>1, <3>1 DEF Task
  <2> QED
    BY <1>1, <2>2, <2>3
<1>2. TypeOK /\ FreshInv =>
        \A p \in Procs :
          fresh[p] /\ (Persist(p) \/ ClearWrite(p)) =>
            /\ \A f \in {"phase", "status", "assignee"} : disk'[f] = disk[f]
            /\ disk'.metrics \ {tgt[p]} = disk.metrics \ {tgt[p]}
  BY <1>1
<1> QED
  BY <1>2, TypeCorrect, FreshInvariance, PTL DEF BookkeepingConfined

\* With an up to date copy work-on neither takes a task out of the approval
\* inbox ...
THEOREM Inbox == Spec => InboxKept
<1>1. ASSUME TypeOK, FreshInv, NEW p \in Procs, fresh[p], Writes(p),
             disk.phase = "todo"
      PROVE  ~Write(p) /\ disk'.phase = "todo"
  <2>1. CASE Write(p)
    BY <1>1, <2>1 DEF Write, FreshInv
  <2>2. CASE Persist(p) \/ ClearWrite(p)
    <3>1. mem[p] = disk /\ disk \in Task
      BY <1>1, <2>2 DEF FreshInv, TypeOK, Persist, ClearWrite
    <3> QED
      BY <1>1, <2>2, <3>1
      DEF Write, Persist, ClearWrite, WriteTask, Cleared, Task
  <2> QED
    BY <1>1, <2>1, <2>2 DEF Writes
<1>2. TypeOK /\ FreshInv =>
        \A p \in Procs : fresh[p] /\ Writes(p) /\ disk.phase = "todo"
                           => ~Write(p) /\ disk'.phase = "todo"
  BY <1>1
<1> QED
  BY <1>2, TypeCorrect, FreshInvariance, PTL DEF InboxKept

\* ... nor from a teammate.
THEOREM Teammate == Spec => TeammateKept
<1>1. ASSUME TypeOK, FreshInv, NEW p \in Procs, fresh[p], Writes(p),
             disk.assignee # Nobody
      PROVE  disk'.assignee = disk.assignee
  <2>1. CASE Write(p)
    <3>1. disk' = Entered(disk, User[p]) /\ disk \in Task
      BY <1>1, <2>1 DEF Write, WriteTask, FreshInv, TypeOK
    <3> QED
      BY <1>1, <3>1 DEF Entered, Assign, Task
  <2>2. CASE Persist(p) \/ ClearWrite(p)
    <3>1. mem[p] = disk /\ disk \in Task
      BY <1>1, <2>2 DEF FreshInv, TypeOK, Persist, ClearWrite
    <3> QED
      BY <1>1, <2>2, <3>1 DEF Persist, ClearWrite, WriteTask, Cleared, Task
  <2> QED
    BY <1>1, <2>1, <2>2 DEF Writes
<1>2. TypeOK /\ FreshInv =>
        \A p \in Procs : fresh[p] /\ Writes(p) /\ disk.assignee # Nobody
                           => disk'.assignee = disk.assignee
  BY <1>1
<1> QED
  BY <1>2, TypeCorrect, FreshInvariance, PTL DEF TeammateKept

--------------------------------------------------------------------------
(* A minted id and its turn.                                               *)

\* The launch configuration of an invocation never changes.
LEMMA SameInv ==
  ASSUME [Next]_vars
  PROVE  inv' = inv
<1>1. ASSUME NEW p \in Procs, Step(p)
      PROVE  inv' = inv
  BY <1>1
     DEF Silent, Step, Find, FindError, Enter, EnterRefused, Write,
         WriteError, UseCached, NoStarter, Mint, Reread, RereadError,
         Persist, PersistError, Acquire, AcquireFails, Spawn, SpawnFails,
         TurnEnds, TurnAbandoned, TurnKilled, ClearRead, ClearReadError,
         ClearWrite, ClearWriteError, ResumeAcquire, ResumeRefused, Exec,
         ExecFails
<1>2. ASSUME NEW p \in Procs, ClaudeExits(p) \/ Crash(p)
      PROVE  inv' = inv
  BY <1>2 DEF ClaudeExits, Crash
<1>3. CASE (\E s \in Procs : ChildStep(s)) \/ Edit \/ UNCHANGED vars
  BY <1>3 DEF ChildStep, ChildConnects, ChildWorks, ChildExits, Edit, vars
<1> QED
  BY <1>1, <1>2, <1>3 DEF Next

\* What became of a turn changes only as it is spawned or while it runs.
LEMMA ChildMoves ==
  ASSUME TypeOK, TargetInv, [Next]_vars, NEW r \in Procs,
         child[r] # "running", ~(pc[r] = "spawn" /\ tgt[r] = r)
  PROVE  child'[r] = child[r]
<1>1. ASSUME NEW p \in Procs, Spawn(p)
      PROVE  child'[r] = child[r]
  BY <1>1 DEF Spawn, TypeOK, TargetInv, TargetRight
<1>2. ASSUME NEW p \in Procs, TurnKilled(p) \/ ChildExits(p)
      PROVE  child'[r] = child[r]
  BY <1>2 DEF TurnKilled, ChildExits, TypeOK, Sessions
<1>3. ASSUME NEW p \in Procs, Step(p), ~Spawn(p), ~TurnKilled(p)
      PROVE  child' = child
  BY <1>3
     DEF Silent, Step, Find, FindError, Enter, EnterRefused, Write,
         WriteError, UseCached, NoStarter, Mint, Reread, RereadError,
         Persist, PersistError, Acquire, AcquireFails, SpawnFails, TurnEnds,
         TurnAbandoned, ClearRead, ClearReadError, ClearWrite,
         ClearWriteError, ResumeAcquire, ResumeRefused, Exec, ExecFails
<1>4. ASSUME NEW p \in Procs, ClaudeExits(p) \/ Crash(p)
      PROVE  child' = child
  BY <1>4 DEF ClaudeExits, Crash
<1>5. CASE (\E s \in Procs : ChildConnects(s) \/ ChildWorks(s)) \/ Edit
           \/ UNCHANGED vars
  BY <1>5 DEF ChildConnects, ChildWorks, Edit, vars
<1> QED
  BY <1>1, <1>2, <1>3, <1>4, <1>5 DEF Next, ChildStep

\* An id that is not minted in this step stays unknown.
LEMMA UnmintedStays ==
  ASSUME TypeOK, TargetInv, MintInv, [Next]_vars,
         NEW r \in Procs, Unminted(r), tgt'[r] # r
  PROVE  Unminted(r)'
<1> USE DEF Unminted
<1> r # NoSid /\ tgt[r] # r
  BY SessionAssumption DEF Sessions
<1>1. ASSUME NEW p \in Procs, Step(p) \/ ClaudeExits(p) \/ Crash(p)
      PROVE  Unminted(r)'
  <2>1. child'[r] = "unborn"
    BY ChildMoves
  <2>2. CASE Find(p) \/ Reread(p) \/ ClearRead(p)
    BY <2>1, <2>2 DEF TypeOK, Find, Reread, ClearRead, ReadTask
  <2>3. CASE Enter(p)
    <3>1. mem'[p].sid = mem[p].sid
      BY <2>3 DEF Enter, Entered, TypeOK, Task
    <3>2. \A q \in Procs : q # p => mem'[q] = mem[q]
      BY <2>3 DEF Enter, TypeOK
    <3> QED
      BY <2>1, <2>3, <3>1, <3>2 DEF Enter
  <2>4. CASE Write(p)
    BY <2>1, <2>4 DEF Write, WriteTask
  <2>5. CASE Persist(p)
    <3>1. disk'.sid \in {mem[p].sid, tgt[p]}
      BY <2>5 DEF Persist, WriteTask, TypeOK, Task
    <3> QED
      BY <2>1, <2>5, <3>1 DEF Persist
  <2>6. CASE ClearWrite(p)
    <3>1. disk'.sid = NoSid
      BY <2>6 DEF ClearWrite, WriteTask, Cleared, TypeOK, Task
    <3> QED
      BY <2>1, <2>6, <3>1 DEF ClearWrite
  <2>7. CASE UseCached(p) \/ Mint(p)
    BY <2>1, <2>7 DEF UseCached, Mint, TypeOK
  <2>8. CASE /\ ~(Find(p) \/ Reread(p) \/ ClearRead(p) \/ Enter(p))
             /\ ~(Write(p) \/ Persist(p) \/ ClearWrite(p))
             /\ ~(UseCached(p) \/ Mint(p))
    <3>1. UNCHANGED <<disk, mem, tgt>>
      BY <1>1, <2>8
         DEF Silent, Step, ClaudeExits, Crash, FindError, EnterRefused,
             WriteError, NoStarter, RereadError, PersistError, Acquire,
             AcquireFails, Spawn, SpawnFails, TurnEnds, TurnAbandoned,
             TurnKilled, ClearReadError, ClearWriteError, ResumeAcquire,
             ResumeRefused, Exec, ExecFails
    <3> QED
      BY <2>1, <3>1
  <2> QED
    BY <2>2, <2>3, <2>4, <2>5, <2>6, <2>7, <2>8
<1>2. ASSUME NEW s \in Procs, ChildStep(s)
      PROVE  Unminted(r)'
  <2>1. s # r
    BY <1>2 DEF ChildStep, ChildConnects, ChildWorks, ChildExits
  <2>2. disk'.sid \in {disk.sid, s}
    BY <1>2 DEF ChildStep, ChildConnects, ChildWorks, ChildExits, WriteTask,
                TypeOK, Task
  <2>3. child'[r] = "unborn"
    BY ChildMoves
  <2> QED
    BY <1>2, <2>1, <2>2, <2>3
    DEF ChildStep, ChildConnects, ChildWorks, ChildExits
<1>3. CASE Edit
  <2>1. disk'.sid \in {disk.sid, NoSid}
    BY <1>3 DEF Edit, WriteTask, TypeOK, Task
  <2> QED
    BY <1>3, <2>1 DEF Edit
<1>4. CASE UNCHANGED vars
  BY <1>4 DEF vars
<1> QED
  BY <1>1, <1>2, <1>3, <1>4 DEF Next

\* A validated turn stays validated: its child is gone.
LEMMA ValidStays ==
  ASSUME TypeOK, TargetInv, [Next]_vars, NEW r \in Procs, TurnValid(r),
         pc[r] \notin {"spawn", "wait"}
  PROVE  TurnValid(r)'
<1>1. inv' = inv
  BY SameInv
<1>2. child'[r] = child[r]
  BY ChildMoves DEF TurnValid
<1> QED
  BY <1>1, <1>2 DEF TurnValid

LEMMA NextMintInv ==
  ASSUME TypeOK, TargetInv, MintInv, [Next]_vars
  PROVE  MintInv'
<1> SUFFICES ASSUME NEW r \in Procs
             PROVE  /\ Unminted(r)' \/ tgt'[r] = r
                    /\ tgt'[r] = r =>
                        /\ pc'[r] \notin {"find", "enter", "write", "session"}
                        /\ pc'[r] \in {"resume", "exec", "claude", "done"}
                             => TurnValid(r)'
  BY DEF MintInv
<1>1. /\ Unminted(r) \/ tgt[r] = r
      /\ tgt[r] = r =>
            /\ pc[r] \notin {"find", "enter", "write", "session"}
            /\ pc[r] \in {"resume", "exec", "claude", "done"} => TurnValid(r)
  BY DEF MintInv
<1>2. Unminted(r) => mem[r].sid # r /\ tgt[r] # r
  BY DEF Unminted
<1>3. CASE Step(r) /\ (Mint(r) \/ UseCached(r))
  <2>1. Unminted(r) /\ pc'[r] = "reread"
    BY <1>1, <1>3, MovedPc DEF Mint, UseCached
  <2> QED
    BY <2>1, UnmintedStays
<1>4. CASE /\ Step(r) \/ ClaudeExits(r) \/ Crash(r)
           /\ ~Mint(r) /\ ~UseCached(r)
  <2>1. tgt'[r] = tgt[r]
    BY <1>4
       DEF Silent, Step, ClaudeExits, Crash, Find, FindError, Enter,
           EnterRefused, Write, WriteError, NoStarter, Reread, RereadError,
           Persist, PersistError, Acquire, AcquireFails, Spawn, SpawnFails,
           TurnEnds, TurnAbandoned, TurnKilled, ClearRead, ClearReadError,
           ClearWrite, ClearWriteError, ResumeAcquire, ResumeRefused, Exec,
           ExecFails
  <2>2. ASSUME tgt[r] = r
        PROVE  /\ pc'[r] \notin {"find", "enter", "write", "session"}
               /\ pc'[r] \in {"resume", "exec", "claude", "done"}
                    => \/ pc[r] \in {"resume", "exec", "claude"}
                       \/ TurnEnds(r) /\ TurnValid(r)
    BY <1>1, <1>4, <2>2, MovedPc
       DEF Silent, Step, ClaudeExits, Crash, Find, FindError, Enter,
           EnterRefused, Write, WriteError, NoStarter, Reread, RereadError,
           Persist, PersistError, Acquire, AcquireFails, Spawn, SpawnFails,
           TurnEnds, Settled, TurnAbandoned, TurnKilled, ClearRead,
           ClearReadError, ClearWrite, ClearWriteError, ResumeAcquire,
           ResumeRefused, Exec, ExecFails
  <2>3. TurnEnds(r) /\ TurnValid(r) => TurnValid(r)'
    BY DEF TurnEnds, TurnValid
  <2> QED
    BY <1>1, <2>1, <2>2, <2>3, UnmintedStays, ValidStays
<1>5. CASE pc'[r] = pc[r] /\ tgt'[r] = tgt[r]
  BY <1>1, <1>5, UnmintedStays, ValidStays
<1>6. CASE \E p \in Procs : Step(p) \/ ClaudeExits(p) \/ Crash(p)
  <2>1. PICK p \in Procs : Step(p) \/ ClaudeExits(p) \/ Crash(p)
    BY <1>6
  <2>2. CASE p = r
    <3>1. Mint(r) \/ UseCached(r) => Step(r)
      BY DEF Step
    <3> QED
      BY <1>3, <1>4, <2>1, <2>2, <3>1
  <2>3. CASE p # r
    BY <1>5, <2>1, <2>3, OthersUnmoved
  <2> QED
    BY <2>2, <2>3
<1>7. CASE (\E s \in Procs : ChildStep(s)) \/ Edit \/ UNCHANGED vars
  BY <1>5, <1>7 DEF ChildStep, ChildConnects, ChildWorks, ChildExits, Edit, vars
<1> QED
  BY <1>6, <1>7 DEF Next

\* The id of an invocation is nowhere before it mints it.
LEMMA MintInvariance == Spec => []MintInv
<1>1. Init => MintInv
  <2> SUFFICES ASSUME Init PROVE MintInv
    OBVIOUS
  <2>1. \A p \in Procs : p # NoSid /\ p # Old /\ p \in Sessions
    BY SessionAssumption DEF Sessions
  <2>2. disk.sid \in {NoSid, Old}
    BY DEF Init
  <2>3. \A p \in Procs : Unminted(p)
    BY <2>1, <2>2 DEF Init, Unminted
  <2>4. \A p \in Procs : tgt[p] # p
    BY <2>1 DEF Init
  <2> QED
    BY <2>3, <2>4 DEF MintInv
<1>2. IInv /\ MintInv /\ [Next]_vars => MintInv'
  BY NextMintInv DEF IInv
<1> QED
  BY <1>1, <1>2, Invariance, PTL DEF Spec

\* A fresh id is resumed or reported only after a turn whose result was
\* validated (and, for the blocking runner, that exited zero).
THEOREM Validated == Spec => []FreshIdValidated
<1>1. MintInv => FreshIdValidated
  BY DEF MintInv, FreshIdValidated, TurnValid
<1> QED
  BY <1>1, MintInvariance, PTL

\* An interactive run's second turn is never refused on account of its own
\* first: its child is gone and so is its own descriptor.
THEOREM OwnTurn == Spec => []OwnTurnReleased
<1>1. ASSUME IInv, FreshIdValidated, NEW p \in Procs,
             pc[p] = "resume", tgt[p] = p
      PROVE  lock[p] \cap {p, Child} = {}
  <2>1. HeldRightly(p)
    BY <1>1 DEF IInv, LockInv, Sessions
  <2>2. p \notin lock[p]
    BY <1>1, <2>1 DEF HeldRightly, Holding
  <2>3. child[p] # "running"
    BY <1>1 DEF FreshIdValidated
  <2>4. Child \notin lock[p]
    BY <2>1, <2>3 DEF HeldRightly
  <2> QED
    BY <2>2, <2>4
<1>2. IInv /\ FreshIdValidated => OwnTurnReleased
  BY <1>1 DEF OwnTurnReleased
<1> QED
  BY <1>2, Invariance, Validated, PTL

--------------------------------------------------------------------------
(* The id that is left on the task.                                        *)

\* An id on the task whose session was never started belongs to the invocation
\* that is about to start it or to take the id back.
StartInv ==
    /\ child[Old] # "unborn"
    /\ \A p \in Procs : disk.sid = p /\ child[p] = "unborn"
           => pc[p] \in {"lock", "spawn", "clear", "clearwrite"}

\* One invocation, which is not killed and whose task file can be read and
\* written: the setting of the run.  With two, a stale copy of one brings back
\* the id that the other took back; a crash or a failed clear leaves it there.
Alone == \A p, q \in Procs : p = q
Undisturbed == "crash" \notin Faults /\ "storage" \notin Faults

\* The invocation's own steps.
LEMMA StepStartInv ==
  ASSUME TypeOK, TargetInv, MintInv, StartInv, Alone, Undisturbed,
         NEW p \in Procs, Step(p)
  PROVE  StartInv'
<1>1. child'[Old] = child[Old]
  BY SessionAssumption
     DEF Silent, Step, Find, FindError, Enter, EnterRefused, Write,
         WriteError, UseCached, NoStarter, Mint, Reread, RereadError,
         Persist, PersistError, Acquire, AcquireFails, Spawn, SpawnFails,
         TurnEnds, TurnAbandoned, TurnKilled, ClearRead, ClearReadError,
         ClearWrite, ClearWriteError, ResumeAcquire, ResumeRefused, Exec,
         ExecFails, TypeOK, Sessions
<1> SUFFICES ASSUME disk'.sid = p, child'[p] = "unborn"
             PROVE  pc'[p] \in {"lock", "spawn", "clear", "clearwrite"}
  BY <1>1 DEF StartInv, Alone
<1>2. child[p] = "unborn" /\ ~Spawn(p)
  <2>1. ~Spawn(p)
    BY DEF Spawn, TypeOK, Sessions
  <2>2. ~TurnKilled(p)
    BY DEF TurnKilled, TypeOK, Sessions
  <2>3. child' = child
    BY <2>1, <2>2
       DEF Silent, Step, Find, FindError, Enter, EnterRefused, Write,
           WriteError, UseCached, NoStarter, Mint, Reread, RereadError,
           Persist, PersistError, Acquire, AcquireFails, SpawnFails,
           TurnEnds, TurnAbandoned, ClearRead, ClearReadError, ClearWrite,
           ClearWriteError, ResumeAcquire, ResumeRefused, Exec, ExecFails
  <2> QED
    BY <2>1, <2>3
<1>3. CASE Write(p)
  <2>1. mem[p].sid # p
    BY <1>3 DEF Write, MintInv, Unminted
  <2> QED
    BY <1>3, <2>1 DEF Write, WriteTask
<1>4. CASE Persist(p)
  <2>1. disk'.sid \in {mem[p].sid, tgt[p]}
    BY <1>4 DEF Persist, WriteTask, TypeOK, Task
  <2>2. tgt[p] = p
    BY <2>1 DEF MintInv, Unminted
  <2> QED
    BY <1>4, <2>2, MovedPc DEF Persist
<1>5. CASE ClearWrite(p)
  <2>1. disk'.sid = NoSid
    BY <1>5 DEF ClearWrite, WriteTask, Cleared, TypeOK, Task
  <2> QED
    BY <2>1, SessionAssumption DEF Sessions
<1>6. CASE ~Write(p) /\ ~Persist(p) /\ ~ClearWrite(p)
  <2>1. disk' = disk
    BY <1>6
       DEF Silent, Step, Find, FindError, Enter, EnterRefused, WriteError,
           UseCached, NoStarter, Mint, Reread, RereadError, PersistError,
           Acquire, AcquireFails, Spawn, SpawnFails, TurnEnds,
           TurnAbandoned, TurnKilled, ClearRead, ClearReadError,
           ClearWriteError, ResumeAcquire, ResumeRefused, Exec, ExecFails,
           ReadTask
  <2>2. pc[p] \in {"lock", "spawn", "clear", "clearwrite"}
    BY <1>2, <2>1 DEF StartInv
  <2>3. ~ClearReadError(p) /\ ~ClearWriteError(p)
    BY DEF ClearReadError, ClearWriteError, Undisturbed
  <2>4. \/ pc'[p] = pc[p]
        \/ Acquire(p) \/ AcquireFails(p) \/ SpawnFails(p) \/ ClearRead(p)
    BY <1>2, <1>6, <2>2, <2>3
       DEF Silent, Step, Find, FindError, Enter, EnterRefused, WriteError,
           UseCached, NoStarter, Mint, Reread, RereadError, PersistError,
           TurnEnds, TurnAbandoned, TurnKilled, ResumeAcquire,
           ResumeRefused, Exec, ExecFails
  <2> QED
    BY <2>2, <2>4, MovedPc
       DEF Silent, Acquire, AcquireFails, SpawnFails, ClearRead
<1> QED
  BY <1>3, <1>4, <1>5, <1>6

LEMMA NextStartInv ==
  ASSUME TypeOK, TargetInv, MintInv, StartInv, Alone, Undisturbed, [Next]_vars
  PROVE  StartInv'
<1>1. ASSUME NEW p \in Procs, Step(p)
      PROVE  StartInv'
  BY <1>1, StepStartInv
<1>2. ASSUME NEW p \in Procs, ClaudeExits(p)
      PROVE  StartInv'
  <2>1. UNCHANGED <<disk, child>> /\ pc[p] = "claude" /\ Goto(p, "done")
    BY <1>2 DEF ClaudeExits
  <2>2. \A q \in Procs : q = p
    BY DEF Alone
  <2> QED
    BY <2>1, <2>2 DEF StartInv
<1>3. ASSUME NEW p \in Procs, Crash(p)
      PROVE  StartInv'
  BY <1>3 DEF Crash, Undisturbed
<1>4. ASSUME NEW s \in Procs, ChildStep(s)
      PROVE  StartInv'
  <2>1. child[s] = "running" /\ pc' = pc
    BY <1>4 DEF ChildStep, ChildConnects, ChildWorks, ChildExits
  <2>2. /\ child'[s] # "unborn" /\ child'[Old] = child[Old]
        /\ \A q \in Procs : q # s => child'[q] = child[q]
    BY <1>4, <2>1, SessionAssumption
       DEF ChildStep, ChildConnects, ChildWorks, ChildExits, TypeOK, Sessions
  <2>3. \A q \in Procs : q = s
    BY DEF Alone
  <2> QED
    BY <2>2, <2>3 DEF StartInv
<1>5. CASE Edit
  <2>1. disk'.sid \in {disk.sid, NoSid}
    BY <1>5 DEF Edit, WriteTask, TypeOK, Task
  <2>2. \A q \in Procs : q # NoSid
    BY SessionAssumption DEF Sessions
  <2>3. UNCHANGED <<pc, child>>
    BY <1>5 DEF Edit
  <2> QED
    BY <2>1, <2>2, <2>3 DEF StartInv
<1>6. CASE UNCHANGED vars
  BY <1>6 DEF vars, StartInv
<1> QED
  BY <1>1, <1>2, <1>3, <1>4, <1>5, <1>6 DEF Next

\* When an undisturbed invocation is over, and its turn with it, the id that is
\* left on the task names a session that was started, whatever turns, locks,
\* launchers and other programs did (workon.go:357-460).
THEOREM IdStarted ==
  ASSUME Alone, Undisturbed
  PROVE  Spec => []IdNamesStartedSession
<1>1. Init => StartInv
  <2>1. ASSUME Init
        PROVE  disk.sid \in {NoSid, Old} /\ child[Old] = "good"
    BY <2>1 DEF Init, Sessions
  <2>2. \A p \in Procs : p # NoSid /\ p # Old
    BY SessionAssumption DEF Sessions
  <2> QED
    BY <2>1, <2>2 DEF StartInv
<1>2. IInv /\ MintInv /\ StartInv /\ [Next]_vars => StartInv'
  BY NextStartInv DEF IInv
<1>3. IInv /\ StartInv => IdNamesStartedSession
  <2> SUFFICES ASSUME IInv, StartInv, Quiescent, disk.sid # NoSid
               PROVE  child[disk.sid] # "unborn"
    BY DEF IdNamesStartedSession
  <2>1. disk.sid = Old \/ disk.sid \in Procs
    BY DEF IInv, TypeOK, Task, Sessions
  <2>2. \A p \in Procs : pc[p] \notin {"lock", "spawn", "clear", "clearwrite"}
    BY DEF Quiescent, Ended
  <2> QED
    BY <2>1, <2>2 DEF StartInv
<1> QED
  BY <1>1, <1>2, <1>3, Invariance, MintInvariance, PTL DEF Spec
==========================================================================
