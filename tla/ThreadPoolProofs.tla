-------------------------- MODULE ThreadPoolProofs --------------------------
(***************************************************************************)
(* Proofs about CThreadPool for any number of workers, callers and tasks.  *)
(* PoolInv is the inductive invariant: the properties of module ThreadPool *)
(* that are to be proved, with the facts about the workers' local state    *)
(* that carry them through a step.                                         *)
(***************************************************************************)
EXTENDS ThreadPool, FiniteSetTheorems, SequenceTheorems, TLAPS

\* A worker between Take and Drop holds a task it has taken.
HoldsTask ==
    \A w \in Workers :
        wpc[w] \in {"run", "dec", "drop"} => task[w] \in Tasks

\* m_activeTasksCount counts the workers that took a task and did not yet
\* decrement.
Busy == {w \in Workers : wpc[w] \in {"run", "dec"}}
ActiveCount == active = Cardinality(Busy)

\* A task that was taken has ended or is in the hands of a running worker.
TakenIsHeld ==
    \A t \in Elems(started) :
        t \in finished \/ \E w \in Workers : wpc[w] = "run" /\ task[w] = t

\* Which workers can have taken a task since m_stopped was set.
LateInv ==
    \A w \in Workers :
        /\ late[w] <= 1
        /\ ~stopped => late[w] = 0
        /\ wpc[w] \in {"lock", "wait"} => late[w] = 0

\* While the owner is past JoinAll every thread it created has ended.
JoinedInv ==
    opc = "joined" => \A w \in Workers : wpc[w] \in {"unborn", "done"}

PoolInv ==
    /\ TypeOK
    /\ HoldsTask
    /\ FifoNoLoss
    /\ ActiveCount
    /\ TakenIsHeld
    /\ NoLostWakeup
    /\ LateInv
    /\ JoinedInv

-----------------------------------------------------------------------------
\* Removing the head of a queue and appending it to the list before it keeps
\* their concatenation.
LEMMA ShiftHead ==
    ASSUME NEW S, NEW s \in Seq(S), NEW q \in Seq(S), q # << >>
    PROVE  Append(s, Head(q)) \o Tail(q) = s \o q
<1>1. /\ Append(s, Head(q)) \o Tail(q) \in Seq(S)
      /\ s \o q \in Seq(S)
      /\ Len(Append(s, Head(q)) \o Tail(q)) = Len(s \o q)
  BY ConcatProperties, HeadTailProperties
<1>2. \A i \in 1 .. Len(s \o q) : (Append(s, Head(q)) \o Tail(q))[i] = (s \o q)[i]
  BY ConcatProperties, HeadTailProperties
<1> QED BY <1>1, <1>2, SeqEqual

\* Appending to the second of two lists appends to their concatenation.
LEMMA AppendConcat ==
    ASSUME NEW S, NEW s \in Seq(S), NEW q \in Seq(S), NEW e \in S
    PROVE  s \o Append(q, e) = Append(s \o q, e)
<1>1. /\ s \o Append(q, e) \in Seq(S)
      /\ Append(s \o q, e) \in Seq(S)
      /\ Len(s \o Append(q, e)) = Len(Append(s \o q, e))
  BY ConcatProperties
<1>2. ASSUME NEW i \in 1 .. Len(s \o Append(q, e))
      PROVE  (s \o Append(q, e))[i] = Append(s \o q, e)[i]
  <2>1. Len(s \o q) = Len(s) + Len(q) /\ s \o q \in Seq(S)
    BY ConcatProperties
  <2>2. CASE i = Len(s) + Len(q) + 1
    BY <2>1, <2>2
  <2>3. CASE i \in 1 .. Len(s) + Len(q)
    <3>1. Append(s \o q, e)[i] = (s \o q)[i]
      BY <2>1, <2>3
    <3>2. (s \o Append(q, e))[i] = (s \o q)[i]
      BY <2>3
    <3> QED BY <3>1, <3>2
  <2> QED BY <2>1, <2>2, <2>3
<1> QED BY <1>1, <1>2, SeqEqual

\* The elements of a list after an append.
LEMMA ElemsAppend ==
    ASSUME NEW S, NEW s \in Seq(S), NEW e \in S
    PROVE  Elems(Append(s, e)) = Elems(s) \cup {e}
BY DEF Elems

\* The elements of a concatenation.
LEMMA ElemsConcat ==
    ASSUME NEW S, NEW s \in Seq(S), NEW q \in Seq(S)
    PROVE  Elems(s \o q) = Elems(s) \cup Elems(q)
<1>1. Elems(s \o q) \subseteq Elems(s) \cup Elems(q)
  BY ConcatProperties DEF Elems
<1>2. ASSUME NEW x \in Elems(s) PROVE x \in Elems(s \o q)
  <2>1. PICK i \in 1 .. Len(s) : x = s[i]
    BY DEF Elems
  <2>2. i \in 1 .. Len(s \o q) /\ (s \o q)[i] = x
    BY <2>1, ConcatProperties
  <2> QED BY <2>2 DEF Elems
<1>3. ASSUME NEW x \in Elems(q) PROVE x \in Elems(s \o q)
  <2>1. PICK i \in 1 .. Len(q) : x = q[i]
    BY DEF Elems
  <2>2. Len(s) + i \in 1 .. Len(s \o q) /\ (s \o q)[Len(s) + i] = x
    BY <2>1, ConcatProperties
  <2> QED BY <2>2 DEF Elems
<1> QED BY <1>1, <1>2, <1>3

-----------------------------------------------------------------------------
\* Init establishes the invariant.
LEMMA InitInv == Init => PoolInv
<1> SUFFICES ASSUME Init PROVE PoolInv
  OBVIOUS
<1> USE DEF Init
<1>1. TypeOK
  <2>1. << >> \in Seq(Tasks)
    OBVIOUS
  <2>2. /\ wpc \in [Workers -> WorkerStates]
        /\ late \in [Workers -> Nat]
        /\ task \in [Workers -> Tasks \cup {NoTask}]
    BY DEF WorkerStates
  <2>3. active \in Int
    OBVIOUS
  <2>4. stopped \in BOOLEAN
    BY Zenon
  <2> QED BY <2>1, <2>2, <2>3, <2>4, Zenon DEF TypeOK
<1>2. HoldsTask /\ NoLostWakeup /\ LateInv /\ JoinedInv
  BY DEF HoldsTask, NoLostWakeup, LateInv, JoinedInv
<1>3. FifoNoLoss
  BY DEF FifoNoLoss
<1>4. ActiveCount
  <2>1. Busy = {}
    BY DEF Busy
  <2> QED BY <2>1, FS_EmptySet DEF ActiveCount
<1>5. TakenIsHeld
  BY DEF TakenIsHeld, Elems
<1> QED BY <1>1, <1>2, <1>3, <1>4, <1>5 DEF PoolInv

\* Every step keeps the types.
LEMMA StepType ==
    ASSUME TypeOK, HoldsTask, [Next]_vars
    PROVE  TypeOK'
<1> USE DEF TypeOK, WorkerStates
<1>1. ASSUME NEW w \in Workers, AddThread(w) PROVE TypeOK'
  BY <1>1 DEF AddThread
<1>2. ASSUME NEW w \in Workers, Check(w) PROVE TypeOK'
  BY <1>2 DEF Check
<1>3. ASSUME NEW w \in Workers, Wait(w) PROVE TypeOK'
  BY <1>3 DEF Wait
<1>4. ASSUME NEW w \in Workers, Take(w) PROVE TypeOK'
  BY <1>4 DEF Take
<1>5. ASSUME NEW w \in Workers, SpuriousWake(w) PROVE TypeOK'
  BY <1>5 DEF SpuriousWake
<1>6. ASSUME NEW w \in Workers, Return(w) PROVE TypeOK'
  BY <1>6 DEF Return, HoldsTask
<1>7. ASSUME NEW w \in Workers, Dec(w) PROVE TypeOK'
  BY <1>7 DEF Dec
<1>8. ASSUME NEW w \in Workers, Drop(w) PROVE TypeOK'
  BY <1>8 DEF Drop
<1>9. ASSUME NEW c \in Workers \cup Callers, Notify(c) PROVE TypeOK'
  BY <1>9 DEF Notify, Woken
<1>10. ASSUME NEW c \in Workers \cup Callers, NEW t \in Tasks, Push(c, t)
       PROVE TypeOK'
  BY <1>10 DEF Push
<1>11. CASE StopStore
  BY <1>11 DEF StopStore
<1>12. CASE StopNotify
  BY <1>12 DEF StopNotify, Woken
<1>13. CASE JoinAll
  BY <1>13 DEF JoinAll
<1>14. CASE UNCHANGED vars
  BY <1>14 DEF vars
<1> QED
  BY <1>1, <1>2, <1>3, <1>4, <1>5, <1>6, <1>7, <1>8, <1>9, <1>10, <1>11,
     <1>12, <1>13, <1>14 DEF Next, Step

\* The number of busy workers when none of them changes, when one becomes busy
\* and when one stops being busy.
LEMMA BusyCount ==
    ASSUME TypeOK, ActiveCount
    PROVE  /\ Busy' = Busy /\ active' = active => ActiveCount'
           /\ \A w \in Workers :
                /\ w \notin Busy /\ Busy' = Busy \cup {w} /\ active' = active + 1
                        => ActiveCount'
                /\ w \in Busy /\ Busy' = Busy \ {w} /\ active' = active - 1
                        => ActiveCount'
<1>1. IsFiniteSet(Busy)
  BY PoolAssumption, FS_Subset DEF Busy
<1>2. Cardinality(Busy) \in Nat
  BY <1>1, FS_CardinalityType
<1> QED BY <1>1, <1>2, FS_AddElement, FS_RemoveElement DEF ActiveCount

\* Every step keeps the invariant.
LEMMA StepInv == PoolInv /\ [Next]_vars => PoolInv'
<1> SUFFICES ASSUME PoolInv, [Next]_vars PROVE PoolInv'
  OBVIOUS
<1>T. TypeOK /\ TypeOK'
  BY StepType DEF PoolInv
<1> USE <1>T DEF PoolInv, TypeOK
<1>1. ASSUME NEW w \in Workers, AddThread(w) PROVE PoolInv'
  <2> USE <1>1 DEF AddThread
  <2>1. Busy' = Busy
    BY DEF Busy
  <2>2. ActiveCount'
    BY <2>1, BusyCount
  <2>3. HoldsTask' /\ TakenIsHeld'
    BY DEF HoldsTask, TakenIsHeld
  <2>4. FifoNoLoss' /\ NoLostWakeup'
    BY DEF FifoNoLoss, NoLostWakeup
  <2>5. LateInv' /\ JoinedInv'
    BY DEF LateInv, JoinedInv
  <2> QED BY <2>2, <2>3, <2>4, <2>5
<1>2. ASSUME NEW w \in Workers, Check(w) PROVE PoolInv'
  <2> USE <1>2 DEF Check
  <2>1. Busy' = Busy
    BY DEF Busy
  <2>2. ActiveCount'
    BY <2>1, BusyCount
  <2>3. HoldsTask' /\ TakenIsHeld'
    BY DEF HoldsTask, TakenIsHeld
  <2>4. FifoNoLoss' /\ NoLostWakeup'
    BY DEF FifoNoLoss, NoLostWakeup
  <2>5. LateInv' /\ JoinedInv'
    BY DEF LateInv, JoinedInv
  <2> QED BY <2>2, <2>3, <2>4, <2>5
<1>3. ASSUME NEW w \in Workers, Wait(w) PROVE PoolInv'
  <2> USE <1>3 DEF Wait
  <2>1. Busy' = Busy
    BY DEF Busy
  <2>2. ActiveCount'
    BY <2>1, BusyCount
  <2>3. HoldsTask' /\ TakenIsHeld'
    BY DEF HoldsTask, TakenIsHeld
  <2>4. FifoNoLoss' /\ NoLostWakeup'
    BY DEF FifoNoLoss, NoLostWakeup
  <2>5. LateInv' /\ JoinedInv'
    BY DEF LateInv, JoinedInv
  <2> QED BY <2>2, <2>3, <2>4, <2>5
<1>4. ASSUME NEW w \in Workers, Take(w) PROVE PoolInv'
  <2> USE <1>4 DEF Take
  <2>1. w \notin Busy /\ Busy' = Busy \cup {w}
    BY DEF Busy
  <2>2. ActiveCount'
    BY <2>1, BusyCount
  <2>3. HoldsTask'
    BY DEF HoldsTask
  <2>4. TakenIsHeld'
    <3>1. Elems(started') = Elems(started) \cup {Head(queue)}
      BY ElemsAppend
    <3>2. wpc'[w] = "run" /\ task'[w] = Head(queue)
      OBVIOUS
    <3>3. \A v \in Workers : wpc[v] = "run" => wpc'[v] = "run" /\ task'[v] = task[v]
      OBVIOUS
    <3> QED BY <3>1, <3>2, <3>3, Zenon DEF TakenIsHeld
  <2>5. FifoNoLoss'
    BY ShiftHead, SMTT(60) DEF FifoNoLoss
  <2>6. NoLostWakeup'
    BY DEF NoLostWakeup
  <2>7. LateInv' /\ JoinedInv'
    BY DEF LateInv, JoinedInv
  <2> QED BY <2>2, <2>3, <2>4, <2>5, <2>6, <2>7
<1>5. ASSUME NEW w \in Workers, SpuriousWake(w) PROVE PoolInv'
  <2> USE <1>5 DEF SpuriousWake
  <2>1. Busy' = Busy
    BY DEF Busy
  <2>2. ActiveCount'
    BY <2>1, BusyCount
  <2>3. HoldsTask' /\ TakenIsHeld'
    BY DEF HoldsTask, TakenIsHeld
  <2>4. FifoNoLoss' /\ NoLostWakeup'
    BY DEF FifoNoLoss, NoLostWakeup
  <2>5. LateInv' /\ JoinedInv'
    BY DEF LateInv, JoinedInv
  <2> QED BY <2>2, <2>3, <2>4, <2>5
<1>6. ASSUME NEW w \in Workers, Return(w) PROVE PoolInv'
  <2> USE <1>6 DEF Return
  <2>1. Busy' = Busy
    BY DEF Busy
  <2>2. ActiveCount'
    BY <2>1, BusyCount
  <2>3. HoldsTask' /\ TakenIsHeld'
    BY DEF HoldsTask, TakenIsHeld
  <2>4. FifoNoLoss' /\ NoLostWakeup'
    BY DEF FifoNoLoss, NoLostWakeup
  <2>5. LateInv' /\ JoinedInv'
    BY DEF LateInv, JoinedInv
  <2> QED BY <2>2, <2>3, <2>4, <2>5
<1>7. ASSUME NEW w \in Workers, Dec(w) PROVE PoolInv'
  <2> USE <1>7 DEF Dec
  <2>1. w \in Busy /\ Busy' = Busy \ {w}
    BY DEF Busy
  <2>2. ActiveCount'
    BY <2>1, BusyCount
  <2>3. HoldsTask' /\ TakenIsHeld'
    BY DEF HoldsTask, TakenIsHeld
  <2>4. FifoNoLoss' /\ NoLostWakeup'
    BY DEF FifoNoLoss, NoLostWakeup
  <2>5. LateInv' /\ JoinedInv'
    BY DEF LateInv, JoinedInv
  <2> QED BY <2>2, <2>3, <2>4, <2>5
<1>8. ASSUME NEW w \in Workers, Drop(w) PROVE PoolInv'
  <2> USE <1>8 DEF Drop
  <2>1. Busy' = Busy
    BY DEF Busy
  <2>2. ActiveCount'
    BY <2>1, BusyCount
  <2>3. HoldsTask' /\ TakenIsHeld'
    BY DEF HoldsTask, TakenIsHeld
  <2>4. FifoNoLoss' /\ NoLostWakeup'
    BY DEF FifoNoLoss, NoLostWakeup
  <2>5. LateInv' /\ JoinedInv'
    BY DEF LateInv, JoinedInv
  <2> QED BY <2>2, <2>3, <2>4, <2>5
<1>9. ASSUME NEW c \in Workers \cup Callers, Notify(c) PROVE PoolInv'
  <2> USE <1>9 DEF Notify, Woken
  <2>1. Busy' = Busy
    BY DEF Busy
  <2>2. ActiveCount'
    BY <2>1, BusyCount
  <2>3. HoldsTask' /\ TakenIsHeld'
    BY DEF HoldsTask, TakenIsHeld
  <2>4. FifoNoLoss' /\ NoLostWakeup'
    BY DEF FifoNoLoss, NoLostWakeup
  <2>5. LateInv' /\ JoinedInv'
    BY DEF LateInv, JoinedInv
  <2> QED BY <2>2, <2>3, <2>4, <2>5
<1>10. ASSUME NEW c \in Workers \cup Callers, NEW t \in Tasks, Push(c, t)
       PROVE PoolInv'
  <2> USE <1>10 DEF Push
  <2>1. Busy' = Busy
    BY DEF Busy
  <2>2. ActiveCount'
    BY <2>1, BusyCount
  <2>3. HoldsTask' /\ TakenIsHeld'
    BY DEF HoldsTask, TakenIsHeld
  <2>4. FifoNoLoss'
    <3>1. started \o Append(queue, t) = Append(started \o queue, t)
      BY AppendConcat
    <3> QED BY <3>1 DEF FifoNoLoss
  <2>5. NoLostWakeup' /\ LateInv' /\ JoinedInv'
    BY DEF NoLostWakeup, LateInv, JoinedInv
  <2> QED BY <2>2, <2>3, <2>4, <2>5
<1>11. CASE StopStore
  <2> USE <1>11 DEF StopStore
  <2>1. Busy' = Busy
    BY DEF Busy
  <2>2. ActiveCount'
    BY <2>1, BusyCount
  <2>3. HoldsTask' /\ TakenIsHeld'
    BY DEF HoldsTask, TakenIsHeld
  <2>4. FifoNoLoss' /\ NoLostWakeup'
    BY DEF FifoNoLoss, NoLostWakeup
  <2>5. LateInv' /\ JoinedInv'
    BY DEF LateInv, JoinedInv
  <2> QED BY <2>2, <2>3, <2>4, <2>5
<1>12. CASE StopNotify
  <2> USE <1>12 DEF StopNotify, Woken
  <2>1. Busy' = Busy
    BY DEF Busy
  <2>2. ActiveCount'
    BY <2>1, BusyCount
  <2>3. HoldsTask' /\ TakenIsHeld'
    BY DEF HoldsTask, TakenIsHeld
  <2>4. FifoNoLoss' /\ NoLostWakeup'
    BY DEF FifoNoLoss, NoLostWakeup
  <2>5. LateInv' /\ JoinedInv'
    BY DEF LateInv, JoinedInv
  <2> QED BY <2>2, <2>3, <2>4, <2>5
<1>13. CASE JoinAll
  <2> USE <1>13 DEF JoinAll
  <2>1. Busy' = Busy
    BY DEF Busy
  <2>2. ActiveCount'
    BY <2>1, BusyCount
  <2>3. HoldsTask' /\ TakenIsHeld'
    BY DEF HoldsTask, TakenIsHeld
  <2>4. FifoNoLoss' /\ NoLostWakeup'
    BY DEF FifoNoLoss, NoLostWakeup
  <2>5. LateInv' /\ JoinedInv'
    BY DEF LateInv, JoinedInv
  <2> QED BY <2>2, <2>3, <2>4, <2>5
<1>14. CASE UNCHANGED vars
  <2> USE <1>14 DEF vars
  <2>1. Busy' = Busy
    BY DEF Busy
  <2>2. ActiveCount'
    BY <2>1, BusyCount
  <2>3. HoldsTask' /\ TakenIsHeld'
    BY DEF HoldsTask, TakenIsHeld
  <2>4. FifoNoLoss' /\ NoLostWakeup'
    BY DEF FifoNoLoss, NoLostWakeup
  <2>5. LateInv' /\ JoinedInv'
    BY DEF LateInv, JoinedInv
  <2> QED BY <2>2, <2>3, <2>4, <2>5
<1> QED
  BY <1>1, <1>2, <1>3, <1>4, <1>5, <1>6, <1>7, <1>8, <1>9, <1>10, <1>11,
     <1>12, <1>13, <1>14 DEF Next, Step

\* The invariant holds in every reachable state.
THEOREM PoolInvariant == Spec => []PoolInv
BY InitInv, StepInv, PTL DEF Spec

\* The pool's state keeps its types.
THEOREM TypeCorrect == Spec => []TypeOK
<1>1. PoolInv => TypeOK
  BY DEF PoolInv
<1> QED BY <1>1, PoolInvariant, PTL

\* AddTask / MainLoop: tasks are taken in submission order, none is lost and
\* none is taken twice.
THEOREM FifoCorrect == Spec => []FifoNoLoss
<1>1. PoolInv => FifoNoLoss
  BY DEF PoolInv
<1> QED BY <1>1, PoolInvariant, PTL

\* AddTask's notify_all, sent outside the lock, is never missed by a worker
\* that waits beside a queued task.
THEOREM WakeupCorrect == Spec => []NoLostWakeup
<1>1. PoolInv => NoLostWakeup
  BY DEF PoolInv
<1> QED BY <1>1, PoolInvariant, PTL

\* After m_stopped is set a worker takes at most one more task.
THEOREM LateCorrect == Spec => []LateAtMostOne
<1>1. PoolInv => LateAtMostOne
  BY DEF PoolInv, LateInv, LateAtMostOne
<1> QED BY <1>1, PoolInvariant, PTL

\* GetTasksCount = 0 means that every submitted task has ended: an empty queue
\* makes "added" and "started" the same, a zero counter leaves no running
\* worker, and a task that was taken and is not held has ended.
THEOREM IdleCorrect == Spec => []IdleMeansDone
<1>1. PoolInv => IdleMeansDone
  <2> SUFFICES ASSUME PoolInv, TasksCount = 0
               PROVE  Elems(added) \subseteq finished
    BY DEF IdleMeansDone
  <2> USE DEF PoolInv, TypeOK
  <2>1. IsFiniteSet(Busy)
    BY PoolAssumption, FS_Subset DEF Busy
  <2>2. Cardinality(Busy) \in Nat /\ Len(queue) \in Nat
    BY <2>1, FS_CardinalityType
  <2>3. Len(queue) = 0 /\ Cardinality(Busy) = 0
    BY <2>2 DEF TasksCount, ActiveCount
  <2>4. Busy = {}
    BY <2>1, <2>3, FS_EmptySet
  <2>5. added = started
    <3>1. queue = << >>
      BY <2>3
    <3> QED BY <3>1, ConcatEmptySeq DEF FifoNoLoss
  <2> QED BY <2>4, <2>5 DEF TakenIsHeld, Busy
<1> QED BY <1>1, PoolInvariant, PTL

\* When Stop has returned no task runs and none starts any more.
THEOREM JoinedCorrect == Spec => JoinedIsQuiet
<1>1. PoolInv /\ [Next]_vars =>
        [opc = "joined" => started' = started /\ finished' = finished]_vars
  <2> SUFFICES ASSUME PoolInv, Next, opc = "joined"
               PROVE  started' = started /\ finished' = finished
    OBVIOUS
  <2>1. \A w \in Workers : wpc[w] \in {"unborn", "done"}
    BY DEF PoolInv, JoinedInv
  <2> QED
    BY <2>1 DEF Next, Step, AddThread, Check, Wait, Take, SpuriousWake, Return,
       Dec, Drop, Notify, Push, StopStore, StopNotify, JoinAll
<1> QED BY <1>1, PoolInvariant, PTL DEF Spec, JoinedIsQuiet

-----------------------------------------------------------------------------
(* Implementation of TaskQueue.                                             *)

\* Each task is submitted once.
AddedOnce ==
    \A i, j \in 1 .. Len(added) : added[i] = added[j] => i = j

\* Running workers hold different tasks; what runs or has ended was taken.
RunningApart ==
    /\ \A v, w \in Workers :
          wpc[v] = "run" /\ wpc[w] = "run" /\ task[v] = task[w] => v = w
    /\ \A w \in Workers : wpc[w] = "run" => task[w] \in Elems(started)
    /\ finished \subseteq Elems(started)

MapInv == PoolInv /\ AddedOnce /\ RunningApart

\* The task at the head of the queue was not taken before.
LEMMA HeadIsNew ==
    ASSUME MapInv, queue # << >>
    PROVE  Head(queue) \notin Elems(started)
<1> USE DEF MapInv, PoolInv, TypeOK
<1> SUFFICES ASSUME NEW i \in 1 .. Len(started), started[i] = Head(queue)
             PROVE  FALSE
  BY DEF Elems
<1>1. Len(queue) \in Nat \ {0} /\ Len(started) \in Nat /\ Head(queue) = queue[1]
  BY EmptySeq
<1>2. Len(added) = Len(started) + Len(queue)
  BY ConcatProperties DEF FifoNoLoss
<1>3. added[i] = started[i]
  BY <1>1, <1>2, ConcatProperties DEF FifoNoLoss
<1>4. added[Len(started) + 1] = queue[1]
  BY <1>1, <1>2, ConcatProperties DEF FifoNoLoss
<1> QED BY <1>1, <1>2, <1>3, <1>4 DEF AddedOnce

\* Every step keeps the invariant of the mapping.
LEMMA MapStep == MapInv /\ [Next]_vars => MapInv'
<1> SUFFICES ASSUME MapInv, [Next]_vars PROVE MapInv'
  OBVIOUS
<1>0. PoolInv /\ PoolInv'
  BY StepInv DEF MapInv
<1>T. TypeOK /\ TypeOK' /\ AddedOnce /\ RunningApart
  BY <1>0 DEF PoolInv, MapInv
<1> SUFFICES AddedOnce' /\ RunningApart'
  BY <1>0 DEF MapInv
<1> USE <1>T DEF TypeOK
<1>1. ASSUME NEW c \in Workers \cup Callers, NEW t \in Tasks, Push(c, t)
      PROVE  AddedOnce' /\ RunningApart'
  <2> USE <1>1 DEF Push
  <2>1. AddedOnce'
    BY DEF AddedOnce, Elems
  <2>2. RunningApart'
    BY DEF RunningApart
  <2> QED BY <2>1, <2>2
<1>2. ASSUME NEW w \in Workers, Take(w) PROVE AddedOnce' /\ RunningApart'
  <2> USE <1>2 DEF Take
  <2>1. AddedOnce'
    BY DEF AddedOnce
  <2>2. Elems(started') = Elems(started) \cup {Head(queue)}
    BY ElemsAppend
  <2>3. Head(queue) \notin Elems(started)
    BY HeadIsNew
  <2>4. /\ wpc'[w] = "run" /\ task'[w] = Head(queue)
        /\ \A v \in Workers \ {w} : wpc'[v] = wpc[v] /\ task'[v] = task[v]
    OBVIOUS
  <2>5. ASSUME NEW u \in Workers, NEW v \in Workers,
               wpc'[u] = "run", wpc'[v] = "run", task'[u] = task'[v]
        PROVE  u = v
    <3>1. \A x \in Workers \ {w} : wpc'[x] = "run" => task'[x] \in Elems(started)
      BY <2>4, Zenon DEF RunningApart
    <3>2. CASE u # w /\ v # w
      BY <2>4, <2>5, <3>2, Zenon DEF RunningApart
    <3>3. CASE u = w \/ v = w
      BY <2>3, <2>4, <2>5, <3>1, <3>3, Zenon
    <3> QED BY <3>2, <3>3
  <2>6. \A v \in Workers : wpc'[v] = "run" => task'[v] \in Elems(started')
    BY <2>2, <2>4, Zenon DEF RunningApart
  <2>7. finished' \subseteq Elems(started')
    BY <2>2 DEF RunningApart
  <2>8. RunningApart'
    BY <2>5, <2>6, <2>7, Zenon DEF RunningApart
  <2> QED BY <2>1, <2>8
<1>3. ASSUME NEW w \in Workers, Return(w) PROVE AddedOnce' /\ RunningApart'
  BY <1>3 DEF Return, AddedOnce, RunningApart
<1>4. ASSUME UNCHANGED <<added, started, finished, task>>,
             \A v \in Workers : wpc'[v] = "run" => wpc[v] = "run"
      PROVE  AddedOnce' /\ RunningApart'
  BY <1>4 DEF AddedOnce, RunningApart
<1>5. ASSUME NEW w \in Workers, AddThread(w) \/ Check(w) \/ Wait(w) \/ SpuriousWake(w) \/ Dec(w)
      PROVE AddedOnce' /\ RunningApart'
  BY <1>4, <1>5 DEF AddThread, Check, Wait, SpuriousWake, Dec
<1>6. ASSUME NEW w \in Workers, Drop(w) PROVE AddedOnce' /\ RunningApart'
  BY <1>6 DEF Drop, AddedOnce, RunningApart
<1>7. ASSUME NEW c \in Workers \cup Callers, Notify(c) PROVE AddedOnce' /\ RunningApart'
  BY <1>4, <1>7 DEF Notify, Woken
<1>8. CASE StopStore \/ StopNotify \/ JoinAll \/ UNCHANGED vars
  BY <1>4, <1>8 DEF StopStore, StopNotify, JoinAll, Woken, vars
<1> QED BY <1>1, <1>2, <1>3, <1>5, <1>6, <1>7, <1>8 DEF Next, Step

\* Fewer tasks run than there are workers while one of them is not running.
LEMMA RunningBelowWidth ==
    ASSUME NEW w \in Workers, wpc[w] # "run", TypeOK
    PROVE  Cardinality(Running) < Cardinality(Workers)
<1> DEFINE R == {v \in Workers : wpc[v] = "run"}
           f == [v \in R |-> task[v]]
<1>1. IsFiniteSet(R) /\ Cardinality(R) \in Nat
  BY PoolAssumption, FS_Subset, FS_CardinalityType
<1>2. Cardinality(R) < Cardinality(Workers)
  <2>1. R \in SUBSET Workers /\ R # Workers
    OBVIOUS
  <2>2. Cardinality(Workers) \in Nat
    BY PoolAssumption, FS_CardinalityType
  <2>3. Cardinality(R) <= Cardinality(Workers) /\ Cardinality(R) # Cardinality(Workers)
    BY <2>1, PoolAssumption, FS_Subset
  <2> HIDE DEF R
  <2> QED BY <1>1, <2>2, <2>3
<1>3. f \in Surjection(R, Running)
  BY DEF Surjection, Running
<1>4. IsFiniteSet(Running) /\ Cardinality(Running) <= Cardinality(R)
  <2> HIDE DEF R, f
  <2> QED BY <1>1, <1>3, FS_Surjection
<1>5. Cardinality(Running) \in Nat /\ Cardinality(Workers) \in Nat
  BY <1>4, PoolAssumption, FS_CardinalityType
<1> HIDE DEF R
<1> QED BY <1>1, <1>2, <1>4, <1>5

\* Steps of the pool are steps of the task queue or leave its state alone.
LEMMA MapNext == MapInv /\ [Next]_vars => [Queue!Next]_(Queue!vars)
<1> SUFFICES ASSUME MapInv, [Next]_vars PROVE [Queue!Next]_(Queue!vars)
  OBVIOUS
<1>0. PoolInv /\ TypeOK /\ TypeOK' /\ RunningApart
  BY StepType DEF MapInv, PoolInv
<1> USE <1>0 DEF TypeOK
<1>1. ASSUME NEW c \in Workers \cup Callers, NEW t \in Tasks, Push(c, t)
      PROVE  Queue!Submit(t)
  <2> USE <1>1 DEF Push
  <2>1. Elems(added) = Elems(started) \cup Elems(queue)
    BY ElemsConcat DEF PoolInv, FifoNoLoss
  <2>2. Running \subseteq Elems(started)
    BY DEF RunningApart, Running
  <2>3. Queue!Seen \subseteq Elems(added)
    BY <2>1, <2>2 DEF Queue!Seen, RunningApart, Elems
  <2>4. Running' = Running
    BY DEF Running
  <2> QED BY <2>3, <2>4 DEF Queue!Submit
<1>2. ASSUME NEW w \in Workers, Take(w) PROVE Queue!Start
  <2> USE <1>2 DEF Take
  <2>1. Cardinality(Running) < Cardinality(Workers)
    BY RunningBelowWidth
  <2>2. /\ wpc'[w] = "run" /\ wpc[w] # "run" /\ task'[w] = Head(queue)
        /\ \A v \in Workers \ {w} : wpc'[v] = wpc[v] /\ task'[v] = task[v]
    OBVIOUS
  <2>3. Running' = Running \cup {Head(queue)}
    <3>1. Head(queue) \in Running'
      BY <2>2, Zenon DEF Running
    <3>2. Running \subseteq Running'
      BY <2>2 DEF Running
    <3>3. Running' \subseteq Running \cup {Head(queue)}
      BY <2>2 DEF Running
    <3> QED BY <3>1, <3>2, <3>3
  <2>4. /\ queue # << >> /\ queue' = Tail(queue)
        /\ UNCHANGED <<finished, stopped>>
    OBVIOUS
  <2> QED BY <2>1, <2>3, <2>4 DEF Queue!Start, Queue!Cardinality, Cardinality
<1>3. ASSUME NEW w \in Workers, Return(w) PROVE Queue!Finish(task[w])
  <2> USE <1>3 DEF Return
  <2>1. task[w] \in Running
    BY DEF Running
  <2>2. /\ wpc'[w] # "run" /\ wpc[w] = "run" /\ task' = task
        /\ \A v \in Workers \ {w} : wpc'[v] = wpc[v]
    OBVIOUS
  <2>3. Running' = Running \ {task[w]}
    <3>1. Running' \subseteq Running \ {task[w]}
      BY <2>2 DEF Running, RunningApart
    <3>2. Running \ {task[w]} \subseteq Running'
      BY <2>2 DEF Running
    <3> QED BY <3>1, <3>2
  <2> QED BY <2>1, <2>3 DEF Queue!Finish
<1>4. CASE StopStore
  <2>1. Queue!Close
    BY <1>4 DEF StopStore, Queue!Close, Running
  <2> QED BY <2>1 DEF Queue!Next
<1>5. ASSUME UNCHANGED <<queue, finished, stopped>>,
             \A v \in Workers : wpc'[v] = "run" <=> wpc[v] = "run",
             \A v \in Workers : wpc[v] = "run" => task'[v] = task[v]
      PROVE  UNCHANGED Queue!vars
  <2>1. Running' = Running
    BY <1>5, Zenon DEF Running
  <2> QED BY <1>5, <2>1 DEF Queue!vars
<1>6. ASSUME NEW w \in Workers,
             AddThread(w) \/ Check(w) \/ Wait(w) \/ SpuriousWake(w) \/ Dec(w) \/ Drop(w)
      PROVE  UNCHANGED Queue!vars
  BY <1>5, <1>6 DEF AddThread, Check, Wait, SpuriousWake, Dec, Drop
<1>7. ASSUME NEW c \in Workers \cup Callers, Notify(c) PROVE UNCHANGED Queue!vars
  BY <1>5, <1>7 DEF Notify, Woken
<1>8. CASE StopNotify \/ JoinAll \/ UNCHANGED vars
  BY <1>5, <1>8 DEF StopNotify, JoinAll, Woken, vars
<1>9. ASSUME NEW w \in Workers, Return(w) PROVE Queue!Next
  <2>1. task[w] \in Tasks
    BY <1>9 DEF Return, PoolInv, HoldsTask
  <2> QED BY <1>3, <1>9, <2>1 DEF Queue!Next
<1> QED
  BY <1>1, <1>2, <1>4, <1>6, <1>7, <1>8, <1>9 DEF Next, Step, Queue!Next

\* CThreadPool implements the safety part of TaskQueue: AddTask is Submit, the
\* block that takes a task is Start, the end of task() is Finish, the store to
\* m_stopped is Close, and every other step is invisible.
THEOREM PoolImplementsQueue == Spec => Queue!Spec
<1>1. Init => Queue!Init
  BY DEF Init, Queue!Init, Running
<1>2. Init => MapInv
  BY InitInv DEF Init, MapInv, AddedOnce, RunningApart
<1> QED BY <1>1, <1>2, MapStep, MapNext, PTL DEF Spec, Queue!Spec

=============================================================================
