----------------------------- MODULE ThreadPool -----------------------------
(***************************************************************************)
(* oui::CThreadPool (orthia_ui/oui_threadpool.cpp).  Every lock-protected  *)
(* block of the code is one step; what happens outside the lock (the test  *)
(* of m_stopped, notify_all, the task itself, the decrement of             *)
(* m_activeTasksCount and the destruction of the local std::function) is a *)
(* step of its own, because other threads can run in between.              *)
(*                                                                         *)
(* Tasks are told apart and each is submitted at most once.  A task either *)
(* returns or throws a std::exception that MainLoop catches: both are      *)
(* Return(w).  A running task may itself submit tasks to its pool.         *)
(***************************************************************************)
EXTENDS Integers, Sequences, FiniteSets

CONSTANTS
    Workers,    \* the threads AddThread may create
    Callers,    \* other threads that call AddTask
    Tasks,
    NoTask      \* an empty std::function

ASSUME PoolAssumption ==
    /\ IsFiniteSet(Workers)
    /\ Workers \cap Callers = {}
    /\ NoTask \notin Tasks

VARIABLES
    queue,      \* m_tasks
    active,     \* m_activeTasksCount
    stopped,    \* m_stopped
    wpc,        \* where each worker is in MainLoop
    task,       \* the local variable "task" of each worker
    notifying,  \* the threads between the unlock and the notify_all of AddTask
    opc,        \* where the owner is in Stop
    added,      \* history: every task submitted, in order
    started,    \* history: every task taken from the queue, in order
    finished,   \* history: the tasks whose body has ended
    late        \* history: tasks each worker took after m_stopped was set

vars == <<queue, active, stopped, wpc, task, notifying, opc,
          added, started, finished, late>>

Elems(s) == {s[i] : i \in 1 .. Len(s)}

WorkerStates == {"unborn", "check", "lock", "wait", "run", "dec", "drop", "done"}

TypeOK ==
    /\ queue \in Seq(Tasks)
    /\ active \in Int
    /\ stopped \in BOOLEAN
    /\ wpc \in [Workers -> WorkerStates]
    /\ task \in [Workers -> Tasks \cup {NoTask}]
    /\ notifying \subseteq Workers \cup Callers
    /\ opc \in {"open", "notify", "join", "joined"}
    /\ added \in Seq(Tasks)
    /\ started \in Seq(Tasks)
    /\ finished \subseteq Tasks
    /\ late \in [Workers -> Nat]

Init ==
    /\ queue = << >>
    /\ active = 0
    /\ stopped = FALSE
    /\ wpc = [w \in Workers |-> "unborn"]
    /\ task = [w \in Workers |-> NoTask]
    /\ notifying = {}
    /\ opc = "open"
    /\ added = << >>
    /\ started = << >>
    /\ finished = {}
    /\ late = [w \in Workers |-> 0]

-----------------------------------------------------------------------------
(* The owner's and the callers' operations.                                 *)

\* Start calls AddThread once per thread; the thread begins with MainLoop.
AddThread(w) ==
    /\ opc = "open"
    /\ wpc[w] = "unborn"
    /\ wpc' = [wpc EXCEPT ![w] = "check"]
    /\ UNCHANGED <<queue, active, stopped, task, notifying, opc,
                   added, started, finished, late>>

\* Mutant: the queue receives the moved-from (empty) function.
PushEmpty(c, t) ==
    /\ c \notin notifying
    /\ c \in Workers => wpc[c] = "run"
    /\ t \notin Elems(added)
    /\ queue' = Append(queue, NoTask)
    /\ added' = Append(added, t)
    /\ notifying' = notifying \cup {c}
    /\ UNCHANGED <<active, stopped, wpc, task, opc, started, finished, late>>

\* AddTask, the part under m_tasksLock.  The caller is another thread or a
\* worker whose task submits more work.
Push(c, t) ==
    /\ c \notin notifying
    /\ c \in Workers => wpc[c] = "run"
    /\ t \notin Elems(added)
    /\ queue' = Append(queue, t)
    /\ added' = Append(added, t)
    /\ notifying' = notifying \cup {c}
    /\ UNCHANGED <<active, stopped, wpc, task, opc, started, finished, late>>

\* notify_all of m_tasksCondition: every waiter returns from wait, and the
\* "continue" after it takes the worker back to the test of m_stopped.
Woken == [w \in Workers |-> IF wpc[w] = "wait" THEN "check" ELSE wpc[w]]

\* Mutant: AddTask forgets to notify.
NotifyNobody(c) ==
    /\ c \in notifying
    /\ notifying' = notifying \ {c}
    /\ UNCHANGED <<queue, active, stopped, wpc, task, opc,
                   added, started, finished, late>>

\* AddTask, after the unlock.
Notify(c) ==
    /\ c \in notifying
    /\ notifying' = notifying \ {c}
    /\ wpc' = Woken
    /\ UNCHANGED <<queue, active, stopped, task, opc,
                   added, started, finished, late>>

\* NotifyStop: the store, which does not take m_tasksLock.  The destructor
\* runs it again after an explicit Stop.
StopStore ==
    /\ opc \in {"open", "joined"}
    /\ stopped' = TRUE
    /\ opc' = "notify"
    /\ UNCHANGED <<queue, active, wpc, task, notifying,
                   added, started, finished, late>>

StopNotify ==
    /\ opc = "notify"
    /\ opc' = "join"
    /\ wpc' = Woken
    /\ UNCHANGED <<queue, active, stopped, task, notifying,
                   added, started, finished, late>>

\* Mutant: Stop does not join.
JoinNoWait ==
    /\ opc = "join"
    /\ opc' = "joined"
    /\ UNCHANGED <<queue, active, stopped, wpc, task, notifying,
                   added, started, finished, late>>

\* m_threads is joined one by one; Stop goes on when all have ended.
JoinAll ==
    /\ opc = "join"
    /\ \A w \in Workers : wpc[w] \in {"unborn", "done"}
    /\ opc' = "joined"
    /\ UNCHANGED <<queue, active, stopped, wpc, task, notifying,
                   added, started, finished, late>>

-----------------------------------------------------------------------------
(* MainLoop, one action per step of a worker.                               *)

\* Mutant: the loop does not test m_stopped.
CheckNoStop(w) ==
    /\ wpc[w] = "check"
    /\ wpc' = [wpc EXCEPT ![w] = "lock"]
    /\ UNCHANGED <<queue, active, stopped, task, notifying, opc,
                   added, started, finished, late>>

\* for (; !m_stopped;)
Check(w) ==
    /\ wpc[w] = "check"
    /\ wpc' = [wpc EXCEPT ![w] = IF stopped THEN "done" ELSE "lock"]
    /\ UNCHANGED <<queue, active, stopped, task, notifying, opc,
                   added, started, finished, late>>

\* Mutant: the queue was found empty before the lock was taken.
WaitStale(w) ==
    /\ wpc[w] = "lock"
    /\ wpc' = [wpc EXCEPT ![w] = "wait"]
    /\ UNCHANGED <<queue, active, stopped, task, notifying, opc,
                   added, started, finished, late>>

\* The block under m_tasksLock when the queue is empty: wait releases the
\* lock and blocks in one step.
Wait(w) ==
    /\ wpc[w] = "lock"
    /\ queue = << >>
    /\ wpc' = [wpc EXCEPT ![w] = "wait"]
    /\ UNCHANGED <<queue, active, stopped, task, notifying, opc,
                   added, started, finished, late>>

\* Mutant: the newest task is taken.
TakeNewest(w) ==
    /\ wpc[w] = "lock"
    /\ queue # << >>
    /\ task' = [task EXCEPT ![w] = queue[Len(queue)]]
    /\ queue' = SubSeq(queue, 1, Len(queue) - 1)
    /\ active' = active + 1
    /\ wpc' = [wpc EXCEPT ![w] = "run"]
    /\ started' = Append(started, queue[Len(queue)])
    /\ UNCHANGED <<stopped, notifying, opc, added, finished, late>>

\* Mutant: the task leaves the queue and is not counted as active.
TakeUncounted(w) ==
    /\ wpc[w] = "lock"
    /\ queue # << >>
    /\ task' = [task EXCEPT ![w] = Head(queue)]
    /\ queue' = Tail(queue)
    /\ wpc' = [wpc EXCEPT ![w] = "run"]
    /\ started' = Append(started, Head(queue))
    /\ UNCHANGED <<active, stopped, notifying, opc, added, finished, late>>

\* The block under m_tasksLock when there is a task.
Take(w) ==
    /\ wpc[w] = "lock"
    /\ queue # << >>
    /\ task' = [task EXCEPT ![w] = Head(queue)]
    /\ queue' = Tail(queue)
    /\ active' = active + 1
    /\ wpc' = [wpc EXCEPT ![w] = "run"]
    /\ started' = Append(started, Head(queue))
    /\ late' = [late EXCEPT ![w] = IF stopped THEN @ + 1 ELSE @]
    /\ UNCHANGED <<stopped, notifying, opc, added, finished>>

\* A condition variable may wake without a notification.
SpuriousWake(w) ==
    /\ wpc[w] = "wait"
    /\ wpc' = [wpc EXCEPT ![w] = "check"]
    /\ UNCHANGED <<queue, active, stopped, task, notifying, opc,
                   added, started, finished, late>>

\* task() ends, or throws and the exception is logged.
Return(w) ==
    /\ wpc[w] = "run"
    /\ w \notin notifying
    /\ wpc' = [wpc EXCEPT ![w] = "dec"]
    /\ finished' = finished \cup {task[w]}
    /\ UNCHANGED <<queue, active, stopped, task, notifying, opc,
                   added, started, late>>

\* --m_activeTasksCount, outside the lock.
Dec(w) ==
    /\ wpc[w] = "dec"
    /\ wpc' = [wpc EXCEPT ![w] = "drop"]
    /\ active' = active - 1
    /\ UNCHANGED <<queue, stopped, task, notifying, opc,
                   added, started, finished, late>>

\* The local std::function, with all it captured, dies after the decrement.
Drop(w) ==
    /\ wpc[w] = "drop"
    /\ wpc' = [wpc EXCEPT ![w] = "check"]
    /\ task' = [task EXCEPT ![w] = NoTask]
    /\ UNCHANGED <<queue, active, stopped, notifying, opc,
                   added, started, finished, late>>

\* The steps a scheduled worker takes by itself.
Step(w) ==
    \/ Check(w)
    \/ Wait(w)
    \/ Take(w)
    \/ Return(w)
    \/ Dec(w)
    \/ Drop(w)

Next ==
    \/ \E w \in Workers : AddThread(w) \/ Step(w) \/ SpuriousWake(w)
    \/ \E c \in Workers \cup Callers : Notify(c)
    \/ \E c \in Workers \cup Callers, t \in Tasks : Push(c, t)
    \/ StopStore
    \/ StopNotify
    \/ JoinAll

Spec == Init /\ [][Next]_vars

(* Threads are scheduled, tasks end, and whoever is inside AddTask or Stop  *)
(* goes on; nobody has to submit a task, call Stop or wake spuriously.      *)
FairSpec ==
    /\ Spec
    /\ \A w \in Workers : WF_vars(AddThread(w)) /\ WF_vars(Step(w))
    /\ \A c \in Workers \cup Callers : WF_vars(Notify(c))
    /\ WF_vars(StopNotify)
    /\ WF_vars(JoinAll)

-----------------------------------------------------------------------------
(* Properties.                                                              *)

\* AddTask / MainLoop: tasks are taken in the order they were submitted and
\* none is lost or taken twice, whatever the number of workers.
FifoNoLoss == added = started \o queue

\* GetTasksCount (the "busy" test of the analyzer and of the command
\* processor): when it returns 0 every submitted task has ended.  The counter
\* is raised under the lock that removes the task from the queue and lowered
\* only after the task has ended.
TasksCount == Len(queue) + active
IdleMeansDone == TasksCount = 0 => Elems(added) \subseteq finished

\* AddTask notifies after it has released m_tasksLock.  Even so a worker is
\* never left waiting beside a queued task, unless the thread that queued it
\* is still on its way to notify_all.
NoLostWakeup ==
    (\E w \in Workers : wpc[w] = "wait") /\ queue # << >> => notifying # {}

\* Stop: a worker that had passed the test of m_stopped may take one more task
\* after the flag is set, and never a second one.
LateAtMostOne == \A w \in Workers : late[w] <= 1

\* Stop has returned: no body of a task is running, and none can start later.
JoinedIsQuiet ==
    [][opc = "joined" => started' = started /\ finished' = finished]_vars

\* A submitted task is eventually run, unless the pool is stopped first.
TaskCompletes ==
    \A t \in Tasks : t \in Elems(added) ~> t \in finished \/ stopped

\* Stop returns.  (The code does not guarantee it: see run pool_stop.)
StopReturns == opc = "notify" ~> opc = "joined"

\* CThreadPool implements TaskQueue.
Running == {task[w] : w \in {v \in Workers : wpc[v] = "run"}}
Queue == INSTANCE TaskQueue WITH
    Width <- Cardinality(Workers),
    pending <- queue,
    running <- Running,
    closed <- stopped
ImplementsQueue == Queue!FairSpec
=============================================================================
