----------------------------- MODULE TaskQueue -----------------------------
(***************************************************************************)
(* What a pool of worker threads promises its callers: submitted tasks are *)
(* started in submission order, each once, at most Width at a time, and    *)
(* every one of them finishes as long as the pool is not closed.  A task   *)
(* that is already being started when the pool closes may still run.       *)
(* CThreadPool (module ThreadPool) is shown to implement this.             *)
(***************************************************************************)
EXTENDS Naturals, Sequences, FiniteSets

CONSTANTS
    Tasks,      \* the closures that are ever submitted
    Width       \* the number of tasks that may run at the same time

VARIABLES
    pending,    \* submitted and not started, oldest first
    running,    \* started and not finished
    finished,   \* the tasks whose body has ended
    closed      \* the owner has asked the pool to stop

vars == <<pending, running, finished, closed>>

Seen == {pending[i] : i \in 1 .. Len(pending)} \cup running \cup finished

Init ==
    /\ pending = << >>
    /\ running = {}
    /\ finished = {}
    /\ closed = FALSE

Submit(t) ==
    /\ t \notin Seen
    /\ pending' = Append(pending, t)
    /\ UNCHANGED <<running, finished, closed>>

Start ==
    /\ pending # << >>
    /\ Cardinality(running) < Width
    /\ running' = running \cup {Head(pending)}
    /\ pending' = Tail(pending)
    /\ UNCHANGED <<finished, closed>>

Finish(t) ==
    /\ t \in running
    /\ running' = running \ {t}
    /\ finished' = finished \cup {t}
    /\ UNCHANGED <<pending, closed>>

Close ==
    /\ closed' = TRUE
    /\ UNCHANGED <<pending, running, finished>>

Next ==
    \/ \E t \in Tasks : Submit(t) \/ Finish(t)
    \/ Start
    \/ Close

Spec == Init /\ [][Next]_vars

(* The pool keeps starting what is pending until it is closed.              *)
FairSpec ==
    /\ Spec
    /\ WF_vars(~closed /\ Start)
    /\ WF_vars(\E t \in Tasks : Finish(t))
=============================================================================
