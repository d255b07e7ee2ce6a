---------------------------- MODULE WindowThread ----------------------------
(***************************************************************************)
(* How background work talks to the user interface: oui::CWindowThread and *)
(* oui::Operation (orthia_ui/oui_window_thread.h, .cpp), the UI loop       *)
(* (oui_app.cpp), the command window and the command processor's replies.  *)
(*                                                                         *)
(* An operation o is run by a thread of a pool.  A command sends lines     *)
(* (Reply), waits for the UI every few lines (Sync) and ends with a final  *)
(* reply that is sent even when it was cancelled (ReplyAnyway).  The       *)
(* operations in Early are the opens started by CMainWindow::OnAfterInit,  *)
(* before the UI loop installs its wakeup handler; each sends one reply.   *)
(* The text of a line is left out: a message is its sender and its kind.   *)
(***************************************************************************)
EXTENDS Naturals, Sequences

CONSTANTS
    Ops,            \* the operations
    Sessions,       \* the sets of operations a session may have
    Early,          \* those started before the UI loop
    NoOp,
    MaxLines,       \* g_maxLinesWithoutSync
    LineBound,      \* bound: how many lines a command prints
    UserEvents,     \* what the user may do: "enter", "cancel", "exit"
    Readers         \* the readers: TRUE if Read returns after 100 ms (POSIX)

ASSUME WindowAssumption ==
    /\ Early \subseteq Ops /\ Sessions \subseteq SUBSET Ops
    /\ NoOp \notin Ops
    /\ MaxLines \in Nat
    /\ LineBound \in Nat
    /\ UserEvents \subseteq {"enter", "cancel", "exit"}
    /\ Readers \subseteq BOOLEAN

VARIABLES
    tasks,      \* CWindowThread::m_tasks
    buffer,     \* m_uiBuffer: what the current drain has still to run
    handler,    \* m_addTaskHandler is set
    inHandler,  \* the thread inside the handler, which holds m_handlerLock
    signal,     \* CConsoleInputReader has been interrupted and has not read it
    upc,        \* where the UI thread is
    input,      \* the user's event the last Read returned
    current,    \* CCommandWindow::m_currentOperation
    ppc,        \* where the thread of each operation is
    sending,    \* the kind of message that thread is adding
    lines,      \* CommandArguments::linesWithoutSync
    total,      \* lines printed so far, at most LineBound
    cancelled,  \* BaseOperation::m_cancelled
    ready,      \* readyEvent of the Sync call in progress
    readTimeout,  \* the reader of this build, one of Readers
    posted,     \* history: the replies added, in order
    shown       \* history: the replies handled by the UI, in order

vars == <<tasks, buffer, handler, inHandler, signal, upc, input, current, ppc,
          sending, lines, total, cancelled, ready, readTimeout, posted, shown>>
uiVars == <<upc, input, current>>
opVars == <<ppc, sending, lines, total, cancelled, ready>>

Kinds == {"line", "sync", "final"}
Msg == [op : Ops, kind : Kinds]
OpStates == {"none", "new", "reply", "push", "wake", "syncTest", "syncWait", "done"}

TypeOK ==
    /\ tasks \in Seq(Msg) /\ buffer \in Seq(Msg)
    /\ posted \in Seq(Msg) /\ shown \in Seq(Msg)
    /\ handler \in BOOLEAN /\ signal \in BOOLEAN /\ readTimeout \in Readers
    /\ inHandler \subseteq Ops
    /\ upc \in {"init", "test", "read", "drain", "run", "cleanup", "closed"}
    /\ input \in UserEvents \cup {"none"}
    /\ current \in Ops \cup {NoOp}
    /\ ppc \in [Ops -> OpStates]
    /\ sending \in [Ops -> Kinds]
    /\ lines \in [Ops -> Nat] /\ total \in [Ops -> Nat]
    /\ cancelled \in [Ops -> BOOLEAN] /\ ready \in [Ops -> BOOLEAN]

IsReply(m) == m.kind # "sync"
Replies == {m \in Msg : IsReply(m)}

\* What is kept of the first i tasks of q when only those in S stay.
Kept(q, S) ==
    LET kept[i \in 0 .. Len(q)] ==
          IF i = 0 THEN << >>
          ELSE IF q[i] \in S THEN Append(kept[i - 1], q[i]) ELSE kept[i - 1]
    IN  kept

\* std::remove: the tasks of q that are in S, in their order.
OnlyIn(q, S) == Kept(q, S)[Len(q)]

Init ==
    /\ tasks = << >> /\ buffer = << >>
    /\ handler = FALSE /\ inHandler = {}
    /\ signal = FALSE
    /\ upc = "init" /\ input = "none" /\ current = NoOp
    /\ \E session \in Sessions : ppc = [o \in Ops |-> IF o \in session THEN "new" ELSE "none"]
    /\ sending = [o \in Ops |-> "final"]
    /\ lines = [o \in Ops |-> 0] /\ total = [o \in Ops |-> 0]
    /\ cancelled = [o \in Ops |-> FALSE] /\ ready = [o \in Ops |-> FALSE]
    /\ readTimeout \in Readers
    /\ posted = << >> /\ shown = << >>

-----------------------------------------------------------------------------
(* The thread of an operation.                                              *)

\* Operation::Reply, called by ReplyLine: a cancelled operation throws, which
\* ends the command; ReportStop then sends the final reply.
ReplyTest(o) ==
    /\ ppc[o] = "reply"
    /\ ppc' = [ppc EXCEPT ![o] = "push"]
    /\ sending' = [sending EXCEPT ![o] = IF cancelled[o] THEN "final" ELSE "line"]
    /\ UNCHANGED <<tasks, buffer, handler, inHandler, signal, uiVars, lines,
                   total, cancelled, ready, posted, shown>>

\* Operation::Sync up to AddTask; its readyEvent is a new local variable.
SyncTest(o) ==
    /\ ppc[o] = "syncTest"
    /\ ppc' = [ppc EXCEPT ![o] = "push"]
    /\ sending' = [sending EXCEPT ![o] = IF cancelled[o] THEN "final" ELSE "sync"]
    /\ ready' = [ready EXCEPT ![o] = FALSE]
    /\ UNCHANGED <<tasks, buffer, handler, inHandler, signal, uiVars, lines,
                   total, cancelled, posted, shown>>

\* Mutant: the operation has been moved from when its reply is built.
PushMoved(o) ==
    /\ ppc[o] = "push"
    /\ tasks' = Append(tasks, [op |-> NoOp, kind |-> sending[o]])
    /\ ppc' = [ppc EXCEPT ![o] = "wake"]
    /\ UNCHANGED <<buffer, handler, inHandler, signal, uiVars, sending, lines,
                   total, cancelled, ready, posted, shown>>

\* CWindowThread::AddTask under m_taskLock.
Push(o) ==
    /\ ppc[o] = "push"
    /\ LET m == [op |-> o, kind |-> sending[o]] IN
         /\ tasks' = Append(tasks, m)
         /\ posted' = IF IsReply(m) THEN Append(posted, m) ELSE posted
    /\ ppc' = [ppc EXCEPT ![o] = "wake"]
    /\ UNCHANGED <<buffer, handler, inHandler, signal, uiVars, sending, lines,
                   total, cancelled, ready, shown>>

\* Mutant: ReplyLine never syncs.
AfterNoSync(o) ==
    \/ /\ sending[o] = "final"
       /\ ppc' = [ppc EXCEPT ![o] = "done"]
       /\ UNCHANGED <<sending, lines, total>>
    \/ /\ sending[o] = "line"
       /\ lines' = lines
       /\ total' = [total EXCEPT ![o] = @ + 1]
       /\ \/ /\ total[o] + 1 < LineBound
             /\ ppc' = [ppc EXCEPT ![o] = "reply"]
             /\ UNCHANGED sending
          \/ /\ ppc' = [ppc EXCEPT ![o] = "push"]
             /\ sending' = [sending EXCEPT ![o] = "final"]

\* What the thread does when AddTask has returned.  The end of ReplyLine
\* counts the line and goes on with Sync, with another line or with the end
\* of the command.
After(o) ==
    \/ /\ sending[o] = "final"
       /\ ppc' = [ppc EXCEPT ![o] = "done"]
       /\ UNCHANGED <<sending, lines, total>>
    \/ /\ sending[o] = "sync"
       /\ ppc' = [ppc EXCEPT ![o] = "syncWait"]
       /\ UNCHANGED <<sending, lines, total>>
    \/ /\ sending[o] = "line"
       /\ lines' = [lines EXCEPT ![o] = @ + 1]
       /\ total' = [total EXCEPT ![o] = @ + 1]
       /\ IF lines[o] + 1 > MaxLines
          THEN ppc' = [ppc EXCEPT ![o] = "syncTest"] /\ UNCHANGED sending
          ELSE \/ /\ total[o] + 1 < LineBound
                  /\ ppc' = [ppc EXCEPT ![o] = "reply"]
                  /\ UNCHANGED sending
               \/ /\ ppc' = [ppc EXCEPT ![o] = "push"]
                  /\ sending' = [sending EXCEPT ![o] = "final"]

\* WakeUpUI takes m_handlerLock and finds no handler.
WakeNobody(o) ==
    /\ ppc[o] = "wake"
    /\ inHandler = {}
    /\ ~handler
    /\ After(o)
    /\ UNCHANGED <<tasks, buffer, handler, inHandler, signal, uiVars,
                   cancelled, ready, posted, shown>>

\* WakeUpUI takes m_handlerLock and enters the handler.
WakeEnter(o) ==
    /\ ppc[o] = "wake"
    /\ inHandler = {}
    /\ handler
    /\ inHandler' = {o}
    /\ UNCHANGED <<tasks, buffer, handler, signal, uiVars, opVars, posted, shown>>

\* The handler, CConsoleInputReader::Interrupt, and the unlock.
WakeLeave(o) ==
    /\ o \in inHandler
    /\ inHandler' = {}
    /\ signal' = TRUE
    /\ After(o)
    /\ UNCHANGED <<tasks, buffer, handler, uiVars, cancelled, ready, posted, shown>>

\* Mutant: Sync gives up when it has removed its task.
SyncTimeoutReturns(o) ==
    /\ ppc[o] = "syncWait"
    /\ ~ready[o] /\ cancelled[o]
    /\ tasks' = OnlyIn(tasks, Msg \ {[op |-> o, kind |-> "sync"]})
    /\ ppc' = [ppc EXCEPT ![o] = "push"]
    /\ sending' = [sending EXCEPT ![o] = "final"]
    /\ UNCHANGED <<buffer, handler, inHandler, signal, uiVars, lines, total,
                   cancelled, ready, posted, shown>>

\* Sync: 500 ms have passed without the event.  A cancelled operation removes
\* its task and goes on waiting.
SyncTimeout(o) ==
    /\ ppc[o] = "syncWait"
    /\ ~ready[o] /\ cancelled[o]
    /\ tasks' = OnlyIn(tasks, Msg \ {[op |-> o, kind |-> "sync"]})
    /\ UNCHANGED <<buffer, handler, inHandler, signal, uiVars, opVars, posted, shown>>

\* Sync returns true and ReplyLine returns: another line or the end.
SyncReturn(o) ==
    /\ ppc[o] = "syncWait"
    /\ ready[o]
    /\ lines' = [lines EXCEPT ![o] = 0]
    /\ \/ /\ total[o] < LineBound
          /\ ppc' = [ppc EXCEPT ![o] = "reply"]
          /\ UNCHANGED sending
       \/ /\ ppc' = [ppc EXCEPT ![o] = "push"]
          /\ sending' = [sending EXCEPT ![o] = "final"]
    /\ UNCHANGED <<tasks, buffer, handler, inHandler, signal, uiVars, total,
                   cancelled, ready, posted, shown>>

OpStep(o) ==
    /\ UNCHANGED readTimeout
    /\ \/ ReplyTest(o)
       \/ SyncTest(o)
       \/ Push(o)
       \/ WakeNobody(o)
       \/ WakeEnter(o)
       \/ WakeLeave(o)
       \/ SyncTimeout(o)
       \/ SyncReturn(o)

-----------------------------------------------------------------------------
(* The UI thread.                                                           *)

\* CConsoleApp::Loop: Init of the root window starts an initial open.
StartEarly(o) ==
    /\ upc = "init"
    /\ o \in Early
    /\ ppc[o] = "new"
    /\ ppc' = [ppc EXCEPT ![o] = "push"]
    /\ UNCHANGED <<tasks, buffer, handler, inHandler, signal, uiVars, sending,
                   lines, total, cancelled, ready, readTimeout, posted, shown>>

\* DoMainLoop installs the handler, under m_handlerLock.
SetHandler ==
    /\ upc = "init"
    /\ inHandler = {}
    /\ handler' = TRUE
    /\ upc' = "test"
    /\ UNCHANGED <<tasks, buffer, inHandler, signal, input, current, opVars,
                   posted, shown>>

\* The loop's condition, and drawing.  The exit event is remembered in input
\* (CWindowsPool::m_exitRequested).
LoopTest ==
    /\ upc = "test"
    /\ upc' = IF input = "exit" THEN "cleanup" ELSE "read"
    /\ UNCHANGED <<tasks, buffer, handler, inHandler, signal, input, current,
                   opVars, posted, shown>>

\* CConsoleInputReader::Read returns because it was interrupted (or, on POSIX,
\* because its 100 ms have passed).
ReadNothing ==
    /\ upc = "read"
    /\ signal \/ readTimeout
    /\ signal' = FALSE
    /\ input' = "none"
    /\ upc' = "drain"
    /\ UNCHANGED <<tasks, buffer, handler, inHandler, current, opVars, posted, shown>>

\* Read returns an event of the user; a pending interruption stays pending.
ReadInput(e) ==
    /\ upc = "read"
    /\ input' = e
    /\ upc' = "drain"
    /\ UNCHANGED <<tasks, buffer, handler, inHandler, signal, current, opVars,
                   readTimeout, posted, shown>>

\* Mutant: the copy and the clear are not under one lock: what was added in
\* between is cleared.  (The last task stands for it.)
SwapUnlocked ==
    /\ upc = "drain"
    /\ buffer' = IF Len(tasks) > 1 THEN SubSeq(tasks, 1, Len(tasks) - 1) ELSE tasks
    /\ tasks' = << >>
    /\ upc' = "run"
    /\ UNCHANGED <<handler, inHandler, signal, input, current, opVars, posted, shown>>

\* GUI_ProcessTasks, the part under m_taskLock.
Swap ==
    /\ upc = "drain"
    /\ buffer' = tasks
    /\ tasks' = << >>
    /\ upc' = "run"
    /\ UNCHANGED <<handler, inHandler, signal, input, current, opVars, posted, shown>>

\* Mutant: the final reply does not free the command window.
RunTaskKeepsWindow ==
    /\ upc = "run"
    /\ buffer # << >>
    /\ LET m == Head(buffer) IN
         /\ shown' = IF IsReply(m) THEN Append(shown, m) ELSE shown
         /\ ready' = IF m.kind = "sync" THEN [ready EXCEPT ![m.op] = TRUE] ELSE ready
    /\ buffer' = Tail(buffer)
    /\ UNCHANGED <<tasks, handler, inHandler, signal, upc, input, current, ppc,
                   sending, lines, total, cancelled, posted>>

\* GUI_ProcessTasks runs one task: a line is shown, the final reply frees the
\* command window, a Sync task sets the waiting thread's event.
RunTask ==
    /\ upc = "run"
    /\ buffer # << >>
    /\ LET m == Head(buffer) IN
         /\ shown' = IF IsReply(m) THEN Append(shown, m) ELSE shown
         /\ current' = IF m.kind = "final" /\ m.op \notin Early THEN NoOp ELSE current
         /\ ready' = IF m.kind = "sync" THEN [ready EXCEPT ![m.op] = TRUE] ELSE ready
    /\ buffer' = Tail(buffer)
    /\ UNCHANGED <<tasks, handler, inHandler, signal, upc, input, ppc, sending,
                   lines, total, cancelled, posted>>

\* The drain is over and the event is handled.  Enter starts a command when
\* none is running; Ctrl+C cancels the one that is.
Enter(o) ==
    /\ upc = "run" /\ buffer = << >>
    /\ input = "enter"
    /\ current = NoOp
    /\ o \notin Early
    /\ ppc[o] = "new"
    /\ current' = o
    /\ ppc' = [ppc EXCEPT ![o] = "reply"]
    /\ upc' = "test"
    /\ UNCHANGED <<tasks, buffer, handler, inHandler, signal, input, sending,
                   lines, total, cancelled, ready, posted, shown>>

CtrlC ==
    /\ upc = "run" /\ buffer = << >>
    /\ input = "cancel"
    /\ current # NoOp
    /\ cancelled' = [cancelled EXCEPT ![current] = TRUE]
    /\ upc' = "test"
    /\ UNCHANGED <<tasks, buffer, handler, inHandler, signal, input, current, ppc,
                   sending, lines, total, ready, posted, shown>>

\* Mutant: the wakeup is reset after the drain.
NoEventResets ==
    /\ upc = "run" /\ buffer = << >>
    /\ input = "enter" => current # NoOp \/ \A o \in Ops \ Early : ppc[o] # "new"
    /\ input = "cancel" => current = NoOp
    /\ upc' = "test"
    /\ signal' = FALSE
    /\ UNCHANGED <<tasks, buffer, handler, inHandler, input, current, opVars,
                   posted, shown>>

\* An event that changes nothing here, and the exit request.
NoEvent ==
    /\ upc = "run" /\ buffer = << >>
    /\ input = "enter" => current # NoOp \/ \A o \in Ops \ Early : ppc[o] # "new"
    /\ input = "cancel" => current = NoOp
    /\ upc' = "test"
    /\ UNCHANGED <<tasks, buffer, handler, inHandler, signal, input, current,
                   opVars, posted, shown>>

\* wakeupHandlerGuard: the handler is removed under m_handlerLock, then the
\* reader it uses is destroyed.
ClearHandler ==
    /\ upc = "cleanup"
    /\ inHandler = {}
    /\ handler' = FALSE
    /\ upc' = "closed"
    /\ UNCHANGED <<tasks, buffer, inHandler, signal, input, current, opVars,
                   posted, shown>>

UIStep ==
    /\ UNCHANGED readTimeout
    /\ \/ SetHandler
       \/ LoopTest
       \/ ReadNothing
       \/ Swap
       \/ RunTask
       \/ \E o \in Ops : Enter(o)
       \/ CtrlC
       \/ NoEvent
       \/ ClearHandler

Next ==
    \/ \E o \in Ops : OpStep(o) \/ StartEarly(o)
    \/ UIStep
    \/ \E e \in UserEvents : ReadInput(e)

Spec == Init /\ [][Next]_vars

(* The UI thread and the threads of the operations are scheduled; the user  *)
(* need not do anything.                                                    *)
FairSpec ==
    /\ Spec
    /\ WF_vars(UIStep)
    /\ \A o \in Ops : WF_vars(OpStep(o)) /\ WF_vars(StartEarly(o))

-----------------------------------------------------------------------------
(* Properties.                                                              *)

\* CWindowThread: replies are handled on the UI thread in the order in which
\* they were added, none lost and none twice, and removing a Sync task takes
\* no reply with it.
ReplyOrder == posted = shown \o OnlyIn(buffer \o tasks, Replies)

\* Operation::Sync: the task it adds refers to a local event, so while the task
\* can still be run the call must not have returned.
SyncFrameAlive ==
    \A i \in 1 .. Len(buffer \o tasks) :
        LET m == (buffer \o tasks)[i] IN
          m.kind = "sync" => /\ sending[m.op] = "sync"
                             /\ ppc[m.op] \in {"wake", "syncWait"}
                             /\ ~ready[m.op]

\* WakeUpUI / SetWakeupHandler: a thread is inside the handler only while the
\* reader the handler refers to is alive.
HandlerAlive == inHandler # {} => handler /\ upc # "closed"

\* What a queued task or the wakeup handler refers to on the stack of another
\* thread is there for as long as either can run.
FramesAlive == SyncFrameAlive /\ HandlerAlive

\* The UI thread has handled the final reply.
Finished(o) == \E i \in 1 .. Len(shown) : shown[i] = [op |-> o, kind |-> "final"]

\* ReplyLine: Sync keeps the UI's backlog of a command bounded, however much
\* the command prints.
Backlog(o) == Len(OnlyIn(buffer \o tasks, {m \in Replies : m.op = o}))
BacklogBounded == \A o \in Ops : Backlog(o) <= MaxLines + 2

\* AddTask after the handler is installed: the UI thread does not block in Read
\* beside such a task unless the thread that added it is about to wake it.
NoLostPost ==
    /\ upc = "read" /\ ~signal
    /\ \E i \in 1 .. Len(tasks) : tasks[i].op \notin Early
    => \E o \in Ops : ppc[o] = "wake"

\* A command ends and the window is free again, unless the command is
\* cancelled or the program exits first.
CommandFinishes ==
    \A o \in Ops \ Early :
        current = o ~> (current # o \/ cancelled[o] \/ upc \in {"cleanup", "closed"})

\* What an initial open replies is handled, also when it was added before the
\* handler was there: the reader that returns after 100 ms goes on to a drain.
EarlyShown ==
    \A o \in Early :
        readTimeout /\ ppc[o] = "done" ~> (Finished(o) \/ upc \in {"cleanup", "closed"})

\* Whoever replies is served: commands and initial opens.
RepliesServed == CommandFinishes /\ EarlyShown

\* A cancelled command ends.  (The code does not guarantee it: see run
\* ui_cancel.)
CancelStops == \A o \in Ops \ Early : cancelled[o] ~> ppc[o] = "done"
=============================================================================
