--------------------------- MODULE ModuleAnalyzer ---------------------------
(***************************************************************************)
(* The background analysis of the opened items: CModuleAnalyzer            *)
(* (orthia_module_analyzer.cpp) and the part of CProgramModel that opens,  *)
(* activates and closes items and queues work for them (orthia_model.cpp). *)
(*                                                                         *)
(* Threads: the UI thread, one opening thread per item, the command thread *)
(* and the only thread of the analyzer's pool.  Every Enqueue call of      *)
(* every thread goes through the same lock sections: test IsDeletePending, *)
(* (floating tasks) enter m_floatingQueued, RegisterOp and                 *)
(* CThreadPool::AddTask; a thread keeps the calls it has still to make in  *)
(* todo.  An item is one module with its flags and a number of floating    *)
(* modules; what an analysis finds is chosen freely within Regions.        *)
(***************************************************************************)
EXTENDS Naturals, Sequences, FiniteSets, SequencesExt

CONSTANTS
    MaxItem,      \* bound: items opened in a session
    Commands,     \* bound: .analyze and .reload commands of a session
    Addrs,        \* where item objects are allocated
    Regions,      \* bound: floating modules an item can lead to
    MaxFloating,  \* c_maxFloatingModules
    TaskChoices,  \* the AutoTasks an open may be given
    UserEvents,   \* what the user does: "ask", "switch", "close", "cancel", "exit"
    MayFail       \* analysis may throw

ASSUME AnalyzerAssumption ==
    /\ MaxItem \in Nat /\ Commands \in Nat /\ Regions \in Nat /\ MaxFloating \in Nat
    /\ Addrs # {}
    /\ TaskChoices \subseteq SUBSET {"analyze", "symbols"}
    /\ UserEvents \subseteq {"ask", "switch", "close", "cancel", "exit"}
    /\ MayFail \in BOOLEAN

VARIABLES
    items,     \* CProgramModel::m_items, by uid
    lastUid,   \* m_lastUid
    active,    \* m_activeId
    pending,   \* m_pendingAutoTasks, by uid
    deleting,  \* the items with m_deletePending
    addr,      \* the address of each item object
    opener,    \* where the opening thread of an item is
    dialog,    \* the items whose auto tasks dialog is posted or shown
    ui,        \* what the UI thread is doing
    cmd,       \* the command that is running
    cmdCount,  \* commands started
    todo,      \* per thread: the Enqueue calls it has still to make
    step,      \* per thread: where it is in the first of them
    queue,     \* the tasks of m_pool
    task,      \* the task the worker runs
    wpc,       \* where the worker is in it
    left,      \* what a floating pass has still to analyze
    ops,       \* m_ops
    wsOps,     \* m_workspaceOps
    cancelled, \* the operations with BaseOperation::m_cancelled
    marked,    \* m_floatingQueued
    flags,     \* per item: analyzeDone, symbolsLoaded, analyzePrivateDone
    found,     \* per item: its floating modules
    undone,    \* per item: those that wait for their analysis
    asked,     \* history: per item, the operations a pass is owed to
    broken     \* history: the items one of whose tasks gave up

itemVars == <<items, lastUid, active, pending, deleting, addr>>
uiVars == <<opener, dialog, ui>>
cmdVars == <<cmd, cmdCount>>
callVars == <<todo, step>>
poolVars == <<queue, task, wpc, left>>
opVars == <<ops, wsOps, cancelled, marked>>
dataVars == <<flags, found, undone, asked, broken>>
vars == <<itemVars, uiVars, cmdVars, callVars, poolVars, opVars, dataVars>>

Items == 1..MaxItem
NoItem == 0
UI == <<"ui", 0>>
CMD == <<"cmd", 0>>
WORK == <<"work", 0>>
OPEN(i) == <<"open", i>>
Threads == {UI, CMD, WORK} \cup {OPEN(i) : i \in Items}
Kinds == {"analyze", "floating", "symbols", "private"}
Ops == ({"analyze", "symbols", "private"} \X Items) \cup ({"cmd"} \X (1..Commands))
Ids == Nat \ {0}
Request == [kind : Kinds, item : Items, op : Ops, ws : Items \cup {NoItem},
            force : BOOLEAN, chain : BOOLEAN, id : Ids \cup {0}]
\* chain: onComplete re-analyzes with the private symbols, and holds the item
Call(kind, item, op, ws, force, chain) ==
    [kind |-> kind, item |-> item, op |-> op, ws |-> ws, force |-> force,
     chain |-> chain, id |-> 0]
NoTask == Call("none", NoItem, <<"none", 0>>, NoItem, FALSE, FALSE)

TypeOK ==
    /\ items \subseteq Items /\ deleting \subseteq Items /\ lastUid \in 0..MaxItem
    /\ active \in Items \cup {NoItem}
    /\ pending \subseteq Items /\ dialog \subseteq Items
    /\ addr \in [Items -> Addrs]
    /\ opener \in [Items -> {"new", "ask", "calls", "reply", "askReply", "done"}]
    /\ ui \in [pc : {"idle", "mark", "cancel", "pick", "stop", "join", "closed"},
               item : Items \cup {NoItem}, next : Items \cup {NoItem}]
    /\ cmd \in [pc : {"idle", "queued", "run"}, item : Items \cup {NoItem},
                op : Ops \cup {<<"none", 0>>}]
    /\ cmdCount \in 0..Commands
    /\ todo \in [Threads -> Seq(Request)]
    /\ step \in [Threads -> {"test", "mark", "register", "add"}]
    /\ queue \in Seq(Request) /\ task \in Request \cup {NoTask}
    /\ wpc \in {"idle", "start", "work", "pass", "cleanup", "skip", "complete", "end",
               "gone", "dropped"}
    /\ left \in 0..Regions
    /\ ops \subseteq [id : Ids, op : Ops]
    /\ wsOps \in [Items \cup {NoItem} -> SUBSET Ops]
    /\ cancelled \subseteq Ops /\ marked \subseteq Addrs
    /\ flags \in [Items -> SUBSET {"analyzeDone", "symbolsLoaded", "analyzePrivateDone"}]
    /\ found \in [Items -> 0..Regions]
    /\ undone \in [Items -> 0..Regions]
    /\ asked \in [Items -> SUBSET Ops] /\ broken \subseteq Items

\* Mutant: the running task is not counted.
IsBusyQueued == queue # << >>

\* GetTasksCount() != 0: a queued or a running task.
IsBusy == queue # << >> \/ wpc # "idle"

\* The item's object exists: its map entry or a shared_ptr of some thread.
Alive(i) ==
    \/ i \in items
    \/ opener[i] \in {"ask", "calls"}
    \/ ui.item = i
    \/ cmd.item = i
    \/ wpc \in {"work", "pass", "cleanup", "skip", "complete", "end"} /\ task.item = i
    \/ \E r \in ToSet(queue) \cup {task} : r.item = i /\ r.chain
    \/ \E t \in Threads : \E r \in ToSet(todo[t]) : r.item = i

Init ==
    /\ items = {} /\ lastUid = 0 /\ active = NoItem /\ pending = {} /\ deleting = {}
    /\ addr = [i \in Items |-> CHOOSE a \in Addrs : TRUE]
    /\ opener = [i \in Items |-> "new"] /\ dialog = {}
    /\ ui = [pc |-> "idle", item |-> NoItem, next |-> NoItem]
    /\ cmd = [pc |-> "idle", item |-> NoItem, op |-> <<"none", 0>>] /\ cmdCount = 0
    /\ todo = [t \in Threads |-> << >>] /\ step = [t \in Threads |-> "test"]
    /\ queue = << >> /\ task = NoTask /\ wpc = "idle" /\ left = 0
    /\ ops = {} /\ wsOps = [w \in Items \cup {NoItem} |-> {}]
    /\ cancelled = {} /\ marked = {}
    /\ flags = [i \in Items |-> {}]
    /\ found = [i \in Items |-> 0] /\ undone = [i \in Items |-> 0]
    /\ asked = [i \in Items |-> {}] /\ broken = {}

-----------------------------------------------------------------------------
(* The Enqueue calls: EnqueueAnalyze, EnqueueAnalyzeFloating,               *)
(* EnqueueLoadSymbols and EnqueueAnalyzePrivateSymbols up to their AddTask. *)

Drop(t) ==
    /\ todo' = [todo EXCEPT ![t] = Tail(@)]
    /\ step' = [step EXCEPT ![t] = "test"]

\* A call for an item that is being closed does nothing.
EnqueueTest(t) ==
    /\ todo[t] # << >> /\ step[t] = "test"
    /\ LET r == Head(todo[t]) IN
         IF r.item \in deleting
           THEN Drop(t)
           ELSE /\ step' = [step EXCEPT ![t] = IF r.kind = "floating" THEN "mark"
                                                                     ELSE "register"]
                /\ UNCHANGED todo
    /\ UNCHANGED <<itemVars, uiVars, cmdVars, poolVars, opVars, dataVars>>

\* m_floatingQueued.insert(item.get()): one floating task per item in the queue.
EnqueueMark(t) ==
    /\ todo[t] # << >> /\ step[t] = "mark"
    /\ LET a == addr[Head(todo[t]).item] IN
         \/ /\ a \in marked
            /\ Drop(t)
            /\ UNCHANGED marked
         \/ /\ a \notin marked
            /\ marked' = marked \cup {a}
            /\ step' = [step EXCEPT ![t] = "register"]
            /\ UNCHANGED todo
    /\ UNCHANGED <<itemVars, uiVars, cmdVars, poolVars, ops, wsOps, cancelled, dataVars>>

UsedIds == {o.id : o \in ops} \cup {r.id : r \in ToSet(queue) \cup {task}}
           \cup UNION {{r.id : r \in ToSet(todo[t])} : t \in Threads}
\* Mutant: m_nextItemId++ hands out the old value.
NewIdFromZero == 0

\* ++m_nextItemId: an id no task has.
NewId == Min((1..(Cardinality(UsedIds) + 1)) \ UsedIds)

\* RegisterOp: m_ops and m_workspaceOps under m_opsLock.
RegisterOp(t) ==
    /\ todo[t] # << >> /\ step[t] = "register"
    /\ LET r == Head(todo[t]) IN
         /\ ops' = ops \cup {[id |-> NewId, op |-> r.op]}
         /\ wsOps' = [wsOps EXCEPT ![r.ws] = @ \cup {r.op}]
         /\ todo' = [todo EXCEPT ![t] = <<[r EXCEPT !.id = NewId]>> \o Tail(@)]
    /\ step' = [step EXCEPT ![t] = "add"]
    /\ UNCHANGED <<itemVars, uiVars, cmdVars, poolVars, cancelled, marked, dataVars>>

\* m_pool.AddTask.
EnqueueAdd(t) ==
    /\ todo[t] # << >> /\ step[t] = "add"
    /\ queue' = Append(queue, Head(todo[t]))
    /\ Drop(t)
    /\ UNCHANGED <<itemVars, uiVars, cmdVars, task, wpc, left, opVars, dataVars>>

-----------------------------------------------------------------------------
(* Opening an item: AddExecutable, AddProcess and AddSavedProcess end with  *)
(* RegisterItem and StartOrAskAutoTasks.                                    *)

\* EnqueueAnalysisOps: one operation for the analysis, one for the symbols.
AnalysisOps(i, tasks) ==
    (IF "analyze" \in tasks
       THEN <<Call("analyze", i, <<"analyze", i>>, i, FALSE, FALSE)>> ELSE << >>) \o
    (IF "symbols" \in tasks
       THEN <<Call("symbols", i, <<"symbols", i>>, i, FALSE, "analyze" \in tasks)>> ELSE << >>)

\* RegisterItem(info, false), then ResolveAutoTasks: ask, or known tasks.
\* The object is allocated where no other item is.
RegisterItem ==
    LET i == lastUid + 1 IN
    /\ i \in Items /\ ui.pc \notin {"stop", "join", "closed"}
    /\ lastUid' = i
    /\ items' = items \cup {i}
    /\ \E a \in Addrs :
         /\ \A j \in Items : j < i /\ Alive(j) => addr[j] # a
         /\ addr' = [addr EXCEPT ![i] = a]
    /\ \/ /\ "ask" \in UserEvents
          /\ opener' = [opener EXCEPT ![i] = "ask"]
          /\ UNCHANGED todo
       \/ \E tasks \in TaskChoices :
            /\ opener' = [opener EXCEPT ![i] = "calls"]
            /\ todo' = [todo EXCEPT ![OPEN(i)] = AnalysisOps(i, tasks)]
    /\ UNCHANGED <<active, pending, deleting, dialog, ui, cmdVars, step, poolVars, opVars, dataVars>>

\* StartOrAskAutoTasks: the choice is left to the user.
Ask(i) ==
    /\ opener[i] = "ask"
    /\ pending' = pending \cup {i}
    /\ opener' = [opener EXCEPT ![i] = "askReply"]
    /\ UNCHANGED <<items, lastUid, active, deleting, addr, dialog, ui, cmdVars, callVars,
                   poolVars, opVars, dataVars>>

\* The opening thread has made its calls and sends its reply.
Opened(i) ==
    /\ opener[i] = "calls" /\ todo[OPEN(i)] = << >>
    /\ opener' = [opener EXCEPT ![i] = "reply"]
    /\ UNCHANGED <<itemVars, dialog, ui, cmdVars, callVars, poolVars, opVars, dataVars>>

-----------------------------------------------------------------------------
(* The UI thread.                                                           *)

UIReady == ui.pc = "idle" /\ todo[UI] = << >>

\* OnFileOpen: the item, if it is still there, becomes the active one, and
\* the dialog is posted when the model left the choice to the user.
OnFileOpen(i) ==
    /\ UIReady /\ opener[i] \in {"reply", "askReply"}
    /\ opener' = [opener EXCEPT ![i] = "done"]
    /\ active' = IF i \in items THEN i ELSE active
    /\ dialog' = IF opener[i] = "askReply" THEN dialog \cup {i} ELSE dialog
    /\ UNCHANGED <<items, lastUid, pending, deleting, addr, ui, cmdVars, callVars, poolVars,
                   opVars, dataVars>>

\* ShowAutoTasksDialog and, when the user agrees, StartAutoTasks.
StartAutoTasks(i) ==
    /\ UIReady /\ i \in dialog
    /\ dialog' = dialog \ {i}
    /\ \/ /\ i \notin items
          /\ UNCHANGED <<pending, todo>>
       \/ /\ i \in items \cap pending
          /\ pending' = pending \ {i}
          /\ \E tasks \in TaskChoices :
               todo' = [todo EXCEPT ![UI] = AnalysisOps(i, tasks)]
    /\ UNCHANGED <<items, lastUid, active, deleting, addr, opener, ui, cmdVars, step, poolVars,
                   opVars, dataVars>>

\* SetActiveItem from the list of the workspace window.
SetActiveItem(i) ==
    /\ "switch" \in UserEvents /\ UIReady
    /\ i \in items /\ active # i
    /\ active' = i
    /\ UNCHANGED <<items, lastUid, pending, deleting, addr, uiVars, cmdVars, callVars, poolVars,
                   opVars, dataVars>>

\* RemoveItem of the active item.  Stage 1: delete pending.
RemoveMark ==
    /\ "close" \in UserEvents /\ UIReady /\ active # NoItem
    /\ ui' = [pc |-> "mark", item |-> active, next |-> NoItem]
    /\ deleting' = deleting \cup {active}
    /\ pending' = pending \ {active}
    /\ UNCHANGED <<items, lastUid, active, addr, opener, dialog, cmdVars, callVars, poolVars,
                   opVars, dataVars>>

\* Stage 2: CModuleAnalyzer::Cancel.
Cancel ==
    /\ ui.pc = "mark"
    /\ cancelled' = cancelled \cup wsOps[ui.item]
    /\ wsOps' = [wsOps EXCEPT ![ui.item] = {}]
    /\ ui' = [ui EXCEPT !.pc = "cancel"]
    /\ UNCHANGED <<itemVars, opener, dialog, cmdVars, callVars, poolVars, ops, marked, dataVars>>

\* Mutant: lower_bound instead of upper_bound finds the item itself.
NextActiveSame(uid) == uid

\* The next item by uid, else the previous one, else none.
NextActive(uid) ==
    LET above == {i \in items : i > uid}
        below == {i \in items : i < uid}
    IN  IF above # {} THEN Min(above) ELSE IF below # {} THEN Max(below) ELSE NoItem

RemovePick ==
    /\ ui.pc = "cancel"
    /\ ui' = [ui EXCEPT !.pc = "pick", !.next = NextActive(ui.item)]
    /\ UNCHANGED <<itemVars, opener, dialog, cmdVars, callVars, poolVars, opVars, dataVars>>

RemoveErase ==
    /\ ui.pc = "pick"
    /\ items' = items \ {ui.item}
    /\ active' = ui.next
    /\ ui' = [pc |-> "idle", item |-> NoItem, next |-> NoItem]
    /\ UNCHANGED <<lastUid, pending, deleting, addr, opener, dialog, cmdVars, callVars, poolVars,
                   opVars, dataVars>>

\* CProgramModel::Stop: the opening threads are joined, then every operation
\* of the analyzer is cancelled and its pool stopped and joined.
StopCancelAll ==
    /\ "exit" \in UserEvents /\ UIReady
    /\ \A i \in Items : opener[i] \notin {"ask", "calls"}
    /\ cancelled' = cancelled \cup {o.op : o \in ops}
    /\ ui' = [ui EXCEPT !.pc = "stop"]
    /\ UNCHANGED <<itemVars, opener, dialog, cmdVars, callVars, poolVars, ops, wsOps, marked, dataVars>>

StopPool ==
    /\ \/ ui.pc = "stop" /\ ui' = [ui EXCEPT !.pc = "join"]
       \/ ui.pc = "join" /\ wpc = "idle" /\ ui' = [ui EXCEPT !.pc = "closed"]
    /\ UNCHANGED <<itemVars, opener, dialog, cmdVars, callVars, poolVars, opVars, dataVars>>

-----------------------------------------------------------------------------
(* Commands.                                                                *)

\* The command window captures the active item and a new operation.
AsyncExecute ==
    /\ UIReady /\ cmd.pc = "idle" /\ cmdCount < Commands
    /\ active \in items
    /\ cmdCount' = cmdCount + 1
    /\ cmd' = [pc |-> "queued", item |-> active, op |-> <<"cmd", cmdCount + 1>>]
    /\ UNCHANGED <<itemVars, uiVars, callVars, poolVars, opVars, dataVars>>

\* ExecuteImpl reads GetActiveItemId() for args.workspaceId on its own
\* thread; Handle_analyze and Handle_reload then make their calls.
ExecuteImpl ==
    /\ cmd.pc = "queued"
    /\ cmd' = [cmd EXCEPT !.pc = "run"]
    /\ \/ \E force \in BOOLEAN :
            todo' = [todo EXCEPT ![CMD] =
                <<Call("analyze", cmd.item, cmd.op, active, force, FALSE),
                  Call("private", cmd.item, cmd.op, active, FALSE, FALSE)>>]
       \/ todo' = [todo EXCEPT ![CMD] =
                <<Call("symbols", cmd.item, cmd.op, active, FALSE, FALSE)>>]
    /\ UNCHANGED <<itemVars, uiVars, cmdCount, step, poolVars, opVars, dataVars>>

\* Mutant: the item of the last command stays referenced.
CommandEndKeeps ==
    /\ cmd.pc = "run" /\ todo[CMD] = << >>
    /\ cmd' = [cmd EXCEPT !.pc = "idle"]
    /\ UNCHANGED <<itemVars, uiVars, cmdCount, callVars, poolVars, opVars, dataVars>>

\* ReportStop: the last reply, and the arguments with the item are destroyed.
CommandEnd ==
    /\ cmd.pc = "run" /\ todo[CMD] = << >>
    /\ cmd' = [pc |-> "idle", item |-> NoItem, op |-> <<"none", 0>>]
    /\ UNCHANGED <<itemVars, uiVars, cmdCount, callVars, poolVars, opVars, dataVars>>

\* CTRL+C in the command window.
CancelCommand ==
    /\ "cancel" \in UserEvents /\ UIReady /\ cmd.pc # "idle"
    /\ cmd.op \notin cancelled
    /\ cancelled' = cancelled \cup {cmd.op}
    /\ UNCHANGED <<itemVars, uiVars, cmdVars, callVars, poolVars, ops, wsOps, marked, dataVars>>

-----------------------------------------------------------------------------
(* The worker of m_pool{1}.                                                 *)

\* Mutant: the pool takes the newest task.
TakeNewest ==
    /\ wpc = "idle" /\ queue # << >> /\ ui.pc \notin {"join", "closed"}
    /\ task' = Last(queue) /\ queue' = Front(queue)
    /\ wpc' = "start"
    /\ UNCHANGED <<itemVars, uiVars, cmdVars, callVars, left, opVars, dataVars>>

Take ==
    /\ wpc = "idle" /\ queue # << >> /\ ui.pc \notin {"join", "closed"}
    /\ task' = Head(queue) /\ queue' = Tail(queue)
    /\ wpc' = "start"
    /\ UNCHANGED <<itemVars, uiVars, cmdVars, callVars, left, opVars, dataVars>>

\* The start of a task: a floating task may be queued again from here on;
\* then weakItem.lock(), which fails for an item that is gone and holds any
\* other until the task ends, IsCancelled, and the early returns for an item
\* without a module manager or the module (MayFail).
Start ==
    /\ wpc = "start"
    /\ marked' = IF task.kind = "floating" THEN marked \ {addr[task.item]} ELSE marked
    /\ \/ /\ Alive(task.item) /\ task.op \notin cancelled
          /\ wpc' = "work"
          /\ UNCHANGED broken
       \/ /\ ~Alive(task.item)
          /\ wpc' = "gone"
          /\ UNCHANGED broken
       \/ /\ Alive(task.item) /\ task.op \in cancelled
          /\ wpc' = "skip"
          /\ UNCHANGED broken
       \/ /\ Alive(task.item) /\ MayFail
          /\ wpc' = "skip"
          /\ broken' = broken \cup {task.item}
    /\ UNCHANGED <<itemVars, uiVars, cmdVars, callVars, queue, task, left, ops, wsOps, cancelled,
                   flags, found, undone, asked>>

\* Mutant: a pass queues no other pass.
QueuePassNever(more) == UNCHANGED todo

\* The end of EnqueueAnalyze's and EnqueueAnalyzeFloating's tasks: the next
\* pass is queued before Cleanup when floating modules wait and nobody
\* cancelled.
QueuePass(more) ==
    IF more /\ task.op \notin cancelled
      THEN todo' = [todo EXCEPT ![WORK] =
                      <<Call("floating", task.item, task.op, task.ws, FALSE, FALSE)>>]
      ELSE UNCHANGED todo

\* DiscoverFloatingCode adds the floating modules the references lead to.
Discover(n) ==
    /\ n \in 0..(Regions - found[task.item])
    /\ found' = [found EXCEPT ![task.item] = @ + n]

\* EnqueueAnalyze's task: /f clears the flag, an unanalyzed module is
\* analyzed; an exception leaves it unanalyzed.
WorkAnalyze ==
    /\ wpc = "work" /\ task.kind = "analyze"
    /\ wpc' = "cleanup"
    /\ LET i == task.item IN
         \/ \E n \in 0..Regions :
              /\ flags' = [flags EXCEPT ![i] = @ \cup {"analyzeDone"}]
              /\ Discover(n)
              /\ undone' = [undone EXCEPT ![i] = @ + n]
              /\ QueuePass(undone[i] + n > 0)
              /\ asked' = [asked EXCEPT ![i] = IF undone[i] + n > 0 THEN @ \cup {task.op} ELSE @]
         \/ /\ MayFail
            /\ flags' = [flags EXCEPT ![i] = IF task.force THEN @ \ {"analyzeDone"} ELSE @]
            /\ UNCHANGED <<found, undone, asked, todo>>
    /\ UNCHANGED <<itemVars, uiVars, cmdVars, step, queue, task, left, opVars, broken>>

\* EnqueueAnalyzeFloating's task: nothing over the limit, else the modules
\* that wait now, one by one; an exception outside their loop ends the pass.
WorkFloating ==
    /\ wpc = "work" /\ task.kind = "floating"
    /\ \/ /\ found[task.item] > MaxFloating
          /\ wpc' = "cleanup"
          /\ UNCHANGED <<left, broken>>
       \/ /\ found[task.item] <= MaxFloating
          /\ wpc' = "pass"
          /\ left' = undone[task.item]
          /\ UNCHANGED broken
       \/ /\ MayFail
          /\ wpc' = "cleanup"
          /\ broken' = broken \cup {task.item}
          /\ UNCHANGED left
    /\ UNCHANGED <<itemVars, uiVars, cmdVars, callVars, queue, task, opVars, flags, found, undone,
                   asked>>

\* Mutant: a module whose analysis throws is not marked as tried.
PassOneUntried ==
    /\ wpc = "pass" /\ left > 0 /\ task.op \notin cancelled
    /\ left' = left - 1
    /\ UNCHANGED <<itemVars, uiVars, cmdVars, callVars, queue, task, wpc, opVars, flags, found,
                   undone, asked, broken>>

\* AnalyzeFloatingNow of one module; one that throws counts as tried.
PassOne ==
    /\ wpc = "pass" /\ left > 0 /\ task.op \notin cancelled
    /\ left' = left - 1
    /\ \E n \in 0..Regions :
         /\ Discover(n)
         /\ undone' = [undone EXCEPT ![task.item] = @ - 1 + n]
    /\ UNCHANGED <<itemVars, uiVars, cmdVars, callVars, queue, task, wpc, opVars, flags, asked,
                   broken>>

PassEnd ==
    /\ wpc = "pass" /\ (left = 0 \/ task.op \in cancelled)
    /\ left' = 0
    /\ wpc' = "cleanup"
    /\ QueuePass(undone[task.item] > 0)
    /\ asked' = [asked EXCEPT ![task.item] =
                   IF task.op \in cancelled THEN @ ELSE IF undone[task.item] > 0 THEN {task.op} ELSE {}]
    /\ UNCHANGED <<itemVars, uiVars, cmdVars, step, queue, task, opVars, flags, found, undone, broken>>

\* EnqueueLoadSymbols' task: symbols are found or not.
WorkSymbols ==
    /\ wpc = "work" /\ task.kind = "symbols"
    /\ wpc' = "cleanup"
    /\ \/ flags' = [flags EXCEPT ![task.item] = @ \cup {"symbolsLoaded"}]
       \/ UNCHANGED flags
    /\ UNCHANGED <<itemVars, uiVars, cmdVars, callVars, queue, task, left, opVars, found, undone,
                   asked, broken>>

\* EnqueueAnalyzePrivateSymbols' task; the return without symbols (line 369)
\* skips Cleanup.
WorkPrivate ==
    /\ wpc = "work" /\ task.kind = "private"
    /\ LET f == flags[task.item] IN
         \/ /\ "analyzePrivateDone" \in f
            /\ wpc' = "skip"
            /\ UNCHANGED flags
         \/ /\ "analyzePrivateDone" \notin f /\ "symbolsLoaded" \notin f
            /\ wpc' = "end"
            /\ UNCHANGED flags
         \/ /\ "analyzePrivateDone" \notin f /\ "symbolsLoaded" \in f
            /\ wpc' = "cleanup"
            /\ \/ flags' = [flags EXCEPT ![task.item] = @ \cup {"analyzePrivateDone"}]
               \/ MayFail /\ UNCHANGED flags
    /\ UNCHANGED <<itemVars, uiVars, cmdVars, callVars, queue, task, left, opVars, found, undone,
                   asked, broken>>

Cleanup ==
    /\ wpc \in {"gone", "skip", "cleanup"} /\ todo[WORK] = << >>
    /\ ops' = {o \in ops : o.id # task.id}
    /\ wpc' = CASE wpc = "gone" -> "dropped" [] wpc = "skip" -> "end" [] OTHER -> "complete"
    /\ UNCHANGED <<itemVars, uiVars, cmdVars, callVars, queue, task, left, wsOps, cancelled, marked,
                   dataVars>>

\* onComplete of a task nobody cancelled: that of the automatic symbol
\* loading queues the analysis with the private symbols, with an operation
\* of its own.
Complete ==
    /\ wpc = "complete"
    /\ wpc' = "end"
    /\ IF task.chain /\ task.op \notin cancelled
         THEN todo' = [todo EXCEPT ![WORK] = <<Call("private", task.item, <<"private", task.item>>,
                                                    task.item, FALSE, FALSE)>>]
         ELSE UNCHANGED todo
    /\ UNCHANGED <<itemVars, uiVars, cmdVars, step, queue, task, left, opVars, dataVars>>

\* The task is destroyed with what it holds and no longer counted.
Finish ==
    /\ wpc \in {"end", "dropped"} /\ todo[WORK] = << >>
    /\ wpc' = "idle" /\ task' = NoTask
    /\ UNCHANGED <<itemVars, uiVars, cmdVars, callVars, queue, left, opVars, dataVars>>

Worker == \/ Take \/ Start \/ WorkAnalyze \/ WorkFloating \/ PassOne \/ PassEnd
          \/ WorkSymbols \/ WorkPrivate \/ Cleanup \/ Complete \/ Finish

Enqueue(t) == EnqueueTest(t) \/ EnqueueMark(t) \/ RegisterOp(t) \/ EnqueueAdd(t)

RemoveItem == RemoveMark \/ Cancel \/ RemovePick \/ RemoveErase

Next ==
    \/ Worker
    \/ \E t \in Threads : Enqueue(t)
    \/ RegisterItem
    \/ \E i \in Items : \/ Ask(i) \/ Opened(i) \/ OnFileOpen(i) \/ StartAutoTasks(i)
                        \/ SetActiveItem(i)
    \/ RemoveItem \/ StopCancelAll \/ StopPool
    \/ AsyncExecute \/ ExecuteImpl \/ CommandEnd \/ CancelCommand

\* Every thread that has something to do goes on; the user need not.
Fairness ==
    /\ WF_vars(Worker)
    /\ \A t \in Threads : WF_vars(Enqueue(t))
    /\ \A i \in Items : WF_vars(Ask(i)) /\ WF_vars(Opened(i)) /\ WF_vars(OnFileOpen(i))
    /\ WF_vars(Cancel \/ RemovePick \/ RemoveErase)
    /\ WF_vars(StopPool)
    /\ WF_vars(ExecuteImpl) /\ WF_vars(CommandEnd)

Spec == Init /\ [][Next]_vars /\ Fairness

-----------------------------------------------------------------------------
(* Properties.                                                              *)

\* RemoveItem and SetActiveItem leave an active item that exists, whatever
\* is opened meanwhile.
ActiveExists == active \in items \cup {NoItem}

\* m_floatingQueued holds addresses, and the memory of a closed item may be
\* that of a new one: still, EnqueueAnalyzeFloating gives up only when this
\* very item has a floating task in the queue.
MarkIsOwn ==
    \A t \in Threads :
        todo[t] # << >> /\ step[t] = "mark" /\ addr[Head(todo[t]).item] \in marked =>
            \E r \in ToSet(queue) : r.kind = "floating" /\ r.item = Head(todo[t]).item

\* The passes over the floating modules end, although each may find more and
\* analyses throw: the analyzer does not stay busy for ever (what it has not
\* started when the program exits is dropped).
PassesEnd == <>[](IsBusy => ui.pc = "closed")

\* The object of a closed item, which keeps its database open, goes away.
ClosedIsFreed == \A i \in Items : (i \in deleting /\ i \notin items)
                                      ~> (~Alive(i) \/ ui.pc = "closed")

\* RemoveItem, line 1096: "mark item as delete-pending so no new ops get
\* queued": once the item is removed, no task of it waits uncancelled.
ClosedIsCancelled ==
    \A r \in ToSet(queue) :
        r.item \in deleting /\ r.item \notin items => r.op \in cancelled

\* EnqueueAnalyzeFloating: "every floating module that waits for its
\* analysis": when the analyzer is idle, modules wait only after the limit,
\* after an exception or when one of those who asked for them cancelled.
FloatingServed ==
    ~IsBusy /\ (\A t \in Threads : todo[t] = << >>) =>
        \A i \in items \ deleting :
            undone[i] > 0 /\ found[i] <= MaxFloating /\ i \notin broken =>
                asked[i] \cap cancelled # {}
=============================================================================
