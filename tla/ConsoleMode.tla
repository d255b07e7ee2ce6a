----------------------------- MODULE ConsoleMode -----------------------------
(***************************************************************************)
(* orthia --cmd: RunConsoleMode (console_mode.cpp) on the main thread,     *)
(* composed with the model, the analyzer and the command processor of      *)
(* ModuleAnalyzer.  The main thread opens the targets one after the other, *)
(* waits until everything is idle, runs the commands and stops the model.  *)
(* The pump that drains the replies is left out: a reply is seen by the    *)
(* main thread in some later step.                                         *)
(***************************************************************************)
EXTENDS ModuleAnalyzer

CONSTANTS
    TargetLists   \* the command lines: [files, pids, folders : Nat]

ASSUME ConsoleAssumption ==
    TargetLists \subseteq [files : Nat, pids : Nat, folders : Nat]

VARIABLES
    cpc,       \* where the main thread is in RunConsoleMode
    targets,   \* options.files, pids and procFolders
    targetless,\* every command is a .database command
    opened,    \* targets opened so far
    idles,     \* consecutive of WaitUntilIdle
    result,    \* the exit code
    finished,  \* RunOneCommand's State: the final reply came, and its failure
    dying,     \* the command thread has not destroyed the task it has counted off
    failures   \* history: commands that failed

conVars == <<cpc, targets, targetless, opened, idles, result, finished, dying, failures>>
allVars == <<vars, conVars>>

NumTargets == targets.files + targets.pids + targets.folders

ConsoleInit ==
    /\ Init
    /\ cpc = "start" /\ targets \in TargetLists /\ targetless \in BOOLEAN
    /\ opened = 0 /\ idles = 0 /\ result = "ok" /\ finished = "no"
    /\ dying = FALSE /\ failures = 0

\* The command line is tested before anything is opened.
CheckTargets ==
    /\ cpc = "start"
    /\ \/ /\ targets.files + targets.pids > 1
          /\ result' = "usage" /\ cpc' = "exit"
       \/ /\ NumTargets = 0 /\ ~targetless
          /\ result' = "openFail" /\ cpc' = "exit"
       \/ /\ NumTargets = 0 /\ targetless
          /\ cpc' = "ready" /\ UNCHANGED result
       \/ /\ targets.files + targets.pids <= 1 /\ NumTargets > 0
          /\ cpc' = "open" /\ UNCHANGED result
    /\ UNCHANGED <<vars, targets, targetless, opened, idles, finished, dying, failures>>

\* OpenFile, OpenProcess, OpenSavedProcessFolder: the next target fails to
\* open or is handed to the file system pool; after the last one wait.
OpenTarget ==
    /\ cpc = "open"
    /\ \/ /\ opened = NumTargets
          /\ cpc' = "wait" /\ UNCHANGED result
       \/ /\ opened < NumTargets
          /\ cpc' = "opening" /\ UNCHANGED result
       \/ /\ opened < NumTargets /\ MayFail
          /\ result' = "openFail" /\ cpc' = "exit"
    /\ UNCHANGED <<vars, targets, targetless, opened, idles, finished, dying, failures>>

\* AddExecutable and the others on a thread of the file system pool.
AddTarget ==
    /\ cpc = "opening" /\ lastUid = opened
    /\ RegisterItem
    /\ UNCHANGED conVars

\* OpenTargetAndWait: the reply activates the item.
TargetOpened ==
    /\ cpc = "opening" /\ lastUid = opened + 1
    /\ OnFileOpen(lastUid)
    /\ opened' = opened + 1
    /\ cpc' = "open"
    /\ UNCHANGED <<targets, targetless, idles, result, finished, dying, failures>>

\* WaitUntilIdle: the command processor is read first, then the analyzer, and
\* both have to be idle twice in a row.
WaitCommands ==
    /\ cpc = "wait"
    /\ cpc' = IF cmd.pc = "idle" THEN "wait2" ELSE "wait"
    /\ idles' = IF cmd.pc = "idle" THEN idles ELSE 0
    /\ UNCHANGED <<vars, targets, targetless, opened, result, finished, dying, failures>>

WaitAnalyzer ==
    /\ cpc = "wait2"
    /\ \/ /\ IsBusy
          /\ idles' = 0 /\ cpc' = "wait"
       \/ /\ ~IsBusy /\ idles + 1 < 2
          /\ idles' = idles + 1 /\ cpc' = "wait"
       \/ /\ ~IsBusy /\ idles + 1 = 2
          /\ idles' = 0 /\ cpc' = "ready"
    /\ UNCHANGED <<vars, targets, targetless, opened, result, finished, dying, failures>>

\* RunOneCommand hands the command over.
RunOneCommand ==
    /\ cpc = "ready"
    /\ \/ AsyncExecute
       \/ /\ NumTargets = 0 /\ cmdCount < Commands /\ cmd.pc = "idle"
          /\ cmdCount' = cmdCount + 1
          /\ cmd' = [pc |-> "queued", item |-> NoItem, op |-> <<"cmd", cmdCount + 1>>]
          /\ UNCHANGED <<itemVars, uiVars, callVars, poolVars, opVars, dataVars>>
    /\ finished' = "no"
    /\ cpc' = "run"
    /\ UNCHANGED <<targets, targetless, opened, idles, result, dying, failures>>

\* The command thread takes the command when it is done with the last one.
CommandStarts ==
    /\ ~dying
    /\ \/ cmd.item # NoItem /\ ExecuteImpl
       \/ /\ cmd.pc = "queued"        \* a command that queues no analysis
          /\ cmd' = [cmd EXCEPT !.pc = "run"]
          /\ UNCHANGED <<itemVars, uiVars, cmdCount, callVars, poolVars, opVars, dataVars>>
    /\ UNCHANGED conVars

\* Mutant: a command that throws sends no final reply.
ReportStopSuccess ==
    /\ cmd.pc = "run" /\ todo[CMD] = << >> /\ finished = "no"
    /\ \/ finished' = "ok" /\ cmd' = cmd
       \/ cmd' = [pc |-> "idle", item |-> NoItem, op |-> <<"none", 0>>] /\ UNCHANGED finished
    /\ UNCHANGED <<itemVars, uiVars, cmdCount, callVars, poolVars, opVars, dataVars, cpc, targets,
                   targetless, opened, idles, result, dying, failures>>

\* The guard of ExecuteImpl sends the final reply, with the error if any.
ReportStop ==
    /\ cmd.pc = "run" /\ todo[CMD] = << >> /\ finished = "no"
    /\ \/ finished' = "ok" /\ UNCHANGED failures
       \/ finished' = "failed" /\ failures' = failures + 1
    /\ UNCHANGED <<vars, cpc, targets, targetless, opened, idles, result, dying>>

\* The pool counts the task off (--m_activeTasksCount) and destroys it, with
\* its reference to the model, in the next step of the thread.
CommandCounted ==
    /\ finished # "no" /\ CommandEnd
    /\ dying' = TRUE
    /\ UNCHANGED <<cpc, targets, targetless, opened, idles, result, finished, failures>>

CommandDestroyed ==
    /\ dying
    /\ dying' = FALSE
    /\ UNCHANGED <<vars, cpc, targets, targetless, opened, idles, result, finished, failures>>

\* Mutant: the exit code is that of the last command.
CommandFinishedLast ==
    /\ cpc = "run" /\ finished # "no"
    /\ result' = IF finished = "failed" THEN "commandFail" ELSE "ok"
    /\ cpc' = "wait"
    /\ UNCHANGED <<vars, targets, targetless, opened, idles, finished, dying, failures>>

CommandFinished ==
    /\ cpc = "run" /\ finished # "no"
    /\ result' = IF finished = "failed" THEN "commandFail" ELSE result
    /\ cpc' = "wait"
    /\ UNCHANGED <<vars, targets, targetless, opened, idles, finished, dying, failures>>

\* After the last command the guard stops the model.
LastCommand ==
    /\ cpc = "ready" /\ cmdCount = Commands
    /\ cpc' = "exit"
    /\ UNCHANGED <<vars, targets, targetless, opened, idles, result, finished, dying, failures>>

StopGuard ==
    /\ cpc = "exit"
    /\ StopCancelAll \/ StopPool
    /\ UNCHANGED conVars

StopDone ==
    /\ cpc = "exit" /\ ui.pc = "closed"
    /\ cpc' = "reset"
    /\ UNCHANGED <<vars, targets, targetless, opened, idles, result, finished, dying, failures>>

\* main: programModel.reset() frees the model, unless a task still holds it.
Reset ==
    /\ cpc = "reset"
    /\ cpc' = "done"
    /\ UNCHANGED <<vars, targets, targetless, opened, idles, result, finished, dying, failures>>

Background ==
    \/ Worker /\ UNCHANGED conVars
    \/ \E t \in Threads : Enqueue(t) /\ UNCHANGED conVars
    \/ \E i \in Items : Opened(i) /\ UNCHANGED conVars

Main == \/ CheckTargets \/ OpenTarget \/ TargetOpened \/ WaitCommands \/ WaitAnalyzer
        \/ RunOneCommand \/ CommandFinished \/ LastCommand \/ StopGuard \/ StopDone \/ Reset

CommandThread == CommandStarts \/ ReportStop \/ CommandCounted \/ CommandDestroyed

Done == cpc = "done" /\ ~dying /\ UNCHANGED allVars

ConsoleNext == Background \/ AddTarget \/ Main \/ CommandThread \/ Done

\* Each thread goes on.  The main thread never blocks for longer than the
\* 10 ms of PumpOnce, except in the joins of Stop.
ConsoleSpec ==
    /\ ConsoleInit /\ [][ConsoleNext]_allVars
    /\ WF_allVars(Worker /\ UNCHANGED conVars)
    /\ \A t \in Threads : WF_allVars(Enqueue(t) /\ UNCHANGED conVars)
    /\ \A i \in Items : WF_allVars(Opened(i) /\ UNCHANGED conVars)
    /\ WF_allVars(AddTarget) /\ WF_allVars(Main) /\ WF_allVars(CommandThread)

-----------------------------------------------------------------------------
\* WaitUntilIdle: when the next command starts, or the last one is done, no
\* analysis of the open or of the commands before is queued, running or about
\* to be queued, chained work included.
Settled ==
    cpc = "ready" => /\ ~IsBusy
                     /\ \A t \in Threads : todo[t] = << >>
                     /\ cmd.pc = "idle"

\* A --cmd run comes to its end.
ConsoleEnds == <>(cpc = "done")

\* consoleExit_CommandFail: "at least one command reported an error", whether
\* it is the last command or not.
ExitTells == cpc = "done" /\ result \in {"ok", "commandFail"} => (result = "commandFail") = (failures > 0)
=============================================================================
