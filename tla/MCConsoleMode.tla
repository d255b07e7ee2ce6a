---------------------------- MODULE MCConsoleMode ----------------------------
(* Small instances of the --cmd run.                                        *)
EXTENDS ConsoleMode
BothTasks == {{"analyze", "symbols"}}
OneTarget == [files : {1}, pids : {0, 1}, folders : {0}]
             \cup [files : {0}, pids : {0}, folders : {0}]
=============================================================================
