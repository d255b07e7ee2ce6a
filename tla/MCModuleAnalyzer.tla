-------------------------- MODULE MCModuleAnalyzer --------------------------
(* Small instances of the background analysis.                              *)
EXTENDS ModuleAnalyzer
BothTasks == {{"analyze", "symbols"}}
AnyTasks == SUBSET {"analyze", "symbols"}
AnalyzeOnly == {{"analyze"}}
=============================================================================
