------------------------------ MODULE MCDatabases ------------------------------
(* The databases of Orthia side by side: the one of a process, the floating  *)
(* code in it, the one of a file, the opening of either by several           *)
(* processes, and the analysis whose result they hold.  They share no state: *)
(* a behaviour is one of the five, the others stay as they begin.            *)
EXTENDS ProcessItem, FloatingCode, FileItem, DatabaseFile, CodeRoutes, TLC

VARIABLE part

MCBase == "m" :> 3 @@ "a" :> 1 @@ "b" :> 1 @@ "c" :> 2
MCSize == "m" :> 1 @@ "a" :> 2 @@ "b" :> 2 @@ "c" :> 1
MCFile == "m" :> "m" @@ "a" :> "f" @@ "b" :> "f" @@ "c" :> "g"

(* "a" and "b" are alike: which of them is loaded at first makes no          *)
(* difference.                                                               *)
MCLoaded(l) == IF part = "process" THEN "b" \notin l ELSE l = {Main}

(* Two regions that lead into each other, at both of their entries.          *)
MCSourceLeads == {<<1, 1>>}
MCLeads == [r \in 1..2 |-> [b \in 0..2 |-> [e \in 1..2 |->
  CASE <<r, b, e>> = <<1, 1, 1>> -> {<<2, 1>>}
    [] <<r, b, e>> = <<1, 2, 1>> -> {<<2, 2>>}
    [] <<r, b, e>> = <<1, 2, 2>> -> {<<2, 1>>}
    [] <<r, b, e>> \in {<<2, 1, 1>>, <<2, 2, 2>>} -> {<<1, 2>>}
    [] <<r, b, e>> = <<2, 1, 2>> -> {<<1, 1>>}
    [] OTHER -> {}]]]

(* The words of a module: x86 with instructions of one and two bytes that    *)
(* overlap, and ARM, where nothing starts at an odd offset.                  *)
MCWord(kind, size, to) == [kind |-> kind, size |-> size, to |-> to]
MCBad == MCWord("bad", 1, 0)
MCx86 ==
  {[align |-> 1, size |-> 4, code |-> [k \in 0..3 |-> words[k + 1]]] : words \in
     {MCWord("call", 1, 2), MCWord("take", 1, 3), MCWord("plain", 2, 0)}
     \X {MCWord("jmp", 1, 3), MCWord("take", 1, 2), MCWord("read", 1, 4), MCBad}
     \X {MCWord("call", 2, 1), MCWord("jmp", 1, 4), MCWord("take", 1, 3), MCWord("take", 1, 4), MCBad}
     \X {MCWord("plain", 1, 0), MCWord("ret", 1, 0), MCBad}}
MCArm ==
  {[align |-> 2, size |-> 6,
    code |-> [k \in 0..5 |-> IF k % 2 = 0 THEN words[k \div 2 + 1] ELSE MCBad]] : words \in
     {MCWord("take", 2, 4), MCWord("call", 2, 2), MCWord("take", 2, 3), MCWord("jmp", 2, 3)}
     \X {MCWord("read", 2, 4), MCWord("take", 2, 4), MCWord("jmp", 2, 4), MCWord("zero", 2, 0)}
     \X {MCWord("plain", 2, 0), MCWord("zero", 2, 0), MCWord("ret", 2, 0)}}
MCImages == MCx86 \cup MCArm
MCImage == CHOOSE i \in MCImages : TRUE

MCInit ==
  /\ part \in {"process", "floating", "file", "open", "code"}
  /\ ItemInit /\ MCLoaded(loaded)
  /\ FloatingInit /\ (part # "floating" => mem = [r \in Regions |-> 0])
  /\ FileInit /\ (part # "file" => ~fraw)
  /\ DatabaseFileInit
  /\ part # "open" => ~keeps /\ files[NoOpener] = Blank /\ \A o \in Openers : ~force[o]
  /\ CodeInit /\ (part # "code" => image = MCImage)

MCNext ==
  /\ UNCHANGED part
  /\ \/ part = "process" /\ ItemNext /\ UNCHANGED <<flVars, fvars, dfVars, crVars>>
     \/ part = "floating" /\ FloatingNext /\ UNCHANGED <<piVars, fvars, dfVars, crVars>>
     \/ part = "file" /\ FileNext /\ UNCHANGED <<piVars, flVars, dfVars, crVars>>
     \/ part = "open" /\ DatabaseFileNext /\ UNCHANGED <<piVars, flVars, fvars, crVars>>
     \/ part = "code" /\ CodeNext /\ UNCHANGED <<piVars, flVars, fvars, dfVars>>

MCFloatingStep ==
  part = "floating" /\ FloatingStep /\ UNCHANGED <<piVars, fvars, dfVars, crVars, part>>
MCOpenerStep(o) ==
  part = "open" /\ OpenerStep(o) /\ UNCHANGED <<piVars, flVars, fvars, crVars, part>>
MCAnalyzeStep ==
  part = "code" /\ AnalyzeStep /\ UNCHANGED <<piVars, flVars, fvars, dfVars, part>>

MCvars == <<part, piVars, flVars, fvars, dfVars, crVars>>

MCSpec == /\ MCInit /\ [][MCNext]_MCvars
          /\ WF_MCvars(MCFloatingStep)
          /\ WF_MCvars(MCAnalyzeStep)
          /\ \A o \in Openers : WF_MCvars(MCOpenerStep(o))

(* What was saved stays, whatever F5, the analyses and an end of Orthia do:  *)
(* the references of an unloaded module and of stale floating code, the      *)
(* names and descriptions of a file.                                         *)
SavedStays == EvidenceStays /\ StaleKept /\ NamesStay

(* What began comes to its end: the chain of passes over floating code, also *)
(* when a region that was found can't be read any more; the opens, where two *)
(* processes that wait for each other's lock give up; the analysis of a      *)
(* module's code and the scan through it.                                    *)
Working == FloatingWorks \/ (\E o \in Openers : Opening(o)) \/ AnalysisWorks
DatabasesRest == Working ~> ~Working
================================================================================
