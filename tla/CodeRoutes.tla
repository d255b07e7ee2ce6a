----------------------------- MODULE CodeRoutes -----------------------------
(* How Diana finds the code of a module (diana_analyze.c): from a seed it    *)
(* follows one route at a time and keeps the others on a stack.  What code   *)
(* jumps to is code; what it only takes the address of starts a questionable *)
(* route, which is rolled back when it meets something that is no code.  A   *)
(* strict analysis rolls back every such route.                              *)
(*                                                                           *)
(* A module is a word per offset: what decodes there, how long it is and     *)
(* where it refers to.  Offsets from size on are outside of the module.      *)
(* Landing pads and pointers found in data are strict seeds.  A route of     *)
(* AArch32 keeps one mode here.                                              *)
EXTENDS Integers, Sequences, FiniteSets

CONSTANTS
  Images,    \* the modules to analyze
  MaxSeeds,  \* bound: seeds besides those of a scan
  NoCode     \* an offset without an instruction

(* What decodes at an offset, where it leads, and the flags of an            *)
(* instruction.                                                              *)
Words == [kind : {"plain", "jmp", "call", "ret", "take", "read", "zero", "bad"},
          size : Nat \ {0}, to : Nat]
Marks == {"loading", "root", "invalid"}

ASSUME CodeAssumption ==
  /\ MaxSeeds \in Nat
  /\ \A i \in Images : /\ i.align \in {1, 2, 4} /\ i.size \in Nat
                       /\ DOMAIN i.code = 0 .. i.size - 1
                       /\ \A k \in DOMAIN i.code : i.code[k] \in Words
  /\ \A m \in SUBSET Marks : m # NoCode

VARIABLES
  image,   \* the module; align is 1 for x86, more for ARM
  own,     \* Diana_InstructionsOwner (presence vector, xrefs, m_actualSize) and the stack of routes
  cur,     \* curRouteInfo
  place,   \* the offset of the next instruction
  strict,  \* DI_ANALYSE_BREAK_ON_INVALID_CMD
  rpc,     \* where Diana_AnalyzeCodeImpl is: "rest", "step", or "switch" (bNeedReset)
  seeds,   \* seeds used
  scan,    \* the next offset of Diana_AnalyzeScanThrough, -1 before it
  roots    \* history: the seeds that were given as code

crVars == <<image, own, cur, place, strict, rpc, seeds, scan, roots>>

Offsets == 0 .. image.size - 1
Word(k) == image.code[k]
Arm == image.align > 1
Inside(k) == k < image.size
Aligned(k) == k % image.align = 0

Route(start, questionable) == [start |-> start, questionable |-> questionable, list |-> {}]

CodeInit ==
  /\ image \in Images
  /\ own = [vec |-> [k \in Offsets |-> NoCode], xrefs |-> {}, count |-> 0, stack |-> << >>]
  /\ cur = Route(0, FALSE) /\ place = 0 /\ strict = FALSE
  /\ rpc = "rest" /\ seeds = 0 /\ scan = -1 /\ roots = {}

------------------------------------------------------------------------------
(* Operations of the owner.                                                  *)

QueryOrAllocateInstruction(o, k, flags0) ==
  IF o.vec[k] # NoCode THEN o
  ELSE [o EXCEPT !.vec[k] = flags0, !.count = @ + 1]

CreateXRef(o, from, to, data, taken) ==
  [o EXCEPT !.xrefs = @ \cup {[from |-> from, to |-> to, data |-> data, taken |-> taken,
                               gone |-> FALSE]}]

(* The target is no instruction of the module: data in it, or outside of it. *)
SaveDataXRef(o, from, to, taken) == CreateXRef(o, from, to, TRUE, taken)
SaveNewExternalRoute(o, from, to, data, taken) == CreateXRef(o, from, to, data, taken)

(* A route of its own for a target nobody has come to; one that is there     *)
(* already gets the xref and, from code, the root flag.                      *)
SaveNewRoute(o, from, to, questionable, taken) ==
  LET new    == QueryOrAllocateInstruction(o, to, {"loading"})
      rooted == IF questionable THEN new ELSE [new EXCEPT !.vec[to] = @ \cup {"root"}]
      linked == CreateXRef(rooted, from, to, FALSE, taken)
      noCode == o.vec[to] # NoCode /\ "invalid" \in o.vec[to]
  IN CASE ~Aligned(to) -> IF taken THEN SaveDataXRef(o, from, to, TRUE) ELSE o
       [] Aligned(to) /\ noCode /\ taken -> SaveDataXRef(o, from, to, TRUE)
       [] Aligned(to) /\ o.vec[to] # NoCode /\ ~(noCode /\ taken) -> linked
       [] OTHER -> [linked EXCEPT !.stack = Append(@, Route(to, questionable))]

(* What is read or written is data; on ARM its pending questionable route is *)
(* given up when it starts.                                                  *)
SaveDataAccess(o, from, to) ==
  LET pending == /\ Arm /\ o.vec[to] # NoCode
                 /\ "loading" \in o.vec[to] /\ "root" \notin o.vec[to]
      marked  == IF pending THEN [o EXCEPT !.vec[to] = @ \cup {"invalid"}] ELSE o
  IN SaveDataXRef(marked, from, to, FALSE)

------------------------------------------------------------------------------
(* One instruction.                                                          *)

IsStrictRoute == cur.questionable \/ strict

(* Zeros are an instruction of ARM that stops, but not on a strict route.    *)
Decodes(k) == /\ Word(k).kind # "bad" /\ k + Word(k).size <= image.size
              /\ Word(k).kind = "zero" => ~IsStrictRoute

Stops(k) == Word(k).kind \in {"jmp", "ret", "zero"}

(* The references of an instruction by its kind.                             *)
SaveReferences(o, k) ==
  LET to == Word(k).to
  IN CASE Word(k).kind = "take" /\ Inside(to) -> SaveNewRoute(o, k, to, TRUE, TRUE)
       [] Word(k).kind = "take" /\ ~Inside(to) -> SaveNewExternalRoute(o, k, to, FALSE, TRUE)
       [] Word(k).kind = "read" /\ Inside(to) -> SaveDataAccess(o, k, to)
       [] Word(k).kind = "read" /\ ~Inside(to) -> SaveNewExternalRoute(o, k, to, TRUE, FALSE)
       [] Word(k).kind \in {"jmp", "call"} /\ Inside(to) ->
            SaveNewRoute(o, k, to, cur.questionable, FALSE)
       [] Word(k).kind \in {"jmp", "call"} /\ ~Inside(to) ->
            SaveNewExternalRoute(o, k, to, FALSE, FALSE)
       [] OTHER -> o

AnalyzeAndConstructInstruction(k) ==
  LET made == QueryOrAllocateInstruction(own, k, {})
  IN SaveReferences([made EXCEPT !.vec[k] = IF cur.questionable THEN {} ELSE {"root"}], k)

------------------------------------------------------------------------------
(* The instructions of the route and all xrefs at them become invalid.       *)
RouteMarker(o, marked) ==
  [o EXCEPT !.vec = [k \in Offsets |-> IF k \in marked THEN @[k] \cup {"invalid"} ELSE @[k]],
            !.count = @ - Cardinality(marked),
            !.xrefs = {[x EXCEPT !.gone = @ \/ x.from \in marked
                                            \/ (~x.data /\ x.to \in marked)] : x \in @}]

(* An address taken from outside of the route stays, as a reference to data. *)
AddressTakenKeeper(o, marked) ==
  [o EXCEPT !.xrefs = @ \cup
     {[from |-> x.from, to |-> x.to, data |-> TRUE, taken |-> TRUE, gone |-> FALSE] :
        x \in {x \in @ : /\ x.taken /\ ~x.data /\ x.to \in marked
                         /\ "invalid" \notin o.vec[x.from]}}]

\* Mutant: the first instruction, which is still loading, is forgotten.
RollbackListOnly(o, r) == AddressTakenKeeper(RouteMarker(o, r.list), r.list)

RollbackCurrentRoute(o, r) ==
  LET loading == {k \in {r.start} : o.vec[k] # NoCode /\ "loading" \in o.vec[k]}
      marked  == r.list \cup loading
  IN AddressTakenKeeper(RouteMarker(o, marked), marked)

RollbackIf(condition, o, r) == IF condition THEN RollbackCurrentRoute(o, r) ELSE o

------------------------------------------------------------------------------
(* Diana_AnalyzeCodeEx2: nothing to do at an offset with an instruction,     *)
(* valid or rolled back.                                                     *)
Begin(seed, isStrict) ==
  /\ rpc = "rest"
  /\ \/ own.vec[seed] # NoCode /\ UNCHANGED <<own, cur, place, strict, rpc>>
     \/ /\ own.vec[seed] = NoCode
        /\ cur' = Route(seed, FALSE) /\ place' = seed /\ strict' = isStrict
        /\ rpc' = "step"
        /\ own' = [own EXCEPT !.stack = << >>]
  /\ UNCHANGED image

Scanning == scan >= 0 /\ Inside(scan)

AnalyzeCodeEx2(seed, isStrict) ==
  /\ seeds < MaxSeeds /\ ~Scanning
  /\ Begin(seed, isStrict)
  /\ seeds' = seeds + 1
  /\ roots' = IF isStrict THEN roots ELSE roots \cup {seed}
  /\ UNCHANGED scan

(* Every offset where an instruction can start is a strict seed.             *)
StartScan ==
  /\ rpc = "rest" /\ scan = -1 /\ scan' = 0
  /\ UNCHANGED <<image, own, cur, place, strict, rpc, seeds, roots>>

ScanThrough ==
  /\ Scanning /\ Begin(scan, TRUE)
  /\ scan' = scan + image.align
  /\ UNCHANGED <<seeds, roots>>

SwitchToLastState ==
  /\ rpc = "switch" /\ own.stack # << >>
  /\ cur' = own.stack[Len(own.stack)]
  /\ own' = [own EXCEPT !.stack = SubSeq(@, 1, Len(@) - 1)]
  /\ place' = cur'.start /\ rpc' = "step"
  /\ UNCHANGED <<image, strict, seeds, scan, roots>>

Finish ==
  /\ rpc = "switch" /\ own.stack = << >>
  /\ rpc' = "rest"
  /\ cur' = Route(0, FALSE) /\ place' = 0 /\ strict' = FALSE
  /\ UNCHANGED <<image, own, seeds, scan, roots>>

(* A place where no instruction can start: only ARM has such places.         *)
NotAligned ==
  /\ rpc = "step" /\ ~Aligned(place)
  /\ own' = RollbackIf(IsStrictRoute, own, cur)
  /\ rpc' = "switch"
  /\ UNCHANGED <<image, cur, place, strict, seeds, scan, roots>>

(* A route that has to prove it is code is rolled back, the others step over *)
(* what does not decode.                                                     *)
ParseFails ==
  /\ rpc = "step" /\ Aligned(place) /\ ~Decodes(place)
  /\ own' = RollbackIf(IsStrictRoute, own, cur)
  /\ place' = place + image.align
  /\ rpc' = IF IsStrictRoute \/ ~Inside(place') THEN "switch" ELSE "step"
  /\ UNCHANGED <<image, cur, strict, seeds, scan, roots>>

\* Mutant: the start of a route counts as registered.
IsPresent(k) == own.vec[k] # NoCode

IsRegistered(k) ==
  own.vec[k] # NoCode /\ ("invalid" \in own.vec[k] \/ "loading" \notin own.vec[k])

(* The route comes to an instruction that was analyzed or rolled back.       *)
JoinRoute ==
  /\ rpc = "step" /\ Aligned(place) /\ Decodes(place) /\ IsRegistered(place)
  /\ own' = RollbackIf("invalid" \in own.vec[place] /\ cur.questionable, own, cur)
  /\ rpc' = "switch"
  /\ UNCHANGED <<image, cur, place, strict, seeds, scan, roots>>

(* A strict route of ARM that runs off the end is no code either.            *)
AnalyzeInstruction ==
  /\ rpc = "step" /\ Aligned(place) /\ Decodes(place) /\ ~IsRegistered(place)
  /\ cur' = [cur EXCEPT !.list = @ \cup {place}]
  /\ place' = place + Word(place).size
  /\ own' = RollbackIf(Arm /\ ~Inside(place') /\ ~Stops(place) /\ IsStrictRoute,
                       AnalyzeAndConstructInstruction(place), cur')
  /\ rpc' = IF Stops(place) \/ ~Inside(place') THEN "switch" ELSE "step"
  /\ UNCHANGED <<image, strict, seeds, scan, roots>>

AnalyzeStep ==
  \/ SwitchToLastState \/ Finish \/ NotAligned \/ ParseFails \/ JoinRoute \/ AnalyzeInstruction
  \/ ScanThrough

CodeNext ==
  \/ AnalyzeStep \/ StartScan
  \/ \E seed \in Offsets, isStrict \in BOOLEAN : AnalyzeCodeEx2(seed, isStrict)

(* The analysis is one thread's.                                             *)
CodeSpec == CodeInit /\ [][CodeNext]_crVars /\ WF_crVars(AnalyzeStep)

------------------------------------------------------------------------------
Valid(k) == own.vec[k] # NoCode /\ "invalid" \notin own.vec[k]

(* m_actualSize "counts the valid instructions only"                         *)
(* (orthia_diana_module.cpp), however often routes run into each other and   *)
(* are rolled back; and what is shown as an instruction was decoded, except  *)
(* where code jumps to what does not decode.                                 *)
OwnerCounts ==
  rpc = "rest" =>
    /\ own.count = Cardinality({k \in Offsets : Valid(k)})
    /\ \A k \in Offsets : Valid(k) /\ "loading" \in own.vec[k] =>
         ~Decodes(k) /\ \E x \in own.xrefs : x.to = k /\ ~x.data /\ ~x.taken

(* A reference that is shown comes from code, and no reference of code is    *)
(* lost: an address taken leads to code or, when the route there was rolled  *)
(* back before or after, to data.                                            *)
ReferencesTell ==
  rpc = "rest" =>
    /\ \A x \in own.xrefs : ~x.gone => Valid(x.from)
    /\ \A x \in own.xrefs : ~x.gone /\ x.taken /\ ~x.data /\ Inside(x.to) => Valid(x.to)
    /\ \A k \in Offsets :
         Valid(k) /\ "loading" \notin own.vec[k] /\ Word(k).kind \in {"take", "read"} =>
           \E x \in own.xrefs : x.from = k /\ x.to = Word(k).to /\ ~x.gone

(* What the analysis leaves is consistent.                                   *)
OwnerTells == OwnerCounts /\ ReferencesTell

(* Where control goes from an instruction, and from the seeds that are code. *)
Successors(k) ==
  {to \in Offsets : \/ to = k + Word(k).size /\ ~Stops(k)
                    \/ to = Word(k).to /\ Word(k).kind \in {"jmp", "call"}}
RootFlow ==
  {k \in Offsets : \A C \in SUBSET Offsets :
     roots \subseteq C /\ (\A c \in C : Successors(c) \subseteq C) => k \in C}

(* Nothing along the way is undecodable, and on ARM nothing that a strict    *)
(* route takes for data.                                                     *)
IsSound(flow) ==
  \A k \in flow :
    /\ Word(k).kind \notin {"bad", "zero"} /\ k + Word(k).size <= image.size
    /\ Aligned(k)
    /\ Arm => /\ Inside(k + Word(k).size) \/ Stops(k)
              /\ \A r \in Offsets : ~(Word(r).kind = "read" /\ Word(r).to = k)

(* All that control can reach from the seeds is found, although questionable *)
(* and strict routes, earlier or later, run through it and are rolled back.  *)
RootsFound ==
  rpc = "rest" /\ roots # {} =>
    LET flow == RootFlow
    IN IsSound(flow) => \A k \in flow : Valid(k) /\ "loading" \notin own.vec[k]

(* An analysis or a scan is not at its end.                                  *)
AnalysisWorks == rpc # "rest" \/ Scanning
=============================================================================
