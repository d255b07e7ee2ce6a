--------------------------- MODULE CodeRoutesProofs ---------------------------
(* Proofs about CodeRoutes for any modules, any code in them, any seeds and a *)
(* scan at any time.                                                          *)
EXTENDS CodeRoutes, FiniteSetTheorems, TLAPS

Places(i) == 0 .. i.size - 1
References(i) == [from : Places(i), to : Nat, data : BOOLEAN, taken : BOOLEAN, gone : BOOLEAN]
Routes(i) == [start : Places(i), questionable : BOOLEAN, list : SUBSET Places(i)]
Owners(i) == [vec : [Places(i) -> (SUBSET Marks) \cup {NoCode}], xrefs : SUBSET References(i),
              count : Int, stack : Seq(Routes(i))]

CodeTypeOK ==
  /\ image \in Images /\ own \in Owners(image)
  /\ cur.questionable \in BOOLEAN /\ cur.start \in Nat /\ cur.list \subseteq Places(image)
  /\ cur = [start |-> cur.start, questionable |-> cur.questionable, list |-> cur.list]
  /\ place \in Nat /\ strict \in BOOLEAN /\ rpc \in {"rest", "step", "switch"}
  /\ scan \in Int /\ scan >= -1 /\ roots \subseteq Places(image)
  /\ rpc = "step" => place \in Places(image) /\ cur.start \in Places(image)
  /\ rpc = "rest" => own.stack = << >>

------------------------------------------------------------------------------
(* The owner o of a module i.  E is the offset the current route has still to *)
(* start at, if any; D the instruction under construction, if any.            *)

Has(o, k, mark) == o.vec[k] # NoCode /\ mark \in o.vec[k]
Lacks(o, k, mark) == o.vec[k] # NoCode /\ mark \notin o.vec[k]
Analyzed(o, k) == Lacks(o, k, "loading") /\ Lacks(o, k, "invalid")

Starts(o) == {o.stack[n].start : n \in DOMAIN o.stack}
Pending(o, E) == Starts(o) \cup E

(* Given up by an access to data, and not rolled back yet.                   *)
Doomed(o, E, k) == Has(o, k, "loading") /\ Has(o, k, "invalid") /\ k \in Pending(o, E)
Counted(o, E, k) == Lacks(o, k, "invalid") \/ Doomed(o, E, k)

CountTells(i, o, E) == o.count = Cardinality({k \in Places(i) : Counted(o, E, k)})

(* Code refers to it.                                                        *)
Called(o, k) == \E x \in o.xrefs : x.to = k /\ ~x.data /\ ~x.taken
(* A route of code that has still to start was never given up.               *)
Certain(o, k) ==
  Called(o, k) /\ (Has(o, k, "loading") => Has(o, k, "root") /\ Lacks(o, k, "invalid"))

StackTells(i, o, E) ==
  /\ \A n \in DOMAIN o.stack : /\ o.stack[n].list = {} /\ o.vec[o.stack[n].start] # NoCode
                               /\ o.stack[n].start % i.align = 0
                               /\ ~o.stack[n].questionable => Certain(o, o.stack[n].start)
  /\ \A n, m \in DOMAIN o.stack : o.stack[n].start = o.stack[m].start => n = m
  /\ E \cap Starts(o) = {}

(* It decodes on no route.                                                   *)
Hopeless(i, k) == i.code[k].kind = "bad" \/ k + i.code[k].size > i.size

LoadingTells(i, o, E) ==
  \A k \in Places(i) : Has(o, k, "loading") /\ Lacks(o, k, "invalid") =>
    k \in Pending(o, E) \/ (Hopeless(i, k) /\ Called(o, k) /\ Has(o, k, "root"))

XrefsTell(o) ==
  \A x \in o.xrefs : Lacks(o, x.from, "loading") /\ (~x.gone => Lacks(o, x.from, "invalid"))

TakenTells(i, o, E) ==
  \A x \in o.xrefs : ~x.gone /\ x.taken /\ ~x.data /\ x.to < i.size => Counted(o, E, x.to)

Shown(i, o, k) ==
  \E x \in o.xrefs : x.from = k /\ x.to = i.code[k].to /\ ~x.gone /\ (x.data \/ x.taken)
ShownTells(i, o, D) ==
  \A k \in Places(i) \ D : Analyzed(o, k) /\ i.code[k].kind \in {"take", "read"} => Shown(i, o, k)

OwnerInv(i, o, E, D) ==
  /\ o \in Owners(i)
  /\ CountTells(i, o, E) /\ StackTells(i, o, E) /\ LoadingTells(i, o, E)
  /\ XrefsTell(o) /\ TakenTells(i, o, E) /\ ShownTells(i, o, D)

------------------------------------------------------------------------------
(* The current route r; at is its next offset.                               *)
RouteTells(i, o, r, at, q) ==
  /\ at >= r.start /\ (at = r.start => r.list = {})
  /\ \A k \in r.list : Analyzed(o, k)
  /\ at = r.start /\ o.vec[at] # NoCode =>
       at % i.align = 0 /\ (~r.questionable => Certain(o, at))
  /\ o.vec[r.start] = NoCode => ~r.questionable
  /\ q /\ at # r.start => r.start \in r.list

------------------------------------------------------------------------------
(* Sets of sound code: what control reaches from them is sound too.          *)
StopsAt(i, k) == i.code[k].kind \in {"jmp", "ret", "zero"}
SuccessorsIn(i, k) ==
  {to \in Places(i) : \/ to = k + i.code[k].size /\ ~StopsAt(i, k)
                      \/ to = i.code[k].to /\ i.code[k].kind \in {"jmp", "call"}}
SoundFlow(i, F) ==
  \A k \in F :
    /\ i.code[k].kind \notin {"bad", "zero"} /\ k + i.code[k].size <= i.size
    /\ k % i.align = 0
    /\ i.align > 1 => /\ k + i.code[k].size < i.size \/ StopsAt(i, k)
                      /\ \A r \in Places(i) : ~(i.code[r].kind = "read" /\ i.code[r].to = k)
    /\ SuccessorsIn(i, k) \subseteq F

(* A is where a route is now, L what it has analyzed, R the seeds of code:   *)
(* nothing in a sound set is ever given up, and what follows is found or on  *)
(* its way.                                                                  *)
FlowIn(i, F, o, A, L, R) ==
  /\ \A k \in F : o.vec[k] # NoCode =>
       Lacks(o, k, "invalid") /\ (Has(o, k, "loading") => k \in Starts(o) \cup A)
  /\ A # {} /\ L \cap F # {} => A \subseteq F
  /\ \A k \in F : Lacks(o, k, "loading") =>
       \A s \in SuccessorsIn(i, k) : o.vec[s] # NoCode \/ s \in A
  /\ \A k \in F \cap R : o.vec[k] # NoCode \/ k \in A

FlowTells(i, o, A, L, R) ==
  \A F \in SUBSET Places(i) : SoundFlow(i, F) => FlowIn(i, F, o, A, L, R)

------------------------------------------------------------------------------
At == IF rpc = "step" THEN {place} ELSE {}
ToStart == IF rpc = "step" /\ place = cur.start THEN {place} ELSE {}

CodeInv ==
  /\ CodeTypeOK
  /\ OwnerInv(image, own, ToStart, {})
  /\ rpc = "step" => RouteTells(image, own, cur, place, IsStrictRoute)
  /\ FlowTells(image, own, At, cur.list, roots)

------------------------------------------------------------------------------
(* Facts about owners.                                                       *)

\* What the assumption says of a module.
LEMMA ImageTells ==
  ASSUME NEW i \in Images
  PROVE  /\ i.size \in Nat /\ i.align \in {1, 2, 4}
         /\ \A k \in Places(i) : /\ i.code[k].kind \in {"plain", "jmp", "call", "ret", "take",
                                                        "read", "zero", "bad"}
                                 /\ i.code[k].size \in Nat /\ i.code[k].size > 0
                                 /\ i.code[k].to \in Nat
         /\ IsFiniteSet(Places(i))
<1>1. i.size \in Nat /\ i.align \in {1, 2, 4} /\ DOMAIN i.code = Places(i)
  BY CodeAssumption DEF Places
<1>2. \A k \in Places(i) : i.code[k] \in Words
  BY <1>1, CodeAssumption
<1>3. IsFiniteSet(Places(i))
  BY <1>1, FS_Interval DEF Places
<1> QED BY <1>1, <1>2, <1>3 DEF Words

\* The fields of an owner.
LEMMA OwnerTypes ==
  ASSUME NEW i \in Images, NEW o \in Owners(i)
  PROVE  /\ o.vec \in [Places(i) -> (SUBSET Marks) \cup {NoCode}] /\ o.xrefs \subseteq References(i)
         /\ o.count \in Int /\ o.stack \in Seq(Routes(i)) /\ Starts(o) \subseteq Places(i)
         /\ \A k \in Places(i) : o.vec[k] # NoCode => o.vec[k] \subseteq Marks
<1>1. /\ o.vec \in [Places(i) -> (SUBSET Marks) \cup {NoCode}] /\ o.xrefs \subseteq References(i)
      /\ o.count \in Int /\ o.stack \in Seq(Routes(i))
  BY DEF Owners
<1>2. \A n \in DOMAIN o.stack : o.stack[n] \in Routes(i)
  BY <1>1
<1>3. Starts(o) \subseteq Places(i)
  BY <1>2 DEF Starts, Routes
<1>4. \A k \in Places(i) : o.vec[k] # NoCode => o.vec[k] \subseteq Marks
  BY <1>1
<1> QED BY <1>1, <1>3

\* The parts of the invariant look at nothing else of an owner.
LEMMA SetsOfOwner ==
  ASSUME NEW i \in Images, NEW o \in Owners(i), NEW E
  PROVE  IsFiniteSet({k \in Places(i) : Counted(o, E, k)})
BY ImageTells, FS_Subset

\* One reference more, one route more.
LEMMA XRefAdded ==
  ASSUME NEW i \in Images, NEW o \in Owners(i), NEW x \in References(i), NEW p,
         p = [o EXCEPT !.xrefs = @ \cup {x}]
  PROVE  /\ p \in Owners(i) /\ p.vec = o.vec /\ p.stack = o.stack /\ p.count = o.count
         /\ p.xrefs = o.xrefs \cup {x}
BY DEF Owners

\* One route more on the stack.
LEMMA RouteAdded ==
  ASSUME NEW i \in Images, NEW o \in Owners(i), NEW r \in Routes(i), NEW p,
         p = [o EXCEPT !.stack = Append(@, r)]
  PROVE  /\ p \in Owners(i) /\ p.vec = o.vec /\ p.stack = Append(o.stack, r) /\ p.count = o.count
         /\ p.xrefs = o.xrefs
<1>1. /\ p.vec = o.vec /\ p.stack = Append(o.stack, r) /\ p.count = o.count
      /\ p.xrefs = o.xrefs
  BY DEF Owners
<1>2. p.stack \in Seq(Routes(i))
  BY <1>1, OwnerTypes
<1> QED BY <1>1, <1>2 DEF Owners

------------------------------------------------------------------------------
(* One reference more.                                                       *)
LEMMA XRefCreated ==
  ASSUME NEW i \in Images, NEW o, NEW E, NEW k \in Places(i), NEW x \in References(i), NEW p,
         OwnerInv(i, o, E, {k}), Analyzed(o, k), x.from = k, ~x.gone,
         x.taken /\ ~x.data /\ x.to < i.size => Counted(o, E, x.to),
         p \in Owners(i), p.vec = o.vec, p.stack = o.stack, p.count = o.count,
         p.xrefs = o.xrefs \cup {x}
  PROVE  /\ OwnerInv(i, p, E, {k})
         /\ (x.to = i.code[k].to /\ (x.data \/ x.taken) => OwnerInv(i, p, E, {}))
         /\ ~x.data /\ ~x.taken => Called(p, x.to)
<1>1. o \in Owners(i)
  BY DEF OwnerInv
<1>5. Starts(p) = Starts(o) /\ \A c : Counted(p, E, c) <=> Counted(o, E, c)
  BY DEF Starts, Counted, Doomed, Pending, Has, Lacks
<1>6. CountTells(i, p, E)
  BY <1>5 DEF OwnerInv, CountTells
<1>7. \A c : Called(o, c) => Called(p, c)
  BY DEF Called
<1>8. \A c : Certain(o, c) => Certain(p, c)
  BY <1>7 DEF Certain, Has, Lacks
<1>9. StackTells(i, p, E)
  BY <1>5, <1>8 DEF OwnerInv, StackTells
<1>10. LoadingTells(i, p, E)
  BY <1>5, <1>7 DEF OwnerInv, LoadingTells, Pending, Has, Lacks
<1>11. XrefsTell(p)
  BY DEF OwnerInv, XrefsTell, Analyzed, Has, Lacks
<1>12. TakenTells(i, p, E)
  BY <1>5 DEF OwnerInv, TakenTells
<1>13. ShownTells(i, p, {k})
  BY DEF OwnerInv, ShownTells, Shown, Analyzed, Has, Lacks
<1>14. x.to = i.code[k].to /\ (x.data \/ x.taken) => ShownTells(i, p, {})
  BY <1>13 DEF ShownTells, Shown
<1>15. ~x.data /\ ~x.taken => Called(p, x.to)
  BY DEF Called
<1> QED BY <1>6, <1>8, <1>9, <1>10, <1>11, <1>12, <1>13, <1>14, <1>15 DEF OwnerInv

\* A reference of code is an instruction of its own from now on.
LEMMA RootMarked ==
  ASSUME NEW p, NEW i \in Images, NEW o, NEW E, NEW D, NEW to \in Places(i),
         OwnerInv(i, o, E, D), o.vec[to] # NoCode,
         p \in Owners(i), p.vec = [o.vec EXCEPT ![to] = @ \cup {"root"}], p.stack = o.stack,
         p.xrefs = o.xrefs, p.count = o.count
  PROVE  /\ OwnerInv(i, p, E, D)
         /\ \A c \in Places(i) : Analyzed(o, c) => Analyzed(p, c)
<1>1. o \in Owners(i)
  BY DEF OwnerInv
<1>2. o.vec \in [Places(i) -> (SUBSET Marks) \cup {NoCode}] /\ o.vec[to] \subseteq Marks
  BY <1>1, OwnerTypes
<1>6. p.vec[to] # NoCode
  BY <1>2, CodeAssumption DEF Marks
<1>7. \A c \in Places(i), m \in Marks : Has(o, c, m) => Has(p, c, m)
  BY <1>2, <1>6 DEF Has
<1>8. \A c \in Places(i) : /\ Lacks(o, c, "invalid") <=> Lacks(p, c, "invalid")
                           /\ Lacks(o, c, "loading") <=> Lacks(p, c, "loading")
                           /\ Has(o, c, "invalid") <=> Has(p, c, "invalid")
                           /\ Has(o, c, "loading") <=> Has(p, c, "loading")
                           /\ o.vec[c] = NoCode <=> p.vec[c] = NoCode
  BY <1>2, <1>6 DEF Has, Lacks
<1>9. Starts(p) = Starts(o) /\ Starts(o) \subseteq Places(i)
  BY <1>1, OwnerTypes DEF Starts
<1>10. \A c \in Places(i) : Counted(p, E, c) <=> Counted(o, E, c)
  BY <1>8, <1>9 DEF Counted, Doomed, Pending
<1>11. CountTells(i, p, E)
  <2>1. {c \in Places(i) : Counted(p, E, c)} = {c \in Places(i) : Counted(o, E, c)}
    BY <1>10
  <2> QED BY <2>1 DEF OwnerInv, CountTells
<1>12. \A c \in Places(i) : Certain(o, c) => Certain(p, c)
  BY <1>7, <1>8 DEF Certain, Called, Marks
<1>13. \A n \in DOMAIN o.stack : o.stack[n].start \in Places(i)
  BY <1>9 DEF Starts
<1>14. StackTells(i, p, E)
  BY <1>8, <1>9, <1>12, <1>13 DEF OwnerInv, StackTells
<1>15. LoadingTells(i, p, E)
  BY <1>7, <1>8, <1>9 DEF OwnerInv, LoadingTells, Pending, Called, Marks
<1>16. \A x \in o.xrefs : x.from \in Places(i) /\ x.to \in Nat
  BY <1>1, OwnerTypes DEF References
<1>17. XrefsTell(p)
  BY <1>8, <1>16 DEF OwnerInv, XrefsTell
<1>18. TakenTells(i, p, E)
  <2>1. \A x \in o.xrefs : x.to < i.size => x.to \in Places(i)
    BY <1>16, ImageTells DEF Places
  <2> QED BY <1>10, <2>1 DEF OwnerInv, TakenTells
<1>19. ShownTells(i, p, D)
  BY <1>8 DEF OwnerInv, ShownTells, Shown, Analyzed
<1>20. \A c \in Places(i) : Analyzed(o, c) => Analyzed(p, c)
  BY <1>8 DEF Analyzed
<1> QED BY <1>11, <1>14, <1>15, <1>17, <1>18, <1>19, <1>20 DEF OwnerInv

(* Only the instruction at one offset differs; one start more.               *)
SameElsewhere(i, o, p, to) == \A c \in Places(i) : c = to \/ p.vec[c] = o.vec[c]
AnalyzedStay(i, o, p) == \A c \in Places(i) : Analyzed(o, c) => Analyzed(p, c)
OneStartMore(o, p, to) == Starts(p) = Starts(o) \cup {to}

\* A target nobody has come to: its route has still to be pushed.
LEMMA TargetAllocated ==
  ASSUME NEW p, NEW i \in Images, NEW o, NEW D, NEW to \in Places(i), NEW E, E = {to},
         OwnerInv(i, o, {}, D), o.vec[to] = NoCode,
         p \in Owners(i), Has(p, to, "loading"), Lacks(p, to, "invalid"),
         SameElsewhere(i, o, p, to), p.stack = o.stack,
         p.xrefs = o.xrefs, p.count = o.count + 1
  PROVE  /\ OwnerInv(i, p, E, D)
         /\ to \notin Starts(o)
         /\ AnalyzedStay(i, o, p)
<1>1. o \in Owners(i)
  BY DEF OwnerInv
<1>2. o.vec \in [Places(i) -> (SUBSET Marks) \cup {NoCode}] /\ o.count \in Int
  BY <1>1, OwnerTypes
<1>7. \A c \in Places(i) \ {to} : p.vec[c] = o.vec[c]
  BY DEF SameElsewhere
<1>8. \A c \in Places(i) : \A m : /\ Has(o, c, m) => Has(p, c, m) /\ c # to
                                  /\ Lacks(o, c, m) => Lacks(p, c, m) /\ c # to
                                  /\ c # to /\ Has(p, c, m) => Has(o, c, m)
                                  /\ c # to /\ Lacks(p, c, m) => Lacks(o, c, m)
  BY <1>7 DEF Has, Lacks
<1>9. Starts(p) = Starts(o) /\ Starts(o) \subseteq Places(i)
  BY <1>1, OwnerTypes DEF Starts
<1>10. to \notin Starts(o)
  BY DEF OwnerInv, StackTells, Starts
<1>11. Counted(p, {to}, to) /\ ~Counted(o, {}, to)
  BY DEF Counted, Doomed, Lacks, Has
<1>12. \A c \in Places(i) \ {to} : Counted(p, {to}, c) <=> Counted(o, {}, c)
  BY <1>8, <1>9 DEF Counted, Doomed, Pending
<1>13. CountTells(i, p, {to})
  <2>1. {c \in Places(i) : Counted(p, {to}, c)} = {c \in Places(i) : Counted(o, {}, c)} \cup {to}
    BY <1>11, <1>12
  <2>2. /\ IsFiniteSet({c \in Places(i) : Counted(o, {}, c)})
        /\ to \notin {c \in Places(i) : Counted(o, {}, c)}
    BY <1>1, <1>11, SetsOfOwner
  <2>3. Cardinality({c \in Places(i) : Counted(p, {to}, c)})
          = Cardinality({c \in Places(i) : Counted(o, {}, c)}) + 1
    BY <2>1, <2>2, FS_AddElement
  <2> QED BY <2>3 DEF OwnerInv, CountTells
<1>14. \A c \in Places(i) : Called(o, c) => Called(p, c)
  BY DEF Called
<1>15. \A c \in Places(i) \ {to} : Certain(o, c) => Certain(p, c)
  BY <1>8, <1>14 DEF Certain
<1>16. \A n \in DOMAIN o.stack : o.stack[n].start \in Places(i) \ {to}
  BY <1>9, <1>10 DEF Starts
<1>17. StackTells(i, p, {to})
  BY <1>7, <1>9, <1>10, <1>15, <1>16 DEF OwnerInv, StackTells
<1>18. LoadingTells(i, p, {to})
  BY <1>8, <1>9, <1>14 DEF OwnerInv, LoadingTells, Pending
<1>19. \A x \in o.xrefs : x.from \in Places(i) /\ x.to \in Nat
  BY <1>1, OwnerTypes DEF References
<1>20. XrefsTell(p)
  BY <1>8, <1>19 DEF OwnerInv, XrefsTell
<1>21. TakenTells(i, p, {to})
  <2>1. \A x \in o.xrefs : x.to < i.size => x.to \in Places(i)
    BY <1>19, ImageTells DEF Places
  <2> QED BY <1>11, <1>12, <2>1 DEF OwnerInv, TakenTells
<1>22. ShownTells(i, p, D)
  <2>1. ~Analyzed(p, to)
    BY DEF Analyzed, Has, Lacks
  <2> QED BY <1>8, <2>1 DEF OwnerInv, ShownTells, Shown, Analyzed
<1>23. \A c \in Places(i) : Analyzed(o, c) => Analyzed(p, c)
  BY <1>8 DEF Analyzed
<1> QED BY <1>10, <1>13, <1>17, <1>18, <1>20, <1>21, <1>22, <1>23 DEF OwnerInv, AnalyzedStay

\* The route is pushed: it waits on the stack.
LEMMA RoutePushed ==
  ASSUME NEW p, NEW i \in Images, NEW o, NEW D, NEW r \in Routes(i), NEW to, NEW E,
         E = {to}, OwnerInv(i, o, E, D), r.start = to, r.list = {}, to % i.align = 0,
         o.vec[to] # NoCode,
         ~r.questionable => Certain(o, to),
         p \in Owners(i), p.vec = o.vec, p.stack = Append(o.stack, r), p.count = o.count,
         p.xrefs = o.xrefs
  PROVE  /\ OwnerInv(i, p, {}, D)
         /\ OneStartMore(o, p, to)
<1>1. o \in Owners(i)
  BY DEF OwnerInv
<1>2. o.stack \in Seq(Routes(i))
  BY <1>1, OwnerTypes
<1>7. /\ DOMAIN o.stack = 1 .. Len(o.stack) /\ DOMAIN p.stack = 1 .. (Len(o.stack) + 1)
      /\ Len(o.stack) \in Nat
      /\ p.stack[Len(o.stack) + 1] = r /\ \A n \in 1 .. Len(o.stack) : p.stack[n] = o.stack[n]
  BY <1>2
<1>8. Starts(p) = Starts(o) \cup {to}
  <2>1. ASSUME NEW k, k \in Starts(p) PROVE k \in Starts(o) \cup {to}
    <3>1. PICK n \in DOMAIN p.stack : k = p.stack[n].start
      BY <2>1 DEF Starts
    <3>2. CASE n = Len(o.stack) + 1
      BY <1>7, <3>1, <3>2
    <3>3. CASE n \in DOMAIN o.stack
      BY <1>7, <3>1, <3>3 DEF Starts
    <3> QED BY <1>7, <3>2, <3>3
  <2>2. Starts(o) \subseteq Starts(p)
    BY <1>7 DEF Starts
  <2>3. to \in Starts(p)
    BY <1>7 DEF Starts
  <2> QED BY <2>1, <2>2, <2>3
<1>9. \A c : Counted(p, {}, c) <=> Counted(o, {to}, c)
  BY <1>8 DEF Counted, Doomed, Pending, Has, Lacks
<1>10. CountTells(i, p, {})
  BY <1>9 DEF OwnerInv, CountTells
<1>11. to \notin Starts(o)
  BY DEF OwnerInv, StackTells
<1>12. \A c : Certain(o, c) => Certain(p, c)
  BY DEF Certain, Called, Has, Lacks
<1>13. StackTells(i, p, {})
  <2>1. \A n \in DOMAIN p.stack :
          /\ p.stack[n].list = {} /\ p.vec[p.stack[n].start] # NoCode
          /\ p.stack[n].start % i.align = 0
          /\ ~p.stack[n].questionable => Certain(p, p.stack[n].start)
    <3> SUFFICES ASSUME NEW n \in DOMAIN p.stack
                 PROVE  /\ p.stack[n].list = {} /\ p.vec[p.stack[n].start] # NoCode
                        /\ p.stack[n].start % i.align = 0
                        /\ ~p.stack[n].questionable => Certain(p, p.stack[n].start)
      OBVIOUS
    <3>1. CASE n = Len(o.stack) + 1
      BY <1>7, <1>12, <3>1
    <3>2. CASE n \in DOMAIN o.stack
      BY <1>7, <1>12, <3>2 DEF OwnerInv, StackTells
    <3> QED BY <1>7, <3>1, <3>2
  <2>2. \A n \in DOMAIN o.stack : p.stack[n].start # to
    BY <1>7, <1>11 DEF Starts
  <2>3. \A n, m \in DOMAIN p.stack : p.stack[n].start = p.stack[m].start => n = m
    <3> SUFFICES ASSUME NEW n \in DOMAIN p.stack, NEW m \in DOMAIN p.stack,
                        p.stack[n].start = p.stack[m].start
                 PROVE  n = m
      OBVIOUS
    <3>1. CASE n \in DOMAIN o.stack /\ m \in DOMAIN o.stack
      BY <1>7, <3>1 DEF OwnerInv, StackTells
    <3>2. CASE n \notin DOMAIN o.stack \/ m \notin DOMAIN o.stack
      BY <1>7, <2>2, <3>2
    <3> QED BY <3>1, <3>2
  <2> QED BY <2>1, <2>3 DEF StackTells
<1>14. LoadingTells(i, p, {})
  BY <1>8 DEF OwnerInv, LoadingTells, Pending, Called, Has, Lacks
<1>15. XrefsTell(p)
  BY DEF OwnerInv, XrefsTell, Has, Lacks
<1>16. TakenTells(i, p, {})
  BY <1>9 DEF OwnerInv, TakenTells
<1>17. ShownTells(i, p, D)
  BY DEF OwnerInv, ShownTells, Shown, Analyzed, Has, Lacks
<1> QED BY <1>8, <1>10, <1>13, <1>14, <1>15, <1>16, <1>17 DEF OwnerInv, OneStartMore

\* ARM: the pending route of what is read or written is given up, and is still
\* counted until it starts.
LEMMA PendingGivenUp ==
  ASSUME NEW p, NEW i \in Images, NEW o, NEW D, NEW to \in Places(i),
         OwnerInv(i, o, {}, D), Has(o, to, "loading"), ~Has(o, to, "root"),
         p \in Owners(i), p.vec = [o.vec EXCEPT ![to] = @ \cup {"invalid"}], p.stack = o.stack,
         p.xrefs = o.xrefs, p.count = o.count
  PROVE  /\ OwnerInv(i, p, {}, D)
         /\ AnalyzedStay(i, o, p)
<1>1. o \in Owners(i)
  BY DEF OwnerInv
<1>2. o.vec \in [Places(i) -> (SUBSET Marks) \cup {NoCode}] /\ o.vec[to] \subseteq Marks
  BY <1>1, OwnerTypes DEF Has
<1>6. p.vec[to] = o.vec[to] \cup {"invalid"} /\ p.vec[to] # NoCode
  BY <1>2, CodeAssumption DEF Marks
<1>7. \A c \in Places(i) \ {to} : p.vec[c] = o.vec[c]
  BY <1>2
<1>8. \A c \in Places(i) \ {to} : \A m :
        (Has(o, c, m) <=> Has(p, c, m)) /\ (Lacks(o, c, m) <=> Lacks(p, c, m))
  BY <1>7 DEF Has, Lacks
<1>9. Has(p, to, "loading") /\ Has(p, to, "invalid") /\ ~Has(p, to, "root")
  BY <1>6 DEF Has
<1>10. Starts(p) = Starts(o) /\ Starts(o) \subseteq Places(i)
  BY <1>1, OwnerTypes DEF Starts
<1>11. Counted(p, {}, to) <=> Counted(o, {}, to)
  <2>1. CASE Has(o, to, "invalid")
    BY <1>9, <1>10, <2>1 DEF Counted, Doomed, Pending, Has, Lacks
  <2>2. CASE Lacks(o, to, "invalid")
    <3>1. to \in Pending(o, {})
      BY <2>2 DEF OwnerInv, LoadingTells
    <3> QED BY <1>9, <1>10, <2>2, <3>1 DEF Counted, Doomed, Pending
  <2> QED BY <2>1, <2>2 DEF Has, Lacks
<1>12. \A c \in Places(i) : Counted(p, {}, c) <=> Counted(o, {}, c)
  BY <1>8, <1>10, <1>11 DEF Counted, Doomed, Pending
<1>13. CountTells(i, p, {})
  <2>1. {c \in Places(i) : Counted(p, {}, c)} = {c \in Places(i) : Counted(o, {}, c)}
    BY <1>12
  <2> QED BY <2>1 DEF OwnerInv, CountTells
<1>14. \A c \in Places(i) : Certain(o, c) => Certain(p, c)
  <2>1. ~Certain(o, to)
    BY DEF Certain
  <2> QED BY <1>8, <2>1 DEF Certain, Called
<1>15. \A n \in DOMAIN o.stack : o.stack[n].start \in Places(i)
  BY <1>10 DEF Starts
<1>16. StackTells(i, p, {})
  <2>1. \A c \in Places(i) : o.vec[c] # NoCode => p.vec[c] # NoCode
    BY <1>6, <1>7
  <2> QED BY <1>14, <1>15, <2>1 DEF OwnerInv, StackTells
<1>17. LoadingTells(i, p, {})
  <2>1. ~Lacks(p, to, "invalid")
    BY <1>9 DEF Has, Lacks
  <2> QED BY <1>8, <1>10, <2>1 DEF OwnerInv, LoadingTells, Pending, Called
<1>18. \A x \in o.xrefs : x.from \in Places(i) /\ x.to \in Nat
  BY <1>1, OwnerTypes DEF References
<1>19. XrefsTell(p)
  <2>1. ~Lacks(o, to, "loading")
    BY DEF Has, Lacks
  <2> QED BY <1>8, <1>18, <2>1 DEF OwnerInv, XrefsTell
<1>20. TakenTells(i, p, {})
  <2>1. \A x \in o.xrefs : x.to < i.size => x.to \in Places(i)
    BY <1>18, ImageTells DEF Places
  <2> QED BY <1>12, <2>1 DEF OwnerInv, TakenTells
<1>21. ~Analyzed(p, to) /\ ~Analyzed(o, to)
  BY <1>9 DEF Analyzed, Has, Lacks
<1>22. \A c \in Places(i) : Analyzed(o, c) <=> Analyzed(p, c)
  BY <1>8, <1>21 DEF Analyzed
<1>23. ShownTells(i, p, D)
  BY <1>22 DEF OwnerInv, ShownTells, Shown
<1> QED BY <1>13, <1>16, <1>17, <1>19, <1>20, <1>22, <1>23 DEF OwnerInv, AnalyzedStay

------------------------------------------------------------------------------
(* The references of an instruction.                                         *)

(* What the references of the instruction at k, added to o, leave in p.      *)
Delta(i, o, p, k) ==
  /\ Starts(o) \subseteq Starts(p)
  /\ \A j \in Places(i) :
       /\ o.vec[j] # NoCode => p.vec[j] # NoCode
       /\ Has(p, j, "loading") => Has(o, j, "loading") \/ j \in Starts(p)
       /\ Lacks(o, j, "invalid") => \/ Lacks(p, j, "invalid")
                                    \/ i.align > 1 /\ i.code[k].kind = "read" /\ i.code[k].to = j
       /\ o.vec[j] = NoCode /\ p.vec[j] # NoCode =>
            Lacks(p, j, "invalid") /\ Has(p, j, "loading") /\ j \in Starts(p)
       /\ Lacks(p, j, "loading") => Lacks(o, j, "loading")
       /\ Analyzed(o, j) => Analyzed(p, j)

\* The same instructions and the same stack.
LEMMA SameDelta ==
  ASSUME NEW i, NEW o, NEW p, NEW k, p.vec = o.vec, p.stack = o.stack
  PROVE  Delta(i, o, p, k)
BY DEF Delta, Starts, Has, Lacks, Analyzed

\* Only an address taken and an access to data have to be shown.
LEMMA NothingToShow ==
  ASSUME NEW i, NEW o, NEW E, NEW k, OwnerInv(i, o, E, {k}), i.code[k].kind \notin {"take", "read"}
  PROVE  OwnerInv(i, o, E, {})
BY DEF OwnerInv, ShownTells

\* A route of its own for a new target, a reference to one that is there.
LEMMA RouteSaved ==
  ASSUME image \in Images, NEW o, NEW k \in Places(image), NEW to \in Places(image), NEW p,
         NEW q \in BOOLEAN, NEW taken \in BOOLEAN, taken => q,
         OwnerInv(image, o, {}, {k}), Analyzed(o, k),
         to = image.code[k].to, taken \/ image.code[k].kind \in {"jmp", "call"},
         p = SaveNewRoute(o, k, to, q, taken)
  PROVE  /\ OwnerInv(image, p, {}, {}) /\ Delta(image, o, p, k)
         /\ Aligned(to) => p.vec[to] # NoCode
<1> DEFINE new == QueryOrAllocateInstruction(o, to, {"loading"})
           rooted == IF q THEN new ELSE [new EXCEPT !.vec[to] = @ \cup {"root"}]
           x == [from |-> k, to |-> to, data |-> FALSE, taken |-> taken, gone |-> FALSE]
           linked == [rooted EXCEPT !.xrefs = @ \cup {x}]
           y == [from |-> k, to |-> to, data |-> TRUE, taken |-> TRUE, gone |-> FALSE]
<1>1. /\ to \in Nat /\ o \in Owners(image)
      /\ o.vec \in [Places(image) -> (SUBSET Marks) \cup {NoCode}]
  BY OwnerTypes DEF Places, OwnerInv
<1>2. /\ x \in References(image) /\ x.from = k /\ x.to = to /\ ~x.data /\ (x.taken <=> taken)
      /\ ~x.gone
      /\ y \in References(image) /\ y.from = k /\ y.to = to /\ y.data /\ y.taken /\ ~y.gone
  BY <1>1 DEF References
<1>3. CASE ~Aligned(to) /\ ~taken
  <2>1. p = o
    BY <1>3 DEF SaveNewRoute
  <2>2. image.code[k].kind \notin {"take", "read"}
    BY <1>3
  <2>3. OwnerInv(image, o, {}, {})
    BY <2>2, NothingToShow
  <2> QED BY <1>3, <2>1, <2>3, SameDelta
<1>4. CASE \/ ~Aligned(to) /\ taken
           \/ Aligned(to) /\ taken /\ Has(o, to, "invalid")
  <2>1. p = [o EXCEPT !.xrefs = @ \cup {y}]
    BY <1>4 DEF SaveNewRoute, SaveDataXRef, CreateXRef, Has
  <2> HIDE DEF y
  <2>2. /\ p \in Owners(image) /\ p.vec = o.vec /\ p.stack = o.stack /\ p.count = o.count
        /\ p.xrefs = o.xrefs \cup {y}
    BY <1>1, <1>2, <2>1, XRefAdded
  <2>3. OwnerInv(image, p, {}, {})
    BY <1>2, <2>2, XRefCreated
  <2>4. Aligned(to) => p.vec[to] # NoCode
    BY <1>4, <2>2 DEF Has
  <2> QED BY <2>2, <2>3, <2>4, SameDelta
<1>5. CASE Aligned(to) /\ o.vec[to] # NoCode /\ ~(taken /\ Has(o, to, "invalid"))
  <2>1. p = linked /\ new = o
    BY <1>5 DEF SaveNewRoute, QueryOrAllocateInstruction, CreateXRef, Has
  <2>2. rooted = IF q THEN o ELSE [o EXCEPT !.vec[to] = @ \cup {"root"}]
    BY <2>1
  <2>3. o.vec[to] \subseteq Marks /\ o.vec[to] \cup {"root"} \in SUBSET Marks
    BY <1>1, <1>5 DEF Marks
  <2> HIDE DEF new, x
  <2>4. /\ OwnerInv(image, rooted, {}, {k}) /\ Analyzed(rooted, k) /\ rooted.stack = o.stack
        /\ rooted.vec = IF q THEN o.vec ELSE [o.vec EXCEPT ![to] = @ \cup {"root"}]
    <3>1. CASE q
      BY <2>2, <3>1
    <3>2. CASE ~q
      <4>1. rooted = [o EXCEPT !.vec[to] = o.vec[to] \cup {"root"}]
        BY <2>2, <3>2
      <4> HIDE DEF rooted
      <4>2. /\ rooted \in Owners(image)
            /\ rooted.vec = [o.vec EXCEPT ![to] = o.vec[to] \cup {"root"}]
            /\ rooted.stack = o.stack /\ rooted.xrefs = o.xrefs /\ rooted.count = o.count
        <5>1. /\ rooted.vec = [o.vec EXCEPT ![to] = o.vec[to] \cup {"root"}]
              /\ rooted.stack = o.stack /\ rooted.xrefs = o.xrefs /\ rooted.count = o.count
              /\ DOMAIN rooted = DOMAIN o
          BY <1>1, <4>1 DEF Owners
        <5>2. rooted.vec \in [Places(image) -> (SUBSET Marks) \cup {NoCode}]
          BY <1>1, <2>3, <5>1
        <5> QED BY <1>1, <4>1, <5>1, <5>2 DEF Owners
      <4>3. OwnerInv(image, rooted, {}, {k}) /\ Analyzed(rooted, k)
        BY <1>5, <4>2, RootMarked
      <4> QED BY <3>2, <4>2, <4>3
    <3> QED BY <3>1, <3>2
  <2> HIDE DEF rooted
  <2>5. taken => Counted(rooted, {}, to)
    BY <1>5, <2>4 DEF Counted, Lacks, Has
  <2>6. rooted \in Owners(image)
    BY <2>4 DEF OwnerInv
  <2>7. /\ p \in Owners(image) /\ p.vec = rooted.vec /\ p.stack = rooted.stack
        /\ p.count = rooted.count /\ p.xrefs = rooted.xrefs \cup {x}
    BY <1>2, <2>1, <2>6, XRefAdded
  <2>8. OwnerInv(image, p, {}, {})
    <3>1. OwnerInv(image, p, {}, {k}) /\ (taken => OwnerInv(image, p, {}, {}))
      BY <1>2, <2>4, <2>5, <2>7, XRefCreated
    <3>2. image.code[k].kind \in {"jmp", "call"} => OwnerInv(image, p, {}, {})
      BY <3>1, NothingToShow
    <3> QED BY <3>1, <3>2
  <2>9. p.vec[to] = o.vec[to] \/ p.vec[to] = o.vec[to] \cup {"root"}
    BY <1>1, <2>4, <2>7
  <2>10. p.vec[to] # NoCode
    BY <1>5, <2>3, <2>9, CodeAssumption
  <2>11. Delta(image, o, p, k)
    <3>1. \A c \in Places(image) \ {to} : p.vec[c] = o.vec[c]
      BY <1>1, <2>4, <2>7
    <3>2. Starts(p) = Starts(o)
      BY <2>4, <2>7 DEF Starts
    <3>3. \A c \in Places(image), m \in {"loading", "invalid"} :
            (Has(p, c, m) <=> Has(o, c, m)) /\ (Lacks(p, c, m) <=> Lacks(o, c, m))
      BY <1>5, <2>9, <2>10, <3>1 DEF Has, Lacks
    <3>4. \A c \in Places(image) : Analyzed(o, c) => Analyzed(p, c)
      BY <3>3 DEF Analyzed
    <3> QED BY <1>5, <2>10, <3>1, <3>2, <3>3, <3>4 DEF Delta
  <2> QED BY <2>8, <2>10, <2>11
<1>6. CASE Aligned(to) /\ o.vec[to] = NoCode
  <2> DEFINE r == Route(to, q)
             E == {to}
  <2>0. E = {to}
    OBVIOUS
  <2> HIDE DEF E
  <2>1. p = [linked EXCEPT !.stack = Append(@, r)]
    BY <1>6 DEF SaveNewRoute, CreateXRef, Has
  <2>2. r \in Routes(image) /\ r.start = to /\ (r.questionable <=> q) /\ r.list = {}
    BY DEF Route, Routes
  <2> HIDE DEF r, x
  <2>3. {"loading"} \in SUBSET Marks /\ {"loading", "root"} \in SUBSET Marks
    BY DEF Marks
  <2>4. /\ new \in Owners(image) /\ new.vec = [o.vec EXCEPT ![to] = {"loading"}]
        /\ new.stack = o.stack /\ new.xrefs = o.xrefs /\ new.count = o.count + 1
    <3>1. new = [o EXCEPT !.vec[to] = {"loading"}, !.count = @ + 1]
      BY <1>6 DEF QueryOrAllocateInstruction
    <3>2. /\ new.vec = [o.vec EXCEPT ![to] = {"loading"}] /\ new.stack = o.stack
          /\ new.xrefs = o.xrefs /\ new.count = o.count + 1
      BY <1>1, <3>1 DEF Owners
    <3>3. new.vec \in [Places(image) -> (SUBSET Marks) \cup {NoCode}] /\ new.count \in Int
      BY <1>1, <2>3, <3>2, OwnerTypes
    <3>4. /\ DOMAIN new = {"vec", "xrefs", "count", "stack"}
          /\ new = [f \in {"vec", "xrefs", "count", "stack"} |-> new[f]]
      BY <1>1, <3>1 DEF Owners
    <3>5. o.xrefs \in SUBSET References(image) /\ o.stack \in Seq(Routes(image))
      BY <1>1, OwnerTypes
    <3> HIDE DEF new
    <3>6. new \in Owners(image)
      BY <3>2, <3>3, <3>4, <3>5 DEF Owners
    <3> QED BY <3>2, <3>6
  <2> HIDE DEF new
  <2>5. new.vec[to] = {"loading"} /\ new.vec[to] # NoCode
    BY <1>1, <2>3, <2>4, CodeAssumption
  <2>6. /\ OwnerInv(image, new, E, {k}) /\ to \notin Starts(o) /\ Analyzed(new, k)
    <3>1. SameElsewhere(image, o, new, to)
      BY <1>1, <2>4 DEF SameElsewhere
    <3>2. Has(new, to, "loading") /\ Lacks(new, to, "invalid")
      BY <2>5 DEF Has, Lacks
    <3>3. /\ new.count = o.count + 1 /\ new \in Owners(image) /\ new.stack = o.stack
          /\ new.xrefs = o.xrefs
      BY <2>4
    <3>4. OwnerInv(image, new, E, {k}) /\ to \notin Starts(o) /\ AnalyzedStay(image, o, new)
      BY <1>6, <2>0, <3>1, <3>2, <3>3, TargetAllocated
    <3> QED BY <3>4 DEF AnalyzedStay
  <2>7. /\ OwnerInv(image, rooted, E, {k}) /\ rooted.stack = o.stack /\ Analyzed(rooted, k)
        /\ rooted.vec = [o.vec EXCEPT ![to] = IF q THEN {"loading"} ELSE {"loading", "root"}]
    <3>1. CASE q
      BY <2>4, <2>6, <3>1
    <3>2. CASE ~q
      <4>1. rooted = [new EXCEPT !.vec[to] = {"loading", "root"}]
        BY <2>5, <3>2
      <4> HIDE DEF rooted
      <4>2. /\ rooted \in Owners(image) /\ rooted.vec = [new.vec EXCEPT ![to] = {"loading", "root"}]
            /\ rooted.stack = new.stack /\ rooted.xrefs = new.xrefs /\ rooted.count = new.count
        <5>1. /\ rooted.vec = [new.vec EXCEPT ![to] = {"loading", "root"}]
              /\ rooted.stack = new.stack /\ rooted.xrefs = new.xrefs /\ rooted.count = new.count
          BY <2>4, <4>1 DEF Owners
        <5>2. rooted.vec \in [Places(image) -> (SUBSET Marks) \cup {NoCode}]
          BY <1>1, <2>3, <2>4, <5>1
        <5> QED BY <2>4, <4>1, <5>1, <5>2 DEF Owners
      <4>3. rooted.vec = [new.vec EXCEPT ![to] = @ \cup {"root"}]
        BY <2>5, <4>2
      <4>4. OwnerInv(image, rooted, E, {k}) /\ Analyzed(rooted, k)
        BY <2>5, <2>6, <4>2, <4>3, RootMarked
      <4>5. rooted.vec = [o.vec EXCEPT ![to] = {"loading", "root"}]
        BY <1>1, <2>4, <4>2
      <4> QED BY <2>4, <3>2, <4>2, <4>4, <4>5
    <3> QED BY <3>1, <3>2
  <2> HIDE DEF rooted
  <2>8. /\ rooted.vec[to] = IF q THEN {"loading"} ELSE {"loading", "root"}
        /\ rooted.vec[to] # NoCode
        /\ \A c \in Places(image) \ {to} : rooted.vec[c] = o.vec[c]
    BY <1>1, <2>3, <2>7, CodeAssumption
  <2>9. Counted(rooted, E, to)
    BY <2>8 DEF Counted, Lacks
  <2>10. rooted \in Owners(image)
    BY <2>7 DEF OwnerInv
  <2>11. /\ linked \in Owners(image) /\ linked.vec = rooted.vec /\ linked.stack = rooted.stack
         /\ linked.count = rooted.count /\ linked.xrefs = rooted.xrefs \cup {x}
    BY <1>2, <2>10, XRefAdded
  <2> HIDE DEF linked
  <2>12. OwnerInv(image, linked, E, {}) /\ (~taken => Called(linked, to))
    <3>1. /\ OwnerInv(image, linked, E, {k}) /\ (taken => OwnerInv(image, linked, E, {}))
          /\ ~taken => Called(linked, to)
      BY <1>2, <2>7, <2>9, <2>11, XRefCreated
    <3>2. image.code[k].kind \in {"jmp", "call"} => OwnerInv(image, linked, E, {})
      BY <3>1, NothingToShow
    <3> QED BY <3>1, <3>2
  <2>13. ~q => Certain(linked, to)
    BY <2>8, <2>11, <2>12 DEF Certain, Has, Lacks
  <2>14. to % image.align = 0
    BY <1>6 DEF Aligned
  <2>15. /\ p \in Owners(image) /\ p.vec = linked.vec /\ p.stack = Append(linked.stack, r)
         /\ p.count = linked.count /\ p.xrefs = linked.xrefs
    BY <2>1, <2>2, <2>11, RouteAdded
  <2>16. linked.vec[to] # NoCode
    BY <2>8, <2>11
  <2>17. OwnerInv(image, p, {}, {}) /\ Starts(p) = Starts(linked) \cup {to}
    <3>1. ~r.questionable => Certain(linked, to)
      BY <2>2, <2>13
    <3>2. r \in Routes(image) /\ r.start = to /\ r.list = {} /\ OwnerInv(image, linked, E, {})
      BY <2>2, <2>12
    <3>3. OwnerInv(image, p, {}, {}) /\ OneStartMore(linked, p, to)
      BY <2>0, <2>14, <2>15, <2>16, <3>1, <3>2, RoutePushed
    <3> QED BY <3>3 DEF OneStartMore
  <2>18. Starts(linked) = Starts(o)
    BY <2>7, <2>11 DEF Starts
  <2>19. Delta(image, o, p, k)
    <3>1. Has(p, to, "loading") /\ Lacks(p, to, "invalid") /\ to \in Starts(p)
      BY <2>8, <2>11, <2>15, <2>17 DEF Has, Lacks
    <3>2. ~Lacks(p, to, "loading") /\ ~Lacks(o, to, "invalid") /\ ~Analyzed(o, to)
      BY <1>6, <3>1 DEF Has, Lacks, Analyzed
    <3>3. \A c \in Places(image) \ {to} : p.vec[c] = o.vec[c]
      BY <2>8, <2>11, <2>15
    <3>4. \A c \in Places(image) \ {to} : \A m :
            (Has(p, c, m) <=> Has(o, c, m)) /\ (Lacks(p, c, m) <=> Lacks(o, c, m))
      BY <3>3 DEF Has, Lacks
    <3>5. \A c \in Places(image) \ {to} : Analyzed(o, c) => Analyzed(p, c)
      BY <3>4 DEF Analyzed
    <3> QED BY <1>6, <2>17, <2>18, <3>1, <3>2, <3>3, <3>4, <3>5 DEF Delta
  <2> QED BY <2>8, <2>11, <2>15, <2>17, <2>19
<1> QED BY <1>3, <1>4, <1>5, <1>6 DEF Has

\* An access to data leaves a reference to data; on ARM it may give a route up.
LEMMA AccessSaved ==
  ASSUME image \in Images, NEW o, NEW k \in Places(image), NEW to \in Places(image), NEW p,
         OwnerInv(image, o, {}, {k}), Analyzed(o, k),
         to = image.code[k].to, image.code[k].kind = "read", p = SaveDataAccess(o, k, to)
  PROVE  OwnerInv(image, p, {}, {}) /\ Delta(image, o, p, k)
<1> DEFINE pending == Arm /\ Has(o, to, "loading") /\ "root" \notin o.vec[to]
           marked == IF pending THEN [o EXCEPT !.vec[to] = @ \cup {"invalid"}] ELSE o
           y == [from |-> k, to |-> to, data |-> TRUE, taken |-> FALSE, gone |-> FALSE]
<1>1. /\ to \in Nat /\ o \in Owners(image)
      /\ o.vec \in [Places(image) -> (SUBSET Marks) \cup {NoCode}]
  BY OwnerTypes DEF Places, OwnerInv
<1>2. y \in References(image) /\ y.from = k /\ y.to = to /\ y.data /\ ~y.taken /\ ~y.gone
  BY <1>1 DEF References
<1>3. p = [marked EXCEPT !.xrefs = @ \cup {y}]
  BY DEF SaveDataAccess, SaveDataXRef, CreateXRef, Has
<1>4. CASE ~pending
  <2>1. p = [o EXCEPT !.xrefs = @ \cup {y}]
    BY <1>3, <1>4
  <2> HIDE DEF y
  <2>2. /\ p \in Owners(image) /\ p.vec = o.vec /\ p.stack = o.stack /\ p.count = o.count
        /\ p.xrefs = o.xrefs \cup {y}
    BY <1>1, <1>2, <2>1, XRefAdded
  <2>3. OwnerInv(image, p, {}, {})
    BY <1>2, <2>2, XRefCreated
  <2> QED BY <2>2, <2>3, SameDelta
<1>5. CASE pending
  <2>1. marked = [o EXCEPT !.vec[to] = o.vec[to] \cup {"invalid"}]
    BY <1>5
  <2>2. Has(o, to, "loading") /\ ~Has(o, to, "root") /\ image.align > 1
    BY <1>5 DEF Has, Arm
  <2>3. o.vec[to] \cup {"invalid"} \in SUBSET Marks
    BY <1>1, <2>2 DEF Marks, Has
  <2> HIDE DEF pending, marked, y
  <2>4. /\ marked \in Owners(image)
        /\ marked.vec = [o.vec EXCEPT ![to] = o.vec[to] \cup {"invalid"}]
        /\ marked.stack = o.stack /\ marked.xrefs = o.xrefs /\ marked.count = o.count
    <3>1. /\ marked.vec = [o.vec EXCEPT ![to] = o.vec[to] \cup {"invalid"}]
          /\ marked.stack = o.stack /\ marked.xrefs = o.xrefs /\ marked.count = o.count
          /\ DOMAIN marked = DOMAIN o
      BY <1>1, <2>1 DEF Owners
    <3>2. marked.vec \in [Places(image) -> (SUBSET Marks) \cup {NoCode}]
      BY <1>1, <2>3, <3>1
    <3> QED BY <1>1, <2>1, <3>1, <3>2 DEF Owners
  <2>5. OwnerInv(image, marked, {}, {k}) /\ AnalyzedStay(image, o, marked)
    BY <2>2, <2>4, PendingGivenUp
  <2>6. Analyzed(marked, k)
    BY <2>5 DEF AnalyzedStay
  <2>7. /\ p \in Owners(image) /\ p.vec = marked.vec /\ p.stack = marked.stack
        /\ p.count = marked.count /\ p.xrefs = marked.xrefs \cup {y}
    BY <1>2, <1>3, <2>4, XRefAdded
  <2>8. OwnerInv(image, p, {}, {})
    BY <1>2, <2>5, <2>6, <2>7, XRefCreated
  <2>9. Delta(image, o, p, k)
    <3>1. \A c \in Places(image) \ {to} : p.vec[c] = o.vec[c]
      BY <1>1, <2>4, <2>7
    <3>2. p.vec[to] = o.vec[to] \cup {"invalid"} /\ p.vec[to] # NoCode /\ o.vec[to] # NoCode
      <4>1. p.vec[to] = o.vec[to] \cup {"invalid"} /\ o.vec[to] # NoCode
        BY <1>1, <2>2, <2>4, <2>7 DEF Has
      <4>2. o.vec[to] \cup {"invalid"} # NoCode
        BY <2>3, CodeAssumption
      <4> QED BY <4>1, <4>2
    <3>3. Starts(p) = Starts(o)
      BY <2>4, <2>7 DEF Starts
    <3>4. \A c \in Places(image) : /\ Has(p, c, "loading") <=> Has(o, c, "loading")
                                   /\ Lacks(p, c, "loading") <=> Lacks(o, c, "loading")
                                   /\ c # to /\ Lacks(o, c, "invalid") => Lacks(p, c, "invalid")
      BY <3>1, <3>2 DEF Has, Lacks
    <3>5. \A c \in Places(image) : Analyzed(o, c) => Analyzed(p, c)
      BY <2>5, <2>7 DEF AnalyzedStay, Analyzed, Lacks
    <3> QED BY <2>2, <3>1, <3>2, <3>3, <3>4, <3>5 DEF Delta
  <2> QED BY <2>8, <2>9
<1> QED BY <1>4, <1>5

\* What refers to outside of the module leaves a reference.
LEMMA ExternalSaved ==
  ASSUME image \in Images, NEW o, NEW k \in Places(image), NEW data \in BOOLEAN,
         NEW taken \in BOOLEAN, NEW p,
         OwnerInv(image, o, {}, {k}), Analyzed(o, k), ~Inside(image.code[k].to),
         data \/ taken \/ image.code[k].kind \in {"jmp", "call"},
         p = SaveNewExternalRoute(o, k, image.code[k].to, data, taken)
  PROVE  OwnerInv(image, p, {}, {}) /\ Delta(image, o, p, k)
<1> DEFINE y == [from |-> k, to |-> image.code[k].to, data |-> data, taken |-> taken,
                 gone |-> FALSE]
<1>1. o \in Owners(image) /\ image.code[k].to \in Nat /\ image.size \in Nat
  BY ImageTells DEF OwnerInv
<1>2. /\ y \in References(image) /\ y.from = k /\ y.to = image.code[k].to /\ ~y.gone
      /\ ~(y.to < image.size)
  BY <1>1 DEF References, Inside
<1>3. p = [o EXCEPT !.xrefs = @ \cup {y}]
  BY DEF SaveNewExternalRoute, CreateXRef
<1> HIDE DEF y
<1>4. /\ p \in Owners(image) /\ p.vec = o.vec /\ p.stack = o.stack /\ p.count = o.count
      /\ p.xrefs = o.xrefs \cup {y}
  BY <1>1, <1>2, <1>3, XRefAdded
<1>5. OwnerInv(image, p, {}, {})
  <2>1. y.data = data /\ y.taken = taken
    BY DEF y
  <2>2. OwnerInv(image, p, {}, {k}) /\ (data \/ taken => OwnerInv(image, p, {}, {}))
    BY <1>2, <1>4, <2>1, XRefCreated
  <2>3. image.code[k].kind \in {"jmp", "call"} => OwnerInv(image, p, {}, {})
    BY <2>2, NothingToShow
  <2> QED BY <2>2, <2>3
<1> QED BY <1>4, <1>5, SameDelta

\* The references of an instruction by its kind.
LEMMA ReferencesSaved ==
  ASSUME image \in Images, NEW o, NEW k \in Places(image), NEW p, cur.questionable \in BOOLEAN,
         OwnerInv(image, o, {}, {k}), Analyzed(o, k), p = SaveReferences(o, k)
  PROVE  /\ OwnerInv(image, p, {}, {}) /\ Delta(image, o, p, k)
         /\ image.code[k].kind \in {"jmp", "call"} /\ image.code[k].to \in Places(image)
            /\ Aligned(image.code[k].to) => p.vec[image.code[k].to] # NoCode
<1> DEFINE to == image.code[k].to
           kind == image.code[k].kind
           t == TRUE
           f == FALSE
           q == cur.questionable
<1>1. to \in Nat /\ (Inside(to) <=> to \in Places(image))
  BY ImageTells DEF Inside, Places
<1>2. t \in BOOLEAN /\ f \in BOOLEAN /\ t /\ ~f /\ q \in BOOLEAN
  OBVIOUS
<1>3. CASE kind = "take" /\ Inside(to)
  <2>1. p = SaveNewRoute(o, k, to, t, t)
    BY <1>3 DEF SaveReferences, Word
  <2> HIDE DEF t, f, q
  <2>2. to \in Places(image)
    BY <1>1, <1>3
  <2> QED BY <1>2, <1>3, <2>1, <2>2, RouteSaved
<1>4. CASE kind = "take" /\ ~Inside(to)
  <2>1. p = SaveNewExternalRoute(o, k, to, f, t)
    BY <1>4 DEF SaveReferences, Word
  <2> HIDE DEF t, f, q
  <2> QED BY <1>2, <1>4, <2>1, ExternalSaved
<1>5. CASE kind = "read" /\ Inside(to)
  <2>1. p = SaveDataAccess(o, k, to)
    BY <1>5 DEF SaveReferences, Word
  <2>2. to \in Places(image)
    BY <1>1, <1>5
  <2> QED BY <1>5, <2>1, <2>2, AccessSaved
<1>6. CASE kind = "read" /\ ~Inside(to)
  <2>1. p = SaveNewExternalRoute(o, k, to, t, f)
    BY <1>6 DEF SaveReferences, Word
  <2> HIDE DEF t, f, q
  <2> QED BY <1>2, <1>6, <2>1, ExternalSaved
<1>7. CASE kind \in {"jmp", "call"} /\ Inside(to)
  <2>1. p = SaveNewRoute(o, k, to, q, f)
    BY <1>7 DEF SaveReferences, Word
  <2> HIDE DEF t, f, q
  <2>2. to \in Places(image)
    BY <1>1, <1>7
  <2> QED BY <1>2, <1>7, <2>1, <2>2, RouteSaved
<1>8. CASE kind \in {"jmp", "call"} /\ ~Inside(to)
  <2>1. p = SaveNewExternalRoute(o, k, to, f, f)
    BY <1>8 DEF SaveReferences, Word
  <2> HIDE DEF t, f, q
  <2> QED BY <1>1, <1>2, <1>8, <2>1, ExternalSaved
<1>9. CASE kind \notin {"take", "read", "jmp", "call"}
  <2>1. p = o
    BY <1>9 DEF SaveReferences, Word
  <2>2. OwnerInv(image, o, {}, {})
    BY <1>9, NothingToShow
  <2> QED BY <1>9, <2>1, <2>2, SameDelta
<1> QED BY <1>3, <1>4, <1>5, <1>6, <1>7, <1>8, <1>9

------------------------------------------------------------------------------
(* The instruction itself.                                                   *)

Unregistered(o, k) ==
  o.vec[k] = NoCode \/ (Has(o, k, "loading") /\ Lacks(o, k, "invalid"))

\* An instruction is registered where there was none, or at the start of a route
\* that waits: it is counted once.
LEMMA InstructionMade ==
  ASSUME NEW p, NEW i \in Images, NEW o, NEW E, NEW k \in Places(i),
         OwnerInv(i, o, E, {}), E \subseteq {k}, Unregistered(o, k),
         p \in Owners(i), Analyzed(p, k), SameElsewhere(i, o, p, k), p.stack = o.stack,
         p.xrefs = o.xrefs, p.count = IF o.vec[k] = NoCode THEN o.count + 1 ELSE o.count
  PROVE  OwnerInv(i, p, {}, {k})
<1>1. o \in Owners(i)
  BY DEF OwnerInv
<1>2. o.vec \in [Places(i) -> (SUBSET Marks) \cup {NoCode}] /\ o.count \in Int
  BY <1>1, OwnerTypes
<1>3. \A c \in Places(i) \ {k} : p.vec[c] = o.vec[c]
  BY DEF SameElsewhere
<1>4. \A c \in Places(i) \ {k} : \A m : /\ Has(o, c, m) <=> Has(p, c, m)
                                        /\ Lacks(o, c, m) <=> Lacks(p, c, m)
  BY <1>3 DEF Has, Lacks
<1>5. Starts(p) = Starts(o) /\ Starts(o) \subseteq Places(i)
  BY <1>1, OwnerTypes DEF Starts
<1>6. Counted(p, {}, k) /\ (Counted(o, E, k) <=> o.vec[k] # NoCode)
  BY DEF Counted, Doomed, Lacks, Has, Analyzed, Unregistered
<1>7. \A c \in Places(i) \ {k} : Counted(p, {}, c) <=> Counted(o, E, c)
  BY <1>4, <1>5 DEF Counted, Doomed, Pending
<1>8. CountTells(i, p, {})
  <2>1. CASE o.vec[k] = NoCode
    <3>1. {c \in Places(i) : Counted(p, {}, c)} = {c \in Places(i) : Counted(o, E, c)} \cup {k}
      BY <1>6, <1>7
    <3>2. /\ IsFiniteSet({c \in Places(i) : Counted(o, E, c)})
          /\ k \notin {c \in Places(i) : Counted(o, E, c)}
      BY <1>1, <1>6, <2>1, SetsOfOwner
    <3>3. Cardinality({c \in Places(i) : Counted(p, {}, c)})
            = Cardinality({c \in Places(i) : Counted(o, E, c)}) + 1
      BY <3>1, <3>2, FS_AddElement
    <3> QED BY <2>1, <3>3 DEF OwnerInv, CountTells
  <2>2. CASE o.vec[k] # NoCode
    <3>1. {c \in Places(i) : Counted(p, {}, c)} = {c \in Places(i) : Counted(o, E, c)}
      BY <1>6, <1>7, <2>2
    <3> QED BY <2>2, <3>1 DEF OwnerInv, CountTells
  <2> QED BY <2>1, <2>2
<1>9. \A c \in Places(i) : Called(o, c) => Called(p, c)
  BY DEF Called
<1>10. \A c \in Places(i) : Certain(o, c) => Certain(p, c)
  BY <1>4, <1>9 DEF Certain, Analyzed, Has, Lacks
<1>11. \A n \in DOMAIN o.stack : o.stack[n].start \in Places(i)
  BY <1>5 DEF Starts
<1>12. StackTells(i, p, {})
  <2>1. \A c \in Places(i) : o.vec[c] # NoCode => p.vec[c] # NoCode
    BY <1>3 DEF Analyzed, Lacks
  <2> QED BY <1>10, <1>11, <2>1 DEF OwnerInv, StackTells
<1>13. LoadingTells(i, p, {})
  <2>1. ~Has(p, k, "loading")
    BY DEF Analyzed, Has, Lacks
  <2> QED BY <1>4, <1>5, <1>9, <2>1 DEF OwnerInv, LoadingTells, Pending
<1>14. \A x \in o.xrefs : x.from \in Places(i) /\ x.to \in Nat
  BY <1>1, OwnerTypes DEF References
<1>15. XrefsTell(p)
  <2>1. ~Lacks(o, k, "loading")
    BY DEF Unregistered, Has, Lacks
  <2> QED BY <1>4, <1>14, <2>1 DEF OwnerInv, XrefsTell
<1>16. TakenTells(i, p, {})
  <2>1. \A x \in o.xrefs : x.to < i.size => x.to \in Places(i)
    BY <1>14, ImageTells DEF Places
  <2> QED BY <1>6, <1>7, <2>1 DEF OwnerInv, TakenTells
<1>17. ShownTells(i, p, {k})
  BY <1>4 DEF OwnerInv, ShownTells, Shown, Analyzed
<1> QED BY <1>8, <1>12, <1>13, <1>15, <1>16, <1>17 DEF OwnerInv

(* What a step of the route at k leaves.                                     *)
Grown(i, o, p, k) ==
  /\ Starts(o) \subseteq Starts(p) /\ Analyzed(p, k)
  /\ \A j \in Places(i) :
       /\ o.vec[j] # NoCode => p.vec[j] # NoCode
       /\ Has(p, j, "loading") => Has(o, j, "loading") \/ j \in Starts(p)
       /\ Lacks(o, j, "invalid") => \/ Lacks(p, j, "invalid")
                                    \/ i.align > 1 /\ i.code[k].kind = "read" /\ i.code[k].to = j
       /\ o.vec[j] = NoCode /\ p.vec[j] # NoCode => Lacks(p, j, "invalid")
       /\ Lacks(p, j, "loading") => j = k \/ Lacks(o, j, "loading")
       /\ Analyzed(o, j) => Analyzed(p, j)

\* An instruction and its references.
LEMMA InstructionAnalyzed ==
  ASSUME image \in Images, NEW E, NEW k \in Places(image), NEW p, cur.questionable \in BOOLEAN,
         OwnerInv(image, own, E, {}), E \subseteq {k}, Unregistered(own, k),
         p = AnalyzeAndConstructInstruction(k)
  PROVE  /\ OwnerInv(image, p, {}, {}) /\ Grown(image, own, p, k)
         /\ image.code[k].kind \in {"jmp", "call"} /\ image.code[k].to \in Places(image)
            /\ Aligned(image.code[k].to) => p.vec[image.code[k].to] # NoCode
<1> DEFINE made == QueryOrAllocateInstruction(own, k, {})
           m == IF cur.questionable THEN {} ELSE {"root"}
           o1 == [made EXCEPT !.vec[k] = m]
<1>1. /\ own \in Owners(image) /\ own.count \in Int
      /\ own.vec \in [Places(image) -> (SUBSET Marks) \cup {NoCode}]
  BY OwnerTypes DEF OwnerInv
<1>2. m \in SUBSET Marks /\ "loading" \notin m /\ "invalid" \notin m /\ m # NoCode
  <2>1. m \in SUBSET Marks /\ "loading" \notin m /\ "invalid" \notin m
    BY DEF Marks
  <2> HIDE DEF m
  <2> QED BY <2>1, CodeAssumption
<1>3. p = SaveReferences(o1, k)
  BY DEF AnalyzeAndConstructInstruction
<1>4. /\ o1.vec = [own.vec EXCEPT ![k] = m] /\ o1.stack = own.stack /\ o1.xrefs = own.xrefs
      /\ o1.count = IF own.vec[k] = NoCode THEN own.count + 1 ELSE own.count
      /\ o1 \in Owners(image)
  <2> HIDE DEF m
  <2>1. CASE own.vec[k] = NoCode
    <3>1. made = [own EXCEPT !.vec[k] = {}, !.count = @ + 1]
      BY <2>1 DEF QueryOrAllocateInstruction
    <3>2. /\ made.vec = [own.vec EXCEPT ![k] = {}] /\ made.stack = own.stack
          /\ made.xrefs = own.xrefs /\ made.count = own.count + 1
          /\ made = [vec |-> made.vec, xrefs |-> own.xrefs, count |-> made.count,
                     stack |-> own.stack]
      BY <1>1, <3>1 DEF Owners
    <3> HIDE DEF made
    <3>3. /\ o1.vec = [made.vec EXCEPT ![k] = m] /\ o1.stack = own.stack
          /\ o1.xrefs = own.xrefs /\ o1.count = own.count + 1
          /\ o1 = [vec |-> o1.vec, xrefs |-> own.xrefs, count |-> own.count + 1,
                   stack |-> own.stack]
      BY <3>2
    <3> HIDE DEF o1
    <3>4. o1.vec = [own.vec EXCEPT ![k] = m]
      BY <1>1, <3>2, <3>3
    <3>5. o1.vec \in [Places(image) -> (SUBSET Marks) \cup {NoCode}] /\ own.count + 1 \in Int
      BY <1>1, <1>2, <3>4
    <3>6. own.xrefs \in SUBSET References(image) /\ own.stack \in Seq(Routes(image))
      BY <1>1, OwnerTypes
    <3>7. o1 \in Owners(image)
      BY <3>3, <3>5, <3>6 DEF Owners
    <3> QED BY <2>1, <3>3, <3>4, <3>7
  <2>2. CASE own.vec[k] # NoCode
    <3>1. made = own
      BY <2>2 DEF QueryOrAllocateInstruction
    <3>2. o1 = [own EXCEPT !.vec[k] = m]
      BY <3>1
    <3> HIDE DEF o1, made
    <3>3. /\ o1.vec = [own.vec EXCEPT ![k] = m] /\ o1.stack = own.stack
          /\ o1.xrefs = own.xrefs /\ o1.count = own.count
      BY <1>1, <3>2 DEF Owners
    <3>4. o1.vec \in [Places(image) -> (SUBSET Marks) \cup {NoCode}]
      BY <1>1, <1>2, <3>3
    <3>5. o1 \in Owners(image)
      BY <1>1, <3>2, <3>3, <3>4 DEF Owners
    <3> QED BY <2>2, <3>3, <3>5
  <2> QED BY <2>1, <2>2
<1> HIDE DEF made, m, o1
<1>5. Analyzed(o1, k) /\ SameElsewhere(image, own, o1, k)
  BY <1>1, <1>2, <1>4 DEF Analyzed, Lacks, SameElsewhere
<1>6. OwnerInv(image, o1, {}, {k})
  BY <1>4, <1>5, InstructionMade
<1>7. /\ OwnerInv(image, p, {}, {}) /\ Delta(image, o1, p, k)
      /\ image.code[k].kind \in {"jmp", "call"} /\ image.code[k].to \in Places(image)
         /\ Aligned(image.code[k].to) => p.vec[image.code[k].to] # NoCode
  BY <1>3, <1>5, <1>6, ReferencesSaved
<1>8. Grown(image, own, p, k)
  <2>1. Starts(o1) = Starts(own)
    BY <1>4 DEF Starts
  <2>2. \A c \in Places(image) \ {k} : o1.vec[c] = own.vec[c]
    BY <1>5 DEF SameElsewhere
  <2>3. \A c \in Places(image) \ {k} : \A mark :
          (Has(own, c, mark) <=> Has(o1, c, mark)) /\ (Lacks(own, c, mark) <=> Lacks(o1, c, mark))
    BY <2>2 DEF Has, Lacks
  <2>4. Analyzed(p, k) /\ p.vec[k] # NoCode /\ ~Has(p, k, "loading") /\ Lacks(p, k, "invalid")
    BY <1>5, <1>7 DEF Delta, Analyzed, Has, Lacks
  <2>5. ~Analyzed(own, k)
    BY DEF Unregistered, Analyzed, Has, Lacks
  <2>6. ASSUME NEW j \in Places(image)
        PROVE  /\ own.vec[j] # NoCode => p.vec[j] # NoCode
               /\ Has(p, j, "loading") => Has(own, j, "loading") \/ j \in Starts(p)
               /\ Lacks(own, j, "invalid") =>
                    \/ Lacks(p, j, "invalid")
                    \/ image.align > 1 /\ image.code[k].kind = "read" /\ image.code[k].to = j
               /\ own.vec[j] = NoCode /\ p.vec[j] # NoCode => Lacks(p, j, "invalid")
               /\ Lacks(p, j, "loading") => j = k \/ Lacks(own, j, "loading")
               /\ Analyzed(own, j) => Analyzed(p, j)
    <3>1. CASE j = k
      BY <2>4, <2>5, <3>1
    <3>2. CASE j # k
      <4>1. Analyzed(own, j) => Analyzed(o1, j)
        BY <2>3, <3>2 DEF Analyzed
      <4> QED BY <1>7, <2>1, <2>2, <2>3, <3>2, <4>1 DEF Delta
    <3> QED BY <3>1, <3>2
  <2> QED BY <1>7, <2>1, <2>4, <2>6 DEF Delta, Grown
<1> QED BY <1>7, <1>8

------------------------------------------------------------------------------
(* A route is rolled back.                                                   *)

ListAnalyzed(o, r) == \A k \in r.list : Analyzed(o, k)
InRoute(o, r, k) == k \in r.list \/ (k = r.start /\ Has(o, k, "loading"))

(* What a rollback of the route r of o leaves in p.                          *)
RolledBack(i, o, p, r) ==
  /\ Starts(p) = Starts(o)
  /\ \A j \in Places(i) :
       /\ (o.vec[j] = NoCode) <=> (p.vec[j] = NoCode)
       /\ ~InRoute(o, r, j) => p.vec[j] = o.vec[j]
       /\ Has(p, j, "loading") <=> Has(o, j, "loading")
       /\ Lacks(p, j, "loading") <=> Lacks(o, j, "loading")

\* An instruction rolled back is not counted and refers to nothing; what takes
\* its address refers to data from then on.
LEMMA RouteRolledBack ==
  ASSUME image \in Images, NEW o, NEW E, NEW r, NEW p, OwnerInv(image, o, E, {}),
         E \subseteq {r.start}, r.start \in Places(image), r.list \subseteq Places(image),
         ListAnalyzed(o, r), Has(o, r.start, "loading") => r.start \in E,
         p = RollbackCurrentRoute(o, r)
  PROVE  OwnerInv(image, p, {}, {}) /\ RolledBack(image, o, p, r)
<1> DEFINE M == {k \in Places(image) : InRoute(o, r, k)}
           new(x) == [x EXCEPT !.gone = @ \/ x.from \in M \/ (~x.data /\ x.to \in M)]
           X == {new(x) : x \in o.xrefs}
           kept(x) == [from |-> x.from, to |-> x.to, data |-> TRUE, taken |-> TRUE, gone |-> FALSE]
           isKept(x) == /\ x.taken /\ ~x.data /\ x.to \in M /\ "invalid" \notin p.vec[x.from]
           v == [k \in Places(image) |-> IF k \in M THEN o.vec[k] \cup {"invalid"} ELSE o.vec[k]]
<1>1. /\ o \in Owners(image) /\ o.count \in Int /\ o.stack \in Seq(Routes(image))
      /\ o.vec \in [Places(image) -> (SUBSET Marks) \cup {NoCode}]
      /\ o.xrefs \subseteq References(image) /\ Starts(o) \subseteq Places(image)
  BY OwnerTypes DEF OwnerInv
<1>2. M = r.list \cup {k \in {r.start} : o.vec[k] # NoCode /\ "loading" \in o.vec[k]}
  BY DEF InRoute, Has
<1> HIDE DEF M
<1>3. /\ p.vec = v /\ p.count = o.count - Cardinality(M) /\ p.stack = o.stack
      /\ p.xrefs = X \cup {kept(x) : x \in {x \in X : isKept(x)}}
      /\ p = [vec |-> p.vec, xrefs |-> p.xrefs, count |-> p.count, stack |-> p.stack]
  <2> DEFINE m1 == RouteMarker(o, M)
  <2>1. p = AddressTakenKeeper(m1, M)
    BY <1>2 DEF RollbackCurrentRoute
  <2>2. /\ m1.vec = v /\ m1.count = o.count - Cardinality(M) /\ m1.stack = o.stack /\ m1.xrefs = X
        /\ m1 = [vec |-> m1.vec, xrefs |-> m1.xrefs, count |-> m1.count, stack |-> m1.stack]
    <3>1. Offsets = Places(image)
      BY DEF Offsets, Places
    <3>2. m1 = [o EXCEPT !.vec = v, !.count = o.count - Cardinality(M), !.xrefs = X]
      BY <3>1 DEF RouteMarker
    <3> HIDE DEF m1, v, X
    <3> QED BY <1>1, <3>2 DEF Owners
  <2> HIDE DEF m1, v
  <2>3. p.vec = m1.vec /\ p.count = m1.count /\ p.stack = m1.stack
    BY <2>1, <2>2 DEF AddressTakenKeeper
  <2>4. p.xrefs = m1.xrefs \cup {kept(x) : x \in {x \in m1.xrefs : isKept(x)}}
    <3>1. p.xrefs = m1.xrefs \cup
            {kept(x) : x \in {x \in m1.xrefs : /\ x.taken /\ ~x.data /\ x.to \in M
                                             /\ "invalid" \notin m1.vec[x.from]}}
      BY <2>1, <2>2 DEF AddressTakenKeeper
    <3> QED BY <2>3, <3>1
  <2>5. p = [vec |-> p.vec, xrefs |-> p.xrefs, count |-> p.count, stack |-> p.stack]
    BY <2>1, <2>2 DEF AddressTakenKeeper
  <2> HIDE DEF X, kept, isKept
  <2> QED BY <2>2, <2>3, <2>4, <2>5
<1>4. \A k \in M : k \in Places(image) /\ InRoute(o, r, k) /\ o.vec[k] # NoCode
  BY DEF M, InRoute, ListAnalyzed, Analyzed, Lacks, Has
<1>5. \A k \in M : o.vec[k] \cup {"invalid"} \in SUBSET Marks /\ o.vec[k] \cup {"invalid"} # NoCode
  <2>1. \A k \in M : o.vec[k] \cup {"invalid"} \in SUBSET Marks
    BY <1>1, <1>4 DEF Marks
  <2> QED BY <2>1, CodeAssumption
<1>6. /\ p.vec \in [Places(image) -> (SUBSET Marks) \cup {NoCode}]
      /\ \A k \in M : p.vec[k] = o.vec[k] \cup {"invalid"} /\ p.vec[k] # NoCode
      /\ \A k \in Places(image) \ M : p.vec[k] = o.vec[k]
  <2>1. \A k \in Places(image) : v[k] \in (SUBSET Marks) \cup {NoCode}
    BY <1>1, <1>5
  <2>2. v \in [Places(image) -> (SUBSET Marks) \cup {NoCode}]
    BY <2>1
  <2>3. /\ \A k \in M : v[k] = o.vec[k] \cup {"invalid"} /\ v[k] # NoCode
        /\ \A k \in Places(image) \ M : v[k] = o.vec[k]
    BY <1>4, <1>5
  <2> HIDE DEF v
  <2> QED BY <1>3, <2>2, <2>3
<1>7. \A x \in o.xrefs : /\ x.from \in Places(image) /\ x.to \in Nat /\ x.data \in BOOLEAN
                         /\ x.taken \in BOOLEAN /\ x.gone \in BOOLEAN /\ x \in References(image)
  BY <1>1 DEF References
<1>8. \A x \in o.xrefs : /\ new(x).from = x.from /\ new(x).to = x.to /\ new(x).data = x.data
                         /\ new(x).taken = x.taken /\ new(x) \in References(image)
                         /\ ~new(x).gone <=> ~x.gone /\ x.from \notin M /\ (x.data \/ x.to \notin M)
  BY <1>7 DEF References
<1>9. X \subseteq References(image)
  BY <1>8
<1>10. \A x \in X : kept(x) \in References(image) /\ kept(x).from = x.from /\ kept(x).to = x.to
                    /\ kept(x).data /\ kept(x).taken /\ ~kept(x).gone
  BY <1>9 DEF References
<1>11. \A x \in p.xrefs : x \in X \/ \E y \in X : isKept(y) /\ x = kept(y)
  BY <1>3
<1>12. \A x \in X : x \in p.xrefs /\ (isKept(x) => kept(x) \in p.xrefs)
  BY <1>3
<1>13. \A x \in X : \E y \in o.xrefs : x = new(y)
  OBVIOUS
<1>14. \A y \in o.xrefs : new(y) \in X
  OBVIOUS
<1> HIDE DEF v, X, kept, new
<1>15. p \in Owners(image)
  <2>1. p.xrefs \subseteq References(image)
    BY <1>9, <1>10, <1>11
  <2>2. IsFiniteSet(M) /\ Cardinality(M) \in Nat
    <3>1. IsFiniteSet(Places(image)) /\ M \subseteq Places(image)
      BY <1>4, ImageTells
    <3> QED BY <3>1, FS_Subset, FS_CardinalityType
  <2>3. p.count \in Int
    BY <1>1, <1>3, <2>2
  <2>4. p.stack \in Seq(Routes(image))
    BY <1>1, <1>3
  <2> QED BY <1>3, <1>6, <2>1, <2>3, <2>4 DEF Owners
<1>16. Starts(p) = Starts(o)
  BY <1>3 DEF Starts
<1>17. \A k \in Places(image) : /\ Has(p, k, "loading") <=> Has(o, k, "loading")
                                /\ Lacks(p, k, "loading") <=> Lacks(o, k, "loading")
                                /\ Has(p, k, "root") <=> Has(o, k, "root")
                                /\ (o.vec[k] = NoCode) <=> (p.vec[k] = NoCode)
  BY <1>4, <1>6 DEF Has, Lacks
<1>18. /\ \A k \in M : Has(p, k, "invalid") /\ ~Lacks(p, k, "invalid")
       /\ \A k \in Places(image) \ M : /\ Has(p, k, "invalid") <=> Has(o, k, "invalid")
                                       /\ Lacks(p, k, "invalid") <=> Lacks(o, k, "invalid")
  BY <1>6 DEF Has, Lacks
<1>19. \A k \in M : Has(o, k, "loading") => k = r.start /\ k \in E /\ k \notin Starts(o)
  BY <1>4 DEF InRoute, ListAnalyzed, Analyzed, Has, Lacks, OwnerInv, StackTells
<1>20. \A k \in E : Has(o, k, "loading") => k \in M
  BY DEF M, InRoute
<1>21. \A k \in Places(image) : Counted(p, {}, k) <=> Counted(o, E, k) /\ k \notin M
  BY <1>16, <1>17, <1>18, <1>19, <1>20 DEF Counted, Doomed, Pending
<1>22. \A k \in M : Counted(o, E, k)
  <2> SUFFICES ASSUME NEW k \in M PROVE Counted(o, E, k)
    OBVIOUS
  <2>1. CASE Has(o, k, "loading")
    BY <1>4, <1>19, <2>1 DEF Counted, Doomed, Pending, Has, Lacks
  <2>2. CASE ~Has(o, k, "loading")
    BY <1>4, <2>2 DEF InRoute, ListAnalyzed, Analyzed, Counted
  <2> QED BY <2>1, <2>2
<1>23. CountTells(image, p, {})
  <2> DEFINE S == {k \in Places(image) : Counted(o, E, k)}
  <2>1. {k \in Places(image) : Counted(p, {}, k)} = S \ M /\ S \cap M = M
    BY <1>4, <1>21, <1>22
  <2>2. IsFiniteSet(S)
    BY <1>1, SetsOfOwner
  <2> HIDE DEF S
  <2>3. Cardinality(S \ M) = Cardinality(S) - Cardinality(S \cap M)
    BY <2>2, FS_Difference
  <2>4. o.count = Cardinality(S)
    BY DEF S, OwnerInv, CountTells
  <2> QED BY <1>3, <2>1, <2>3, <2>4 DEF CountTells
<1>24. \A k : Called(o, k) => Called(p, k)
  BY <1>8, <1>12, <1>14 DEF Called
<1>25. StackTells(image, p, {})
  <2>1. \A k \in Starts(o) : Certain(o, k) => Certain(p, k)
    BY <1>1, <1>17, <1>18, <1>19, <1>24 DEF Certain
  <2>2. \A n \in DOMAIN o.stack : o.stack[n].start \in Starts(o)
    BY DEF Starts
  <2> QED BY <1>1, <1>3, <1>17, <2>1, <2>2 DEF OwnerInv, StackTells
<1>26. LoadingTells(image, p, {})
  BY <1>16, <1>17, <1>18, <1>20, <1>24 DEF OwnerInv, LoadingTells, Pending
<1>27. ASSUME NEW x \in p.xrefs
       PROVE  /\ Lacks(p, x.from, "loading") /\ (~x.gone => Lacks(p, x.from, "invalid"))
              /\ ~x.gone /\ x.taken /\ ~x.data /\ x.to < image.size => Counted(p, {}, x.to)
  <2>1. ASSUME NEW y \in o.xrefs PROVE Lacks(p, y.from, "loading")
    BY <1>7, <1>17 DEF OwnerInv, XrefsTell
  <2>2. CASE x \in X
    <3>1. PICK y \in o.xrefs : x = new(y)
      BY <1>13, <2>2
    <3>2. Lacks(p, x.from, "loading")
      BY <1>8, <2>1, <3>1
    <3>3. ~x.gone => Lacks(p, x.from, "invalid")
      BY <1>7, <1>8, <1>18, <3>1 DEF OwnerInv, XrefsTell
    <3>4. x.to < image.size => x.to \in Places(image)
      BY <1>7, <1>8, <3>1, ImageTells DEF Places
    <3>5. ~x.gone /\ x.taken /\ ~x.data /\ x.to < image.size => Counted(p, {}, x.to)
      BY <1>8, <1>21, <3>1, <3>4 DEF OwnerInv, TakenTells
    <3> QED BY <3>2, <3>3, <3>5
  <2>3. CASE \E y \in X : isKept(y) /\ x = kept(y)
    <3>1. PICK y \in X : isKept(y) /\ x = kept(y)
      BY <2>3
    <3>2. PICK z \in o.xrefs : y = new(z)
      BY <1>13
    <3>3. x.from = z.from /\ x.data
      BY <1>8, <1>10, <3>1, <3>2
    <3>4. Lacks(p, x.from, "loading")
      BY <2>1, <3>3
    <3>5. "invalid" \notin p.vec[x.from]
      BY <1>8, <1>10, <3>1
    <3> QED BY <3>3, <3>4, <3>5 DEF Lacks
  <2> QED BY <1>11, <2>2, <2>3
<1>28. ShownTells(image, p, {})
  <2> SUFFICES ASSUME NEW k \in Places(image), Analyzed(p, k),
                      image.code[k].kind \in {"take", "read"}
               PROVE  Shown(image, p, k)
    BY DEF ShownTells
  <2>1. k \notin M /\ Analyzed(o, k)
    BY <1>17, <1>18 DEF Analyzed
  <2>2. PICK x \in o.xrefs : /\ x.from = k /\ x.to = image.code[k].to /\ ~x.gone
                             /\ x.data \/ x.taken
    BY <2>1 DEF OwnerInv, ShownTells, Shown
  <2>3. /\ new(x) \in X /\ new(x).from = k /\ new(x).to = image.code[k].to
        /\ new(x).data \/ new(x).taken
        /\ ~new(x).gone <=> x.data \/ x.to \notin M
    BY <1>8, <1>14, <2>1, <2>2
  <2>4. CASE x.data \/ x.to \notin M
    BY <1>12, <2>3, <2>4 DEF Shown
  <2>5. CASE ~x.data /\ x.to \in M
    <3>1. isKept(new(x))
      BY <1>8, <2>1, <2>2, <2>3, <2>5 DEF Analyzed, Lacks
    <3>2. /\ kept(new(x)) \in p.xrefs /\ kept(new(x)).from = k
          /\ kept(new(x)).to = image.code[k].to /\ kept(new(x)).data /\ ~kept(new(x)).gone
      BY <1>10, <1>12, <2>3, <3>1
    <3> QED BY <3>2 DEF Shown
  <2> QED BY <2>4, <2>5
<1>29. RolledBack(image, o, p, r)
  <2>1. \A k \in Places(image) : ~InRoute(o, r, k) => p.vec[k] = o.vec[k]
    BY <1>4, <1>6
  <2> QED BY <1>16, <1>17, <2>1 DEF RolledBack
<1>30. XrefsTell(p) /\ TakenTells(image, p, {})
  BY <1>27 DEF XrefsTell, TakenTells
<1> QED BY <1>15, <1>23, <1>25, <1>26, <1>28, <1>29, <1>30 DEF OwnerInv

------------------------------------------------------------------------------
(* The start of a route, and sets of sound code.                             *)

\* A route has started, or goes on after what does not decode.
LEMMA StartPassed ==
  ASSUME NEW i \in Images, NEW o, NEW E, NEW k \in Places(i), OwnerInv(i, o, E, {}),
         E \subseteq {k},
         Has(o, k, "loading") => /\ Lacks(o, k, "invalid") /\ Hopeless(i, k) /\ Called(o, k)
                                 /\ Has(o, k, "root")
  PROVE  OwnerInv(i, o, {}, {})
<1>1. o \in Owners(i)
  BY DEF OwnerInv
<1>2. \A c : Counted(o, E, c) <=> Counted(o, {}, c)
  BY DEF Counted, Doomed, Pending, Has, Lacks
<1>3. CountTells(i, o, {}) /\ TakenTells(i, o, {})
  BY <1>2 DEF OwnerInv, CountTells, TakenTells
<1>4. StackTells(i, o, {})
  BY DEF OwnerInv, StackTells
<1>5. LoadingTells(i, o, {})
  BY DEF OwnerInv, LoadingTells, Pending
<1> QED BY <1>3, <1>4, <1>5 DEF OwnerInv

\* A seed without an instruction.
LEMMA SeedTaken ==
  ASSUME NEW i \in Images, NEW o, NEW p, NEW k \in Places(i), NEW E, E = {k},
         OwnerInv(i, o, {}, {}),
         o.vec[k] = NoCode, p = o
  PROVE  OwnerInv(i, p, E, {})
<1>1. \A c : Counted(o, E, c) <=> Counted(o, {}, c)
  BY DEF Counted, Doomed, Pending, Has, Lacks
<1>2. CountTells(i, o, E) /\ TakenTells(i, o, E)
  BY <1>1 DEF OwnerInv, CountTells, TakenTells
<1>3. StackTells(i, o, E)
  BY DEF OwnerInv, StackTells, Starts
<1>4. LoadingTells(i, o, E)
  BY DEF OwnerInv, LoadingTells, Pending
<1> QED BY <1>2, <1>3, <1>4 DEF OwnerInv

\* A route is not in a sound set: the set does not depend on where it goes.
LEMMA FlowLeft ==
  ASSUME NEW i \in Images, NEW F, NEW o, NEW a, NEW A, NEW B, NEW L, NEW R, SoundFlow(i, F),
         FlowIn(i, F, o, A, L, R), A = {a}, a \notin F
  PROVE  FlowIn(i, F, o, B, L, R) /\ L \cap F = {}
BY DEF FlowIn, SoundFlow

\* A route comes to an instruction that is there.
LEMMA FlowJoined ==
  ASSUME NEW i \in Images, NEW F, NEW o, NEW a \in Places(i), NEW A, NEW B, NEW L, NEW R,
         SoundFlow(i, F), FlowIn(i, F, o, A, L, R), A = {a}, B = {}, o.vec[a] # NoCode,
         Has(o, a, "loading") => Has(o, a, "invalid")
  PROVE  FlowIn(i, F, o, B, L, R)
BY DEF FlowIn, SoundFlow, Has, Lacks

\* A rollback outside of a sound set leaves it alone.
LEMMA FlowKept ==
  ASSUME NEW i \in Images, NEW F \in SUBSET Places(i), NEW o, NEW p, NEW r, NEW A, NEW L, NEW R,
         SoundFlow(i, F), FlowIn(i, F, o, A, L, R), RolledBack(i, o, p, r),
         \A k \in F : ~InRoute(o, r, k)
  PROVE  FlowIn(i, F, p, A, L, R)
<1>1. \A k \in F : p.vec[k] = o.vec[k]
  BY DEF RolledBack
<1>2. \A k \in F : \A m : (Has(p, k, m) <=> Has(o, k, m)) /\ (Lacks(p, k, m) <=> Lacks(o, k, m))
  BY <1>1 DEF Has, Lacks
<1>3. \A s \in Places(i) : o.vec[s] # NoCode <=> p.vec[s] # NoCode
  BY DEF RolledBack
<1>4. \A k \in F : SuccessorsIn(i, k) \subseteq Places(i)
  BY DEF SuccessorsIn
<1>5. Starts(p) = Starts(o)
  BY DEF RolledBack
<1> QED BY <1>1, <1>2, <1>3, <1>4, <1>5 DEF FlowIn

\* One instruction of the route at a: what follows it in a sound set is there, or
\* the route goes there.
LEMMA FlowFollowed ==
  ASSUME NEW i \in Images, NEW F \in SUBSET Places(i), NEW o, NEW p, NEW a \in Places(i), NEW A,
         NEW B, NEW L, NEW M, NEW R, SoundFlow(i, F), FlowIn(i, F, o, A, L, R), A = {a},
         Grown(i, o, p, a), M = L \cup {a},
         B = IF StopsAt(i, a) \/ a + i.code[a].size >= i.size THEN {} ELSE {a + i.code[a].size},
         i.code[a].kind \in {"jmp", "call"} /\ i.code[a].to \in Places(i)
            /\ i.code[a].to % i.align = 0 => p.vec[i.code[a].to] # NoCode
  PROVE  FlowIn(i, F, p, B, M, R)
<1>1. i.size \in Nat /\ i.code[a].size \in Nat /\ a \in Nat /\ i.code[a].to \in Nat
  BY ImageTells DEF Places
<1>2. Analyzed(p, a) /\ p.vec[a] # NoCode /\ ~Has(p, a, "loading")
  BY DEF Grown, Analyzed, Has, Lacks
<1>3. \A k \in F : p.vec[k] # NoCode =>
        Lacks(p, k, "invalid") /\ (Has(p, k, "loading") => k \in Starts(p) \cup B)
  <2> SUFFICES ASSUME NEW k \in F, p.vec[k] # NoCode
               PROVE  Lacks(p, k, "invalid") /\ (Has(p, k, "loading") => k \in Starts(p))
    OBVIOUS
  <2>1. Lacks(p, k, "invalid")
    <3>1. CASE o.vec[k] = NoCode
      BY <3>1 DEF Grown
    <3>2. CASE o.vec[k] # NoCode
      <4>1. Lacks(o, k, "invalid")
        BY <3>2 DEF FlowIn
      <4>2. ~(i.align > 1 /\ i.code[a].kind = "read" /\ i.code[a].to = k)
        BY DEF SoundFlow
      <4> QED BY <4>1, <4>2 DEF Grown
    <3> QED BY <3>1, <3>2
  <2>2. Has(p, k, "loading") => k \in Starts(p)
    <3> SUFFICES ASSUME Has(p, k, "loading"), Has(o, k, "loading") PROVE k \in Starts(p)
      BY DEF Grown
    <3>1. k # a
      BY <1>2
    <3>2. k \in Starts(o)
      BY <3>1 DEF FlowIn, Has
    <3> QED BY <3>2 DEF Grown
  <2> QED BY <2>1, <2>2
<1>4. a \in F /\ ~StopsAt(i, a) /\ a + i.code[a].size < i.size => a + i.code[a].size \in F
  BY <1>1 DEF SoundFlow, SuccessorsIn, Places
<1>5. B # {} /\ M \cap F # {} => B \subseteq F
  <2> SUFFICES ASSUME B # {}, M \cap F # {} PROVE B \subseteq F
    OBVIOUS
  <2>1. a \in F
    BY DEF FlowIn
  <2>2. ~StopsAt(i, a) /\ a + i.code[a].size < i.size /\ B = {a + i.code[a].size}
    BY <1>1
  <2> QED BY <1>4, <2>1, <2>2
<1>6. \A k \in F : Lacks(p, k, "loading") =>
        \A s \in SuccessorsIn(i, k) : p.vec[s] # NoCode \/ s \in B
  <2> SUFFICES ASSUME NEW k \in F, Lacks(p, k, "loading"), NEW s \in SuccessorsIn(i, k)
               PROVE  p.vec[s] # NoCode \/ s \in B
    OBVIOUS
  <2>1. s \in F /\ s \in Places(i)
    BY DEF SoundFlow
  <2>2. CASE k = a
    <3>1. CASE s = i.code[a].to /\ i.code[a].kind \in {"jmp", "call"}
      BY <2>1, <3>1 DEF SoundFlow
    <3>2. CASE s = a + i.code[a].size /\ ~StopsAt(i, a)
      BY <1>1, <2>1, <3>2 DEF Places
    <3> QED BY <2>2, <3>1, <3>2 DEF SuccessorsIn
  <2>3. CASE k # a
    <3>1. Lacks(o, k, "loading")
      BY <2>3 DEF Grown
    <3>2. o.vec[s] # NoCode \/ s = a
      BY <3>1 DEF FlowIn
    <3> QED BY <1>2, <2>1, <3>2 DEF Grown
  <2> QED BY <2>2, <2>3
<1>7. \A k \in F \cap R : p.vec[k] # NoCode \/ k \in B
  BY <1>2 DEF FlowIn, Grown
<1> QED BY <1>3, <1>5, <1>6, <1>7 DEF FlowIn

------------------------------------------------------------------------------
(* The steps.                                                                *)

\* What the invariant says of a route.
LEMMA StepTells ==
  ASSUME CodeInv, rpc = "step"
  PROVE  /\ image \in Images /\ place \in Places(image) /\ cur.start \in Places(image)
         /\ place \in Nat /\ cur.start \in Nat /\ cur.list \subseteq Places(image)
         /\ cur.questionable \in BOOLEAN /\ strict \in BOOLEAN
         /\ At = {place} /\ ToStart = (IF place = cur.start THEN {place} ELSE {})
         /\ ToStart \subseteq {cur.start} /\ ToStart \subseteq {place}
         /\ ListAnalyzed(own, cur) /\ OwnerInv(image, own, ToStart, {})
         /\ RouteTells(image, own, cur, place, IsStrictRoute)
         /\ IsStrictRoute => (Has(own, cur.start, "loading") => cur.start \in ToStart)
<1>1. /\ image \in Images /\ place \in Places(image) /\ cur.start \in Places(image)
      /\ place \in Nat /\ cur.start \in Nat /\ cur.list \subseteq Places(image)
      /\ cur.questionable \in BOOLEAN /\ strict \in BOOLEAN
  BY DEF CodeInv, CodeTypeOK
<1>2. At = {place} /\ ToStart = (IF place = cur.start THEN {place} ELSE {})
  BY DEF At, ToStart
<1>3. OwnerInv(image, own, ToStart, {}) /\ RouteTells(image, own, cur, place, IsStrictRoute)
  BY DEF CodeInv
<1>4. ListAnalyzed(own, cur)
  BY <1>3 DEF RouteTells, ListAnalyzed
<1>5. IsStrictRoute /\ Has(own, cur.start, "loading") => cur.start \in ToStart
  <2> SUFFICES ASSUME IsStrictRoute, Has(own, cur.start, "loading"), place # cur.start PROVE FALSE
    BY <1>2
  <2>1. cur.start \in cur.list
    BY <1>3 DEF RouteTells
  <2> QED BY <1>4, <2>1 DEF ListAnalyzed, Analyzed, Has, Lacks
<1> QED BY <1>1, <1>2, <1>3, <1>4, <1>5

\* Code that a sound set holds decodes, and an instruction can start there.
LEMMA SoundDecodes ==
  ASSUME image \in Images, NEW F, SoundFlow(image, F), NEW k \in F
  PROVE  Aligned(k) /\ Decodes(k)
BY DEF SoundFlow, Aligned, Decodes, Word

\* A rollback of the current route, which goes nowhere in a sound set.
LEMMA CurrentRolledBack ==
  ASSUME CodeInv, rpc = "step", IsStrictRoute, own' = RollbackCurrentRoute(own, cur),
         \A F \in SUBSET Places(image) : SoundFlow(image, F) => place \notin F
  PROVE  OwnerInv(image, own', {}, {}) /\ FlowTells(image, own', {}, cur.list, roots)
<1> DEFINE p == own'
           E == ToStart
           L == cur.list
           B == {}
<1>1. /\ image \in Images /\ cur.start \in Places(image) /\ L \subseteq Places(image)
      /\ E \subseteq {cur.start} /\ ListAnalyzed(own, cur) /\ OwnerInv(image, own, E, {})
      /\ Has(own, cur.start, "loading") => cur.start \in E
      /\ At = {place} /\ (place # cur.start => cur.start \in L)
  BY StepTells DEF RouteTells
<1>2. p = RollbackCurrentRoute(own, cur)
  OBVIOUS
<1> HIDE DEF p, E
<1>3. OwnerInv(image, p, {}, {}) /\ RolledBack(image, own, p, cur)
  BY <1>1, <1>2, RouteRolledBack
<1>4. ASSUME NEW F \in SUBSET Places(image), SoundFlow(image, F)
      PROVE  FlowIn(image, F, p, {}, L, roots)
  <2>1. place \notin F /\ FlowIn(image, F, own, At, L, roots)
    BY <1>4 DEF CodeInv, FlowTells
  <2> HIDE DEF B, L
  <2>2. FlowIn(image, F, own, B, L, roots) /\ L \cap F = {}
    BY <1>1, <1>4, <2>1, FlowLeft
  <2>3. \A k \in F : ~InRoute(own, cur, k)
    <3> SUFFICES ASSUME NEW k \in F, InRoute(own, cur, k) PROVE FALSE
      OBVIOUS
    <3>1. k = cur.start /\ k \notin L
      BY <2>2 DEF InRoute, L
    <3> QED BY <1>1, <2>1, <3>1
  <2>4. FlowIn(image, F, p, B, L, roots)
    BY <1>1, <1>3, <1>4, <2>2, <2>3, FlowKept
  <2> QED BY <2>4 DEF B
<1>5. FlowTells(image, p, {}, L, roots)
  BY <1>4 DEF FlowTells
<1> QED BY <1>3, <1>5 DEF p

\* The current route goes nowhere in a sound set, wherever it goes next.
LEMMA CurrentLeft ==
  ASSUME CodeInv, rpc = "step", NEW B,
         \A F \in SUBSET Places(image) : SoundFlow(image, F) => place \notin F
  PROVE  FlowTells(image, own, B, cur.list, roots)
<1> SUFFICES ASSUME NEW F \in SUBSET Places(image), SoundFlow(image, F)
             PROVE  FlowIn(image, F, own, B, cur.list, roots)
  BY DEF FlowTells
<1>1. FlowIn(image, F, own, At, cur.list, roots) /\ place \notin F /\ image \in Images
  BY StepTells DEF CodeInv, FlowTells
<1>2. At = {place}
  BY StepTells
<1> QED BY <1>1, <1>2, FlowLeft

\* Between routes.
LEMMA SwitchTells ==
  ASSUME image' = image, cur' = cur, strict' = strict, scan' = scan, roots' = roots,
         CodeInv, rpc = "step", rpc' = "switch", place' \in Nat,
         OwnerInv(image, own', {}, {}), FlowTells(image, own', {}, cur.list, roots)
  PROVE  CodeInv'
<1>1. At' = {} /\ ToStart' = {}
  BY DEF At, ToStart
<1>2. CodeTypeOK'
  BY DEF CodeInv, CodeTypeOK, OwnerInv, Places
<1> QED BY <1>1, <1>2 DEF CodeInv

\* At a place where no instruction can start the route ends.
LEMMA NotAlignedKeeps ==
  ASSUME CodeInv, NotAligned PROVE CodeInv'
<1> USE DEF NotAligned
<1>1. \A F \in SUBSET Places(image) : SoundFlow(image, F) => place \notin F
  BY StepTells, SoundDecodes
<1>2. place' \in Nat
  BY StepTells
<1>3. OwnerInv(image, own', {}, {}) /\ FlowTells(image, own', {}, cur.list, roots)
  <2>1. CASE IsStrictRoute
    BY <1>1, <2>1, CurrentRolledBack DEF RollbackIf
  <2>2. CASE ~IsStrictRoute
    <3>1. own' = own
      BY <2>2 DEF RollbackIf
    <3>2. Has(own, place, "loading") => place \notin ToStart
      BY StepTells DEF RouteTells, Aligned, Has
    <3>3. OwnerInv(image, own, {}, {})
      <4>1. CASE place \in ToStart
        BY <3>2, <4>1, StepTells, StartPassed
      <4>2. CASE place \notin ToStart
        <5>1. ToStart = {}
          BY <4>2, StepTells
        <5> QED BY <5>1, StepTells
      <4> QED BY <4>1, <4>2
    <3>4. FlowTells(image, own, {}, cur.list, roots)
      BY <1>1, CurrentLeft
    <3> QED BY <3>1, <3>3, <3>4
  <2> QED BY <2>1, <2>2
<1> QED BY <1>2, <1>3, SwitchTells

\* At what does not decode the route is rolled back or goes on.
LEMMA ParseFailsKeeps ==
  ASSUME CodeInv, ParseFails PROVE CodeInv'
<1> USE DEF ParseFails
<1>1. \A F \in SUBSET Places(image) : SoundFlow(image, F) => place \notin F
  BY StepTells, SoundDecodes
<1>2. place' \in Nat /\ place' = place + image.align /\ image.align \in {1, 2, 4} /\ place \in Nat
      /\ image.size \in Nat
  BY StepTells, ImageTells
<1>3. CASE IsStrictRoute
  <2>1. OwnerInv(image, own', {}, {}) /\ FlowTells(image, own', {}, cur.list, roots)
    BY <1>1, <1>3, CurrentRolledBack DEF RollbackIf
  <2> QED BY <1>2, <1>3, <2>1, SwitchTells
<1>4. CASE ~IsStrictRoute
  <2>1. own' = own
    BY <1>4 DEF RollbackIf
  <2>2. OwnerInv(image, own, {}, {})
    <3>1. CASE place \in ToStart
      <4>1. /\ place = cur.start /\ place \in Places(image) /\ image \in Images
            /\ OwnerInv(image, own, ToStart, {}) /\ ToStart \subseteq {place}
        BY <3>1, StepTells
      <4>2. Has(own, place, "loading") =>
              /\ Lacks(own, place, "invalid") /\ Called(own, place) /\ Has(own, place, "root")
        BY <1>4, <4>1, StepTells DEF RouteTells, Certain, Has, IsStrictRoute
      <4>3. Hopeless(image, place)
        BY <1>4, <4>1, ImageTells DEF Decodes, Word, Hopeless, Places
      <4> QED BY <4>1, <4>2, <4>3, StartPassed
    <3>2. CASE place \notin ToStart
      <4>1. ToStart = {}
        BY <3>2, StepTells
      <4> QED BY <4>1, StepTells
    <3> QED BY <3>1, <3>2
  <2>3. CASE ~Inside(place')
    <3>1. FlowTells(image, own, {}, cur.list, roots)
      BY <1>1, CurrentLeft
    <3> QED BY <1>2, <2>1, <2>2, <2>3, <3>1, SwitchTells
  <2>4. CASE Inside(place')
    <3>1. rpc' = "step" /\ place' \in Places(image)
      BY <1>2, <1>4, <2>4 DEF Inside, Places
    <3>2. place' > cur.start /\ cur.start \in Nat
      BY <1>2, StepTells DEF RouteTells
    <3>3. At' = {place'} /\ ToStart' = {}
      BY <1>2, <3>1, <3>2 DEF At, ToStart
    <3>4. FlowTells(image, own, At', cur.list, roots)
      BY <1>1, CurrentLeft
    <3>5. CodeTypeOK'
      BY <1>2, <2>1, <3>1 DEF CodeInv, CodeTypeOK
    <3>6. RouteTells(image, own, cur, place', IsStrictRoute)
      BY <1>2, <1>4, <3>2, StepTells DEF RouteTells, IsStrictRoute
    <3>7. RouteTells(image', own', cur', place', IsStrictRoute')
      BY <2>1, <3>6 DEF IsStrictRoute
    <3> QED BY <2>1, <2>2, <3>3, <3>4, <3>5, <3>7 DEF CodeInv
  <2> QED BY <2>3, <2>4
<1> QED BY <1>3, <1>4

\* A route that comes to a registered instruction ends there.
LEMMA JoinRouteKeeps ==
  ASSUME CodeInv, JoinRoute PROVE CodeInv'
<1> USE DEF JoinRoute
<1>1. place' \in Nat /\ place \in Places(image) /\ image \in Images
  BY StepTells
<1>2. CASE "invalid" \in own.vec[place] /\ cur.questionable
  <2>1. \A F \in SUBSET Places(image) : SoundFlow(image, F) => place \notin F
    BY <1>2 DEF CodeInv, FlowTells, FlowIn, IsRegistered, Lacks
  <2>2. IsStrictRoute /\ own' = RollbackCurrentRoute(own, cur)
    BY <1>2 DEF IsStrictRoute, RollbackIf
  <2>3. OwnerInv(image, own', {}, {}) /\ FlowTells(image, own', {}, cur.list, roots)
    BY <2>1, <2>2, CurrentRolledBack
  <2> QED BY <1>1, <2>3, SwitchTells
<1>3. CASE ~("invalid" \in own.vec[place] /\ cur.questionable)
  <2>1. own' = own
    BY <1>3 DEF RollbackIf
  <2>2. own.vec[place] # NoCode /\ (Has(own, place, "loading") => Has(own, place, "invalid"))
    BY DEF IsRegistered, Has
  <2>3. OwnerInv(image, own, {}, {})
    <3>1. CASE place \in ToStart
      <4>1. /\ place = cur.start
            /\ OwnerInv(image, own, ToStart, {}) /\ ToStart \subseteq {place}
        BY <3>1, StepTells
      <4>2. ~Has(own, place, "loading")
        BY <1>3, <2>2, <4>1, StepTells DEF RouteTells, Certain, Has, Lacks
      <4> QED BY <1>1, <4>1, <4>2, StartPassed
    <3>2. CASE place \notin ToStart
      <4>1. ToStart = {}
        BY <3>2, StepTells
      <4> QED BY <4>1, StepTells
    <3> QED BY <3>1, <3>2
  <2>4. FlowTells(image, own, {}, cur.list, roots)
    <3> DEFINE B == {}
    <3>1. B = {}
      OBVIOUS
    <3> HIDE DEF B
    <3> SUFFICES ASSUME NEW F \in SUBSET Places(image), SoundFlow(image, F)
                 PROVE  FlowIn(image, F, own, B, cur.list, roots)
      BY DEF FlowTells, B
    <3>2. FlowIn(image, F, own, At, cur.list, roots) /\ At = {place}
      BY StepTells DEF CodeInv, FlowTells
    <3> QED BY <1>1, <2>2, <3>1, <3>2, FlowJoined
  <2> QED BY <1>1, <2>1, <2>3, <2>4, SwitchTells
<1> QED BY <1>2, <1>3

\* One instruction of the route, its references, and the roll back at the end of the
\* module.
LEMMA AnalyzeInstructionKeeps ==
  ASSUME CodeInv, AnalyzeInstruction PROVE CodeInv'
<1> USE DEF AnalyzeInstruction
<1> DEFINE o1 == AnalyzeAndConstructInstruction(place)
           r1 == [cur EXCEPT !.list = @ \cup {place}]
           M == cur.list \cup {place}
           B == IF StopsAt(image, place) \/ place + image.code[place].size >= image.size
                THEN {} ELSE {place + image.code[place].size}
           off == Arm /\ ~Inside(place') /\ ~Stops(place) /\ IsStrictRoute
<1>1. /\ image \in Images /\ place \in Places(image) /\ place \in Nat
      /\ cur.questionable \in BOOLEAN
      /\ OwnerInv(image, own, ToStart, {}) /\ ToStart \subseteq {place} /\ At = {place}
      /\ cur.start \in Places(image) /\ cur.start \in Nat /\ cur.list \subseteq Places(image)
      /\ image.size \in Nat /\ image.code[place].size \in Nat /\ image.code[place].size > 0
  BY StepTells, ImageTells
<1>2. Unregistered(own, place)
  BY DEF IsRegistered, Unregistered, Has, Lacks
<1>3. /\ OwnerInv(image, o1, {}, {}) /\ Grown(image, own, o1, place)
      /\ image.code[place].kind \in {"jmp", "call"} /\ image.code[place].to \in Places(image)
         /\ Aligned(image.code[place].to) => o1.vec[image.code[place].to] # NoCode
  <2> HIDE DEF o1
  <2>1. o1 = AnalyzeAndConstructInstruction(place)
    BY DEF o1
  <2> QED BY <1>1, <1>2, <2>1, InstructionAnalyzed
<1>4. /\ cur' = r1 /\ r1.list = M /\ r1.start = cur.start /\ r1.questionable = cur.questionable
      /\ r1 = [start |-> r1.start, questionable |-> r1.questionable, list |-> r1.list]
  <2>1. PICK s, q, l : cur = [start |-> s, questionable |-> q, list |-> l]
    BY DEF CodeInv, CodeTypeOK
  <2>2. r1 = [start |-> s, questionable |-> q, list |-> l \cup {place}]
    BY <2>1
  <2>3. cur.list = l /\ cur.start = s /\ cur.questionable = q
    BY <2>1
  <2> QED BY <2>2, <2>3
<1>5. /\ place' = place + image.code[place].size /\ place' \in Nat /\ place' > cur.start
      /\ place' > place
  <2>1. place' = place + image.code[place].size /\ place >= cur.start
    BY StepTells DEF Word, RouteTells
  <2> QED BY <1>1, <2>1
<1>6. /\ rpc' = (IF B = {} THEN "switch" ELSE "step") /\ At' = B /\ ToStart' = {}
      /\ B # {} => place' \in Places(image)
  <2>1. Stops(place) <=> StopsAt(image, place)
    BY DEF Stops, StopsAt, Word
  <2>2. Inside(place') <=> ~(place + image.code[place].size >= image.size)
    BY <1>1, <1>5 DEF Inside
  <2>3. /\ rpc' = (IF B = {} THEN "switch" ELSE "step")
        /\ (B # {} => B = {place'} /\ place' \in Places(image))
    <3>1. CASE StopsAt(image, place) \/ ~Inside(place')
      <4>1. rpc' = "switch" /\ B = {}
        BY <2>1, <2>2, <3>1
      <4> QED BY <4>1
    <3>2. CASE ~StopsAt(image, place) /\ Inside(place')
      <4>1. rpc' = "step"
        BY <2>1, <3>2
      <4>2. B = {place'} /\ B # {}
        BY <1>5, <2>2, <3>2
      <4>3. place' \in Places(image)
        BY <1>1, <1>5, <3>2 DEF Inside, Places
      <4> HIDE DEF B
      <4> QED BY <4>1, <4>2, <4>3
    <3> QED BY <3>1, <3>2
  <2> HIDE DEF B
  <2>4. At' = B
    BY <2>3 DEF At
  <2>5. ToStart' = {}
    BY <1>1, <1>4, <1>5 DEF ToStart
  <2> QED BY <2>3, <2>4, <2>5
<1>7. FlowTells(image, o1, B, M, roots)
  <2>1. B = IF StopsAt(image, place) \/ place + image.code[place].size >= image.size
            THEN {} ELSE {place + image.code[place].size}
    OBVIOUS
  <2>2. M = cur.list \cup {place}
    OBVIOUS
  <2> HIDE DEF B, M, o1
  <2> SUFFICES ASSUME NEW F \in SUBSET Places(image), SoundFlow(image, F)
               PROVE  FlowIn(image, F, o1, B, M, roots)
    BY DEF FlowTells
  <2>3. FlowIn(image, F, own, At, cur.list, roots)
    BY DEF CodeInv, FlowTells
  <2> QED BY <1>1, <1>3, <2>1, <2>2, <2>3, FlowFollowed DEF Aligned
<1>8. /\ \A k \in M : Analyzed(o1, k)
      /\ IsStrictRoute => cur.start \in M
      /\ o1.vec[cur.start] = NoCode => ~cur.questionable
  <2> HIDE DEF o1
  <2>1. \A k \in M : Analyzed(o1, k)
    BY <1>1, <1>3, StepTells DEF Grown, ListAnalyzed
  <2>2. IsStrictRoute => cur.start \in M
    BY StepTells DEF RouteTells
  <2>3. o1.vec[cur.start] = NoCode => ~cur.questionable
    BY <1>1, <1>3, StepTells DEF Grown, RouteTells
  <2> QED BY <2>1, <2>2, <2>3
<1>9. CodeTypeOK' \/ own' \notin Owners(image)
  BY <1>1, <1>4, <1>5, <1>6 DEF CodeInv, CodeTypeOK, Places
<1>10. CASE ~off
  <2>1. own' = o1
    BY <1>10 DEF RollbackIf
  <2> HIDE DEF o1, off, B, M, r1
  <2>2. CodeTypeOK'
    BY <1>3, <1>9, <2>1 DEF OwnerInv
  <2>3. RouteTells(image', own', cur', place', IsStrictRoute')
    <3>1. IsStrictRoute' => IsStrictRoute
      BY <1>4 DEF IsStrictRoute
    <3> QED BY <1>1, <1>4, <1>5, <1>8, <2>1, <3>1 DEF RouteTells
  <2> QED BY <1>3, <1>4, <1>6, <1>7, <2>1, <2>2, <2>3 DEF CodeInv
<1>11. CASE off
  <2>1. own' = RollbackCurrentRoute(o1, r1) /\ B = {}
    BY <1>1, <1>4, <1>5, <1>11 DEF RollbackIf, Inside
  <2>2. ListAnalyzed(o1, r1) /\ r1.start \in M /\ IsStrictRoute
    BY <1>4, <1>8, <1>11 DEF ListAnalyzed
  <2>3. ~Has(o1, r1.start, "loading")
    BY <1>8, <2>2 DEF Analyzed, Has, Lacks
  <2>4. /\ r1.start \in Places(image) /\ r1.list \subseteq Places(image)
    BY <1>1, <1>4
  <2> DEFINE p == own'
             E == {}
  <2>5. E \subseteq {r1.start} /\ OwnerInv(image, o1, E, {}) /\ p = RollbackCurrentRoute(o1, r1)
    BY <1>3, <2>1
  <2> HIDE DEF o1, r1, M, B, p, E
  <2>6. OwnerInv(image, p, {}, {}) /\ RolledBack(image, o1, p, r1)
    BY <1>1, <2>2, <2>3, <2>4, <2>5, RouteRolledBack
  <2>7. FlowTells(image, p, {}, M, roots)
    <3> SUFFICES ASSUME NEW F \in SUBSET Places(image), SoundFlow(image, F)
                 PROVE  FlowIn(image, F, p, B, M, roots)
      BY <2>1 DEF FlowTells
    <3>1. FlowIn(image, F, o1, B, M, roots)
      BY <1>7 DEF FlowTells
    <3>2. place \notin F
      BY <1>1, <1>5, <1>11 DEF SoundFlow, Stops, StopsAt, Word, Arm, Inside
    <3>3. cur.list \cap F = {}
      BY <1>1, <3>2 DEF CodeInv, FlowTells, FlowIn
    <3>4. \A k \in F : ~InRoute(o1, r1, k)
      BY <1>4, <2>3, <3>2, <3>3 DEF InRoute, M
    <3> QED BY <1>1, <2>6, <3>1, <3>4, FlowKept
  <2>8. CodeTypeOK'
    BY <1>9, <2>6 DEF OwnerInv, p
  <2> QED BY <1>4, <1>6, <2>1, <2>6, <2>7, <2>8 DEF CodeInv, p
<1> QED BY <1>10, <1>11

\* The last route of the stack starts.
LEMMA SwitchToLastStateKeeps ==
  ASSUME CodeInv, SwitchToLastState PROVE CodeInv'
<1> USE DEF SwitchToLastState
<1> DEFINE n == Len(own.stack)
           p == own'
           k == cur'.start
<1>1. /\ image \in Images /\ own \in Owners(image) /\ own.stack \in Seq(Routes(image))
      /\ Starts(own) \subseteq Places(image) /\ ToStart = {} /\ At = {}
      /\ OwnerInv(image, own, {}, {}) /\ FlowTells(image, own, {}, cur.list, roots)
  <2>1. ToStart = {} /\ At = {}
    BY DEF ToStart, At
  <2> QED BY <2>1, OwnerTypes DEF CodeInv, CodeTypeOK
<1>2. /\ n \in Nat /\ n > 0 /\ DOMAIN own.stack = 1 .. n /\ cur' = own.stack[n]
      /\ cur' \in Routes(image)
  BY <1>1
<1>3. /\ p.vec = own.vec /\ p.xrefs = own.xrefs /\ p.count = own.count
      /\ p.stack = SubSeq(own.stack, 1, n - 1) /\ p.stack \in Seq(Routes(image))
      /\ p \in Owners(image)
  <2>1. /\ p.vec = own.vec /\ p.xrefs = own.xrefs /\ p.count = own.count
        /\ p.stack = SubSeq(own.stack, 1, n - 1)
        /\ p = [vec |-> own.vec, xrefs |-> own.xrefs, count |-> own.count, stack |-> p.stack]
    BY <1>1 DEF Owners
  <2>2. SubSeq(own.stack, 1, n - 1) \in Seq(Routes(image))
    BY <1>1, <1>2
  <2> HIDE DEF p
  <2> QED BY <1>1, <2>1, <2>2, OwnerTypes DEF Owners
<1>4. /\ DOMAIN p.stack = 1 .. n - 1 /\ \A m \in 1 .. n - 1 : p.stack[m] = own.stack[m]
  BY <1>1, <1>2, <1>3
<1> HIDE DEF p
<1>5. /\ \A m \in DOMAIN own.stack : own.stack[m].list = {} /\ own.vec[own.stack[m].start] # NoCode
        /\ own.stack[m].start % image.align = 0
        /\ (~own.stack[m].questionable => Certain(own, own.stack[m].start))
      /\ \A m, l \in DOMAIN own.stack : own.stack[m].start = own.stack[l].start => m = l
  BY <1>1 DEF OwnerInv, StackTells
<1>6. k \notin Starts(p) /\ Starts(own) = Starts(p) \cup {k}
  <2>1. k = own.stack[n].start /\ n \in DOMAIN own.stack /\ k \in Starts(own)
    BY <1>2 DEF Starts
  <2>2. k \notin Starts(p)
    <3> SUFFICES ASSUME NEW m \in DOMAIN p.stack, k = p.stack[m].start PROVE FALSE
      BY DEF Starts
    <3>1. m \in DOMAIN own.stack /\ own.stack[m].start = own.stack[n].start /\ m # n
      BY <1>2, <1>4, <2>1
    <3> QED BY <1>5, <2>1, <3>1
  <2>3. ASSUME NEW c \in Starts(p) PROVE c \in Starts(own)
    <3>1. PICK m \in DOMAIN p.stack : c = p.stack[m].start
      BY DEF Starts
    <3> QED BY <1>2, <1>4, <3>1 DEF Starts
  <2>4. ASSUME NEW c \in Starts(own) PROVE c \in Starts(p) \cup {k}
    <3>1. PICK m \in DOMAIN own.stack : c = own.stack[m].start
      BY DEF Starts
    <3>2. CASE m = n
      BY <2>1, <3>1, <3>2
    <3>3. CASE m # n
      <4>1. m \in DOMAIN p.stack
        BY <1>2, <1>4, <3>3
      <4> QED BY <1>4, <3>1, <4>1 DEF Starts
    <3> QED BY <3>2, <3>3
  <2> QED BY <2>1, <2>2, <2>3, <2>4
<1>7. ToStart' = {k} /\ At' = {k} /\ k \in Places(image) /\ place' = k
  BY <1>2 DEF ToStart, At, Routes
<1>8. OwnerInv(image, p, {k}, {})
  <2>1. \A c : Counted(own, {}, c) <=> Counted(p, {k}, c)
    BY <1>3, <1>6 DEF Counted, Doomed, Pending, Has, Lacks
  <2>2. CountTells(image, p, {k}) /\ TakenTells(image, p, {k})
    BY <1>1, <1>3, <2>1 DEF OwnerInv, CountTells, TakenTells
  <2>3. \A c : Certain(own, c) => Certain(p, c)
    BY <1>3 DEF Certain, Called, Has, Lacks
  <2>4. StackTells(image, p, {k})
    <3>1. \A m \in DOMAIN p.stack : m \in DOMAIN own.stack /\ p.stack[m] = own.stack[m]
      BY <1>2, <1>4
    <3> QED BY <1>3, <1>5, <1>6, <2>3, <3>1 DEF StackTells
  <2>5. LoadingTells(image, p, {k})
    BY <1>1, <1>3, <1>6 DEF OwnerInv, LoadingTells, Pending, Called, Has, Lacks
  <2>6. XrefsTell(p) /\ ShownTells(image, p, {})
    BY <1>1, <1>3 DEF OwnerInv, XrefsTell, ShownTells, Shown, Analyzed, Has, Lacks
  <2> QED BY <1>3, <2>2, <2>4, <2>5, <2>6 DEF OwnerInv
<1>9. /\ cur'.list = {} /\ own.vec[k] # NoCode /\ k % image.align = 0
      /\ (~cur'.questionable => Certain(own, k))
  BY <1>2, <1>5
<1>10. RouteTells(image, p, cur', k, IsStrictRoute')
  <2>1. ~cur'.questionable => Certain(p, k)
    BY <1>3, <1>9 DEF Certain, Called, Has, Lacks
  <2>2. k \in Nat
    BY <1>7 DEF Places
  <2> QED BY <1>3, <1>9, <2>1, <2>2 DEF RouteTells
<1>11. FlowTells(image, p, {k}, cur'.list, roots)
  <2> SUFFICES ASSUME NEW F \in SUBSET Places(image), SoundFlow(image, F)
               PROVE  FlowIn(image, F, p, {k}, cur'.list, roots)
    BY DEF FlowTells
  <2>1. FlowIn(image, F, own, {}, cur.list, roots)
    BY <1>1 DEF FlowTells
  <2> QED BY <1>3, <1>6, <1>9, <2>1 DEF FlowIn, Has, Lacks
<1>12. CodeTypeOK'
  <2>1. /\ cur'.questionable \in BOOLEAN /\ cur'.start \in Nat /\ cur'.list \subseteq Places(image)
        /\ cur' = [start |-> cur'.start, questionable |-> cur'.questionable, list |-> cur'.list]
    BY <1>2 DEF Routes, Places
  <2> QED BY <1>3, <1>7, <2>1 DEF CodeInv, CodeTypeOK, p, Places
<1> QED BY <1>7, <1>8, <1>10, <1>11, <1>12 DEF CodeInv, p

\* No route is left.
LEMMA FinishKeeps ==
  ASSUME CodeInv, Finish PROVE CodeInv'
<1> USE DEF Finish
<1>1. ToStart = {} /\ At = {} /\ ToStart' = {} /\ At' = {}
  BY DEF ToStart, At
<1>2. CodeTypeOK'
  BY DEF CodeInv, CodeTypeOK, Route
<1>3. FlowTells(image, own, {}, cur'.list, roots)
  BY <1>1 DEF CodeInv, FlowTells, FlowIn
<1> QED BY <1>1, <1>2, <1>3 DEF CodeInv

\* A seed: it is there already, or a route starts at it.
LEMMA BeginKeeps ==
  ASSUME CodeInv, NEW seed \in Places(image), NEW isStrict \in BOOLEAN, Begin(seed, isStrict),
         roots' = roots \/ roots' = roots \cup {seed}, scan' \in Int, scan' >= -1
  PROVE  CodeInv'
<1> USE DEF Begin
<1>1. /\ ToStart = {} /\ At = {} /\ image \in Images /\ own \in Owners(image) /\ own.stack = << >>
      /\ Starts(own) = {} /\ OwnerInv(image, own, {}, {})
      /\ FlowTells(image, own, {}, cur.list, roots)
  <2>1. ToStart = {} /\ At = {}
    BY DEF ToStart, At
  <2>2. own.stack = << >>
    BY DEF CodeInv, CodeTypeOK
  <2>3. Starts(own) = {}
    BY <2>2 DEF Starts
  <2> QED BY <2>1, <2>2, <2>3 DEF CodeInv, CodeTypeOK
<1>2. CASE own.vec[seed] # NoCode /\ UNCHANGED <<own, cur, place, strict, rpc>>
  <2>1. ToStart' = {} /\ At' = {}
    BY <1>2 DEF ToStart, At
  <2>2. FlowTells(image, own, {}, cur.list, roots')
    BY <1>1, <1>2 DEF FlowTells, FlowIn
  <2>3. CodeTypeOK'
    BY <1>2 DEF CodeInv, CodeTypeOK
  <2> QED BY <1>1, <1>2, <2>1, <2>2, <2>3 DEF CodeInv
<1>3. CASE own.vec[seed] = NoCode /\ rpc' = "step"
  <2>1. /\ own' = own /\ cur' = Route(seed, FALSE) /\ place' = seed /\ strict' = isStrict
        /\ rpc' = "step" /\ image' = image /\ seed \in Nat
    BY <1>1, <1>3 DEF Owners, Places
  <2>2. /\ cur'.start = seed /\ ~cur'.questionable /\ cur'.questionable \in BOOLEAN
        /\ cur'.list = {}
        /\ cur' = [start |-> cur'.start, questionable |-> cur'.questionable, list |-> cur'.list]
    BY <2>1 DEF Route
  <2>3. ToStart' = {seed} /\ At' = {seed}
    BY <2>1, <2>2 DEF ToStart, At
  <2>4. OwnerInv(image, own, {seed}, {})
    <3> DEFINE E == {seed}
               p == own
    <3>1. E = {seed} /\ p = own
      OBVIOUS
    <3> HIDE DEF E, p
    <3>2. OwnerInv(image, p, E, {})
      BY <1>1, <1>3, <3>1, SeedTaken
    <3> QED BY <3>1, <3>2
  <2>5. RouteTells(image, own, cur', seed, IsStrictRoute')
    <3>1. seed >= seed
      BY <2>1
    <3>2. cur'.start = seed /\ ~cur'.questionable /\ cur'.list = {} /\ own.vec[seed] = NoCode
      BY <1>3, <2>2
    <3> QED BY <3>1, <3>2 DEF RouteTells
  <2>6. FlowTells(image, own, {seed}, cur'.list, roots')
    BY <1>1, <2>2 DEF FlowTells, FlowIn
  <2>7. CodeTypeOK'
    BY <1>1, <2>1, <2>2 DEF CodeInv, CodeTypeOK
  <2> QED BY <2>1, <2>3, <2>4, <2>5, <2>6, <2>7 DEF CodeInv
<1> QED BY <1>2, <1>3

\* Nothing is analyzed at first.
LEMMA CodeInitTells == CodeInit => CodeInv
<1> SUFFICES ASSUME CodeInit PROVE CodeInv
  OBVIOUS
<1> USE DEF CodeInit
<1>1. Offsets = Places(image) /\ image \in Images /\ image.size \in Nat
  BY ImageTells DEF Offsets, Places
<1>2. /\ \A k \in Places(image) : own.vec[k] = NoCode
      /\ own.xrefs = {} /\ own.count = 0 /\ own.stack = << >>
  BY <1>1
<1>3. Starts(own) = {} /\ ToStart = {} /\ At = {}
  BY <1>2 DEF Starts, ToStart, At
<1>4. own \in Owners(image)
  <2>1. << >> \in Seq(Routes(image))
    OBVIOUS
  <2> QED BY <1>1, <2>1 DEF Owners
<1>5. CodeTypeOK
  <2>1. /\ cur.questionable \in BOOLEAN /\ cur.start = 0 /\ cur.list = {}
        /\ cur = [start |-> cur.start, questionable |-> cur.questionable, list |-> cur.list]
    BY DEF Route
  <2>2. /\ place = 0 /\ strict \in BOOLEAN /\ rpc = "rest" /\ scan = -1 /\ roots = {}
    OBVIOUS
  <2> HIDE DEF CodeInit
  <2>3. /\ place \in Nat /\ scan \in Int /\ scan >= -1 /\ roots \subseteq Places(image)
        /\ cur.start \in Nat /\ cur.list \subseteq Places(image)
    BY <2>1, <2>2
  <2> QED BY <1>1, <1>2, <1>4, <2>1, <2>2, <2>3 DEF CodeTypeOK
<1>6. CountTells(image, own, {})
  <2>1. {k \in Places(image) : Counted(own, {}, k)} = {}
    BY <1>2 DEF Counted, Doomed, Has, Lacks
  <2> QED BY <1>2, <2>1, FS_EmptySet DEF CountTells
<1>7. OwnerInv(image, own, {}, {})
  <2>1. StackTells(image, own, {})
    BY <1>2 DEF StackTells
  <2>2. XrefsTell(own) /\ TakenTells(image, own, {})
    BY <1>2 DEF XrefsTell, TakenTells
  <2>3. LoadingTells(image, own, {}) /\ ShownTells(image, own, {})
    BY <1>2 DEF LoadingTells, ShownTells, Analyzed, Has, Lacks
  <2> QED BY <1>4, <1>6, <2>1, <2>2, <2>3 DEF OwnerInv
<1>8. FlowTells(image, own, {}, cur.list, roots)
  BY <1>2 DEF FlowTells, FlowIn, Has, Lacks, Route
<1> QED BY <1>3, <1>5, <1>7, <1>8 DEF CodeInv

\* Every step keeps the invariant.
LEMMA CodeStepKeeps == CodeInv /\ [CodeNext]_crVars => CodeInv'
<1> SUFFICES ASSUME CodeInv, [CodeNext]_crVars PROVE CodeInv'
  OBVIOUS
<1>1. CASE UNCHANGED crVars
  <2>1. ToStart' = ToStart /\ At' = At /\ IsStrictRoute' = IsStrictRoute
    BY <1>1 DEF crVars, ToStart, At, IsStrictRoute
  <2>2. CodeTypeOK'
    BY <1>1 DEF crVars, CodeInv, CodeTypeOK
  <2> QED BY <1>1, <2>1, <2>2 DEF crVars, CodeInv
<1>2. CASE StartScan
  <2>1. ToStart' = ToStart /\ At' = At /\ rpc' # "step"
    BY <1>2 DEF StartScan, ToStart, At
  <2>2. CodeTypeOK'
    BY <1>2 DEF StartScan, CodeInv, CodeTypeOK
  <2> QED BY <1>2, <2>1, <2>2 DEF StartScan, CodeInv
<1>3. CASE ScanThrough
  <2>1. scan \in Places(image) /\ scan' \in Int /\ scan' >= -1
    <3>1. scan \in Int /\ image \in Images
      BY DEF CodeInv, CodeTypeOK
    <3> QED BY <1>3, <3>1, ImageTells DEF ScanThrough, Scanning, Inside, Places
  <2> DEFINE t == TRUE
  <2>2. Begin(scan, t) /\ t \in BOOLEAN /\ roots' = roots
    BY <1>3 DEF ScanThrough
  <2> HIDE DEF t
  <2> QED BY <2>1, <2>2, BeginKeeps
<1>4. ASSUME NEW seed \in Offsets, NEW isStrict \in BOOLEAN, AnalyzeCodeEx2(seed, isStrict)
      PROVE  CodeInv'
  <2>1. seed \in Places(image) /\ scan' \in Int /\ scan' >= -1
    BY <1>4 DEF AnalyzeCodeEx2, Offsets, Places, CodeInv, CodeTypeOK
  <2>2. Begin(seed, isStrict) /\ (roots' = roots \/ roots' = roots \cup {seed})
    BY <1>4 DEF AnalyzeCodeEx2
  <2> QED BY <2>1, <2>2, BeginKeeps
<1> QED BY <1>1, <1>2, <1>3, <1>4, SwitchToLastStateKeeps, FinishKeeps, NotAlignedKeeps,
           ParseFailsKeeps, JoinRouteKeeps, AnalyzeInstructionKeeps DEF CodeNext, AnalyzeStep

\* The inductive invariant of the analysis (diana_analyze.c): for any module,
\* any seeds and a scan at any time the owner's counter counts what is valid and
\* the routes that have still to be given up, the stack holds every route that
\* was promised, once, and nothing in a sound set of code is ever given up.
THEOREM CodeInvariant == CodeSpec => []CodeInv
<1>1. CodeInit => CodeInv
  BY CodeInitTells
<1>2. CodeInv /\ [CodeNext]_crVars => CodeInv'
  BY CodeStepKeeps
<1> QED BY <1>1, <1>2, PTL DEF CodeSpec

\* Between two analyses the owner is consistent: m_actualSize is the number of
\* valid instructions, a leftover start of a route is what code jumps to and what
\* does not decode, and the references tell what the code refers to.
THEOREM OwnerIsConsistent == CodeSpec => []OwnerTells
<1>1. CodeInv => OwnerTells
  <2> SUFFICES ASSUME CodeInv, rpc = "rest" PROVE OwnerCounts /\ ReferencesTell
    BY DEF OwnerTells, OwnerCounts, ReferencesTell
  <2>1. /\ image \in Images /\ own.stack = << >> /\ OwnerInv(image, own, {}, {})
        /\ Offsets = Places(image) /\ Starts(own) = {}
    <3>1. ToStart = {}
      BY DEF ToStart
    <3>2. own.stack = << >>
      BY DEF CodeInv, CodeTypeOK
    <3> QED BY <3>1, <3>2 DEF CodeInv, CodeTypeOK, Offsets, Places, Starts
  <2>2. \A k : Valid(k) <=> Lacks(own, k, "invalid")
    BY DEF Valid, Lacks
  <2>3. \A k : Counted(own, {}, k) <=> Valid(k)
    BY <2>1, <2>2 DEF Counted, Doomed, Pending
  <2>4. own.count = Cardinality({k \in Offsets : Valid(k)})
    <3>1. {k \in Places(image) : Counted(own, {}, k)} = {k \in Offsets : Valid(k)}
      BY <2>1, <2>3
    <3> QED BY <2>1, <3>1 DEF OwnerInv, CountTells
  <2>5. ASSUME NEW k \in Offsets, Valid(k), "loading" \in own.vec[k]
        PROVE  ~Decodes(k) /\ \E x \in own.xrefs : x.to = k /\ ~x.data /\ ~x.taken
    <3>1. Hopeless(image, k) /\ Called(own, k)
      BY <2>1, <2>2, <2>5 DEF OwnerInv, LoadingTells, Pending, Has, Valid
    <3>2. ~Decodes(k)
      <4>1. k \in Nat /\ image.size \in Nat /\ image.code[k].size \in Nat
        BY <2>1, ImageTells DEF Places
      <4>2. CASE image.code[k].kind = "bad"
        BY <4>2 DEF Decodes, Word
      <4>3. CASE k + image.code[k].size > image.size
        <5>1. ~(k + image.code[k].size <= image.size)
          BY <4>1, <4>3
        <5> QED BY <5>1 DEF Decodes, Word
      <4> QED BY <3>1, <4>2, <4>3 DEF Hopeless
    <3> QED BY <3>1, <3>2 DEF Called
  <2>6. \A x \in own.xrefs : ~x.gone => Valid(x.from)
    BY <2>1, <2>2 DEF OwnerInv, XrefsTell
  <2>7. \A x \in own.xrefs : ~x.gone /\ x.taken /\ ~x.data /\ Inside(x.to) => Valid(x.to)
    BY <2>1, <2>3 DEF OwnerInv, TakenTells, Inside
  <2>8. \A k \in Offsets :
         Valid(k) /\ "loading" \notin own.vec[k] /\ Word(k).kind \in {"take", "read"} =>
           \E x \in own.xrefs : x.from = k /\ x.to = Word(k).to /\ ~x.gone
    BY <2>1 DEF OwnerInv, ShownTells, Shown, Analyzed, Lacks, Valid, Word
  <2>9. OwnerCounts
    BY <2>4, <2>5 DEF OwnerCounts
  <2>10. ReferencesTell
    BY <2>6, <2>7, <2>8 DEF ReferencesTell
  <2> QED BY <2>9, <2>10
<1> QED BY <1>1, CodeInvariant, PTL

\* All that control can reach from the seeds is found, in any module where
\* nothing along the way is undecodable: no order of seeds, scans and routes that
\* are rolled back loses an instruction.
THEOREM RootsAreFound == CodeSpec => []RootsFound
<1>1. CodeInv => RootsFound
  <2> DEFINE F == RootFlow
             C == {k \in F : own.vec[k] # NoCode}
  <2> SUFFICES ASSUME CodeInv, rpc = "rest", IsSound(F), NEW k \in F
               PROVE  Valid(k) /\ "loading" \notin own.vec[k]
    BY DEF RootsFound
  <2>1. /\ image \in Images /\ own.stack = << >> /\ Offsets = Places(image) /\ Starts(own) = {}
        /\ FlowTells(image, own, {}, cur.list, roots) /\ roots \subseteq Offsets
    <3>1. At = {}
      BY DEF At
    <3>2. own.stack = << >>
      BY DEF CodeInv, CodeTypeOK
    <3> QED BY <3>1, <3>2 DEF CodeInv, CodeTypeOK, Offsets, Places, Starts
  <2>2. \A c \in Offsets : Successors(c) = SuccessorsIn(image, c) /\ Successors(c) \subseteq Offsets
    BY <2>1 DEF Successors, SuccessorsIn, Stops, StopsAt, Word
  <2>3. roots \subseteq F /\ F \subseteq Offsets /\ \A c \in F : Successors(c) \subseteq F
    <3>1. roots \subseteq F /\ F \subseteq Offsets
      BY <2>1 DEF RootFlow
    <3>2. ASSUME NEW c \in F, NEW s \in Successors(c) PROVE s \in F
      <4>1. s \in Offsets
        BY <2>2, <3>1
      <4>2. ASSUME NEW D \in SUBSET Offsets, roots \subseteq D,
                   \A d \in D : Successors(d) \subseteq D
            PROVE  s \in D
        <5>1. c \in D
          BY <4>2 DEF RootFlow
        <5> QED BY <4>2, <5>1
      <4> QED BY <4>1, <4>2 DEF RootFlow
    <3> QED BY <3>1, <3>2
  <2>4. SoundFlow(image, F)
    <3> HIDE DEF F
    <3> SUFFICES ASSUME NEW c \in F
                 PROVE  /\ image.code[c].kind \notin {"bad", "zero"}
                        /\ c + image.code[c].size <= image.size /\ c % image.align = 0
                        /\ image.align > 1 => 
                             /\ c + image.code[c].size < image.size \/ StopsAt(image, c)
                             /\ \A r \in Places(image) :
                                  ~(image.code[r].kind = "read" /\ image.code[r].to = c)
                        /\ SuccessorsIn(image, c) \subseteq F
      BY DEF SoundFlow
    <3>1. SuccessorsIn(image, c) \subseteq F
      BY <2>2, <2>3
    <3> QED BY <2>1, <3>1 DEF IsSound, Word, Aligned, Arm, Inside, Stops, StopsAt
  <2>5. F \in SUBSET Places(image)
    BY <2>1, <2>3
  <2> HIDE DEF F
  <2>6. FlowIn(image, F, own, {}, cur.list, roots)
    BY <2>1, <2>4, <2>5 DEF FlowTells
  <2>7. ASSUME NEW c \in F, own.vec[c] # NoCode
        PROVE  Lacks(own, c, "invalid") /\ Lacks(own, c, "loading")
    BY <2>1, <2>6, <2>7 DEF FlowIn, Has, Lacks
  <2>8. roots \subseteq C
    BY <2>3, <2>6 DEF FlowIn
  <2>9. ASSUME NEW c \in C PROVE Successors(c) \subseteq C
    <3>1. c \in F /\ Lacks(own, c, "loading") /\ c \in Offsets
      BY <2>3, <2>7
    <3>2. \A s \in SuccessorsIn(image, c) : own.vec[s] # NoCode
      BY <2>6, <3>1 DEF FlowIn
    <3> QED BY <2>2, <2>3, <3>1, <3>2
  <2>10. k \in C
    <3>1. C \in SUBSET Offsets
      BY <2>3
    <3> HIDE DEF C
    <3> QED BY <2>8, <2>9, <3>1 DEF F, RootFlow
  <2> QED BY <2>7, <2>10 DEF Valid, Lacks
<1> QED BY <1>1, CodeInvariant, PTL
=============================================================================
