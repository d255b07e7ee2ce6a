--------------------------- MODULE AnalyzerProofs ---------------------------
(***************************************************************************)
(* Proofs about ModuleAnalyzer for any number of items, commands, floating *)
(* modules and addresses, whatever the user does and whatever throws; and  *)
(* about ConsoleMode, which drives it, for any targets and commands.       *)
(***************************************************************************)
EXTENDS ConsoleMode, FiniteSetTheorems, NaturalsInduction, WellFoundedInduction, TLAPS

Floating(r) == r.kind = "floating"

\* An item is referred to only after RegisterItem gave it its uid.
Born ==
    /\ items \subseteq 1..lastUid
    /\ \A i \in Items : opener[i] # "new" => i <= lastUid
    /\ ui.item <= lastUid /\ cmd.item <= lastUid /\ task.item <= lastUid
    /\ \A r \in ToSet(queue) : r.item <= lastUid
    /\ \A t \in Threads : \A r \in ToSet(todo[t]) : r.item <= lastUid

\* RemoveItem: the item it closes and the one it will activate are there.
RemoveInv ==
    /\ ActiveExists
    /\ ui.pc \in {"mark", "cancel", "pick"} => ui.item \in items
    /\ ui.pc = "pick" => ui.next \in (items \ {ui.item}) \cup {NoItem}

\* A command that runs has an item and an operation.
CommandInv == cmd.pc # "idle" => cmd.item \in Items /\ cmd.op \in Ops

\* The worker's own calls: one at a time, at the end of its task and for the
\* item of its task; no other thread asks for a floating pass.
Calling == todo[WORK] # << >>
WorkerInv ==
    /\ \A t \in Threads \ {WORK} :
         step[t] # "mark" /\ \A r \in ToSet(todo[t]) : ~Floating(r)
    /\ IF wpc = "idle" THEN task = NoTask ELSE task \in Request
    /\ ~Calling => step[WORK] = "test"
    /\ Calling =>
         /\ Len(todo[WORK]) = 1 /\ todo[WORK][1].item = task.item
         /\ wpc = IF Floating(todo[WORK][1]) THEN "cleanup" ELSE "end"
         /\ step[WORK] = "mark" => Floating(todo[WORK][1])

\* The modules that wait are floating modules of a registered item, and a
\* pass has no more to do than waits.
PassInv ==
    /\ \A i \in Items : undone[i] <= found[i] /\ (undone[i] > 0 => i <= lastUid)
    /\ wpc = "pass" => left <= undone[task.item] /\ Floating(task)

\* Two objects that exist are not at one address.
AddrInv == \A i, j \in Items : i # j /\ Alive(i) /\ Alive(j) => addr[i] # addr[j]

\* Who stands for an entry of m_floatingQueued: a task of the queue, the one
\* that has just been taken, and the worker between its insert and AddTask.
StartsPass == wpc = "start" /\ Floating(task)
AddsPass == Calling /\ Floating(todo[WORK][1]) /\ step[WORK] \in {"register", "add"}
RunsPass == wpc \in {"start", "work", "pass"} /\ Floating(task)

\* Every entry has someone who stands for it.
MarkHeld ==
    \A a \in marked :
        \/ \E r \in ToSet(queue) : Floating(r) /\ addr[r.item] = a
        \/ StartsPass /\ addr[task.item] = a
        \/ AddsPass /\ addr[todo[WORK][1].item] = a

\* ... and only one.
MarkSingle ==
    /\ \A r \in ToSet(queue) : Floating(r) => addr[r.item] \in marked
    /\ StartsPass => addr[task.item] \in marked
    /\ AddsPass => addr[todo[WORK][1].item] \in marked
    /\ \A p, q \in 1..Len(queue) :
         p < q /\ Floating(queue[p]) /\ Floating(queue[q]) => addr[queue[p].item] # addr[queue[q].item]
    /\ StartsPass => \A r \in ToSet(queue) : Floating(r) => addr[r.item] # addr[task.item]
    /\ AddsPass => \A r \in ToSet(queue) : Floating(r) => addr[r.item] # addr[todo[WORK][1].item]
    /\ RunsPass => \A r \in ToSet(queue) : Floating(r) => r.item # task.item

\* The queue is first in, first out: what is queued for an object comes after
\* the pass of one that was at its address before.
OrderInv ==
    \A p \in 1..Len(queue) : Floating(queue[p]) =>
        \A i \in Items : i # queue[p].item /\ addr[i] = addr[queue[p].item] /\ Alive(i) =>
            task.item # i /\ \A q \in 1..(p - 1) : queue[q].item # i

\* A pass is made for one of those who asked for it.
AskedInv ==
    /\ \A r \in ToSet(queue) : Floating(r) => r.op \in asked[r.item]
    /\ RunsPass => task.op \in asked[task.item]
    /\ Calling /\ Floating(todo[WORK][1]) => todo[WORK][1].op \in asked[todo[WORK][1].item]

\* Modules that wait have a pass on its way.
Owed(i) == undone[i] > 0 /\ found[i] <= MaxFloating /\ i \notin broken /\ asked[i] \cap cancelled = {}
Coming(i) ==
    \/ \E r \in ToSet(queue) : Floating(r) /\ r.item = i
    \/ RunsPass /\ task.item = i
    \/ Calling /\ Floating(todo[WORK][1]) /\ todo[WORK][1].item = i
ServedInv == \A i \in items \ deleting : Owed(i) => Coming(i)

AnalyzerInv ==
    /\ TypeOK /\ IsFiniteSet(ops)
    /\ Born /\ RemoveInv /\ CommandInv /\ WorkerInv /\ PassInv
    /\ AddrInv /\ MarkHeld /\ MarkSingle /\ OrderInv /\ AskedInv /\ ServedInv

-----------------------------------------------------------------------------
(* Sequences, numbers and identifiers.                                      *)

\* The least-number principle.
LEMMA LeastNat ==
    ASSUME NEW T \in SUBSET Nat, T # {}
    PROVE  \E n \in T : \A m \in T : n <= m
<1>1. IsWellFoundedOn(OpToRel(<, Nat), Nat)
  BY NatLessThanWellFounded
<1>2. PICK n \in T : \A m \in T : ~(<<m, n>> \in OpToRel(<, Nat))
  BY <1>1, WFMin
<1>3. ASSUME NEW m \in T PROVE n <= m
  <2>1. ~(m < n)
    BY <1>2 DEF OpToRel
  <2> QED BY <2>1
<1> QED BY <1>3

\* Min of a set of numbers is one of them.
LEMMA MinIn ==
    ASSUME NEW T \in SUBSET Nat, T # {}
    PROVE  Min(T) \in T
<1>1. \E n \in T : \A m \in T : n <= m
  BY LeastNat
<1> QED BY <1>1 DEF Min

\* So is Max, when there is a bound.
LEMMA MaxIn ==
    ASSUME NEW T \in SUBSET Nat, T # {}, NEW b \in Nat, \A m \in T : m <= b
    PROVE  Max(T) \in T
<1> DEFINE D == {d \in Nat : \E m \in T : d = b - m}
<1>1. D \in SUBSET Nat /\ D # {}
  <2>1. PICK m \in T : TRUE
    OBVIOUS
  <2>2. b - m \in Nat
    BY <2>1
  <2>3. b - m \in D
    BY <2>2
  <2> QED BY <2>3
<1> HIDE DEF D
<1>2. PICK d \in D : \A e \in D : d <= e
  BY <1>1, LeastNat
<1>3. PICK n \in T : d = b - n
  BY <1>2 DEF D
<1>4. ASSUME NEW m \in T PROVE n >= m
  <2>1. b - m \in D
    BY DEF D
  <2> QED BY <2>1, <1>2, <1>3
<1> QED BY <1>4 DEF Max

\* What a sequence holds after Append and before Tail.
LEMMA AppendSet ==
    ASSUME NEW S, NEW q \in Seq(S), NEW r \in S
    PROVE  ToSet(Append(q, r)) = ToSet(q) \cup {r}
<1> DEFINE a == Append(q, r)
           n == Len(q)
<1>1. /\ n \in Nat /\ a[n + 1] = r /\ \A i \in 1..n : a[i] = q[i]
      /\ DOMAIN q = 1..n /\ DOMAIN a = 1..(n + 1)
  OBVIOUS
<1> HIDE DEF a, n
<1>2. \A i \in DOMAIN a : a[i] = r \/ (i \in DOMAIN q /\ a[i] = q[i])
  <2> SUFFICES ASSUME NEW i \in 1..(n + 1), i \notin 1..n PROVE a[i] = r
    BY <1>1
  <2>1. i = n + 1
    BY <1>1
  <2> QED BY <1>1, <2>1
<1>3. \A i \in DOMAIN q : i \in DOMAIN a /\ a[i] = q[i]
  BY <1>1
<1>4. \E i \in DOMAIN a : a[i] = r
  BY <1>1
<1>5. ToSet(a) = ToSet(q) \cup {r}
  BY <1>2, <1>3, <1>4 DEF ToSet
<1> QED BY <1>5 DEF a

LEMMA TailSet ==
    ASSUME NEW S, NEW q \in Seq(S), q # << >>
    PROVE  /\ ToSet(q) = ToSet(Tail(q)) \cup {Head(q)}
           /\ Tail(q) \in Seq(S) /\ Head(q) \in S
<1>1. Len(q) \in Nat \ {0} /\ Head(q) = q[1] /\ Len(Tail(q)) = Len(q) - 1 /\ Tail(q) \in Seq(S)
  OBVIOUS
<1> DEFINE t == Tail(q)
           h == Head(q)
<1>2. \A i \in 1..(Len(q) - 1) : t[i] = q[i + 1]
  BY <1>1
<1> HIDE DEF t, h
<1>3. DOMAIN q = 1..Len(q) /\ DOMAIN t = 1..(Len(q) - 1)
  BY <1>1 DEF t
<1>4. \A i \in DOMAIN q : q[i] = h \/ (i - 1 \in DOMAIN t /\ q[i] = t[i - 1])
  <2> SUFFICES ASSUME NEW i \in DOMAIN q, i # 1 PROVE i - 1 \in DOMAIN t /\ q[i] = t[i - 1]
    BY <1>1 DEF h
  <2>1. i - 1 \in 1..(Len(q) - 1) /\ (i - 1) + 1 = i
    BY <1>1, <1>3
  <2> QED BY <2>1, <1>2, <1>3
<1>5. \A i \in DOMAIN t : i + 1 \in DOMAIN q /\ t[i] = q[i + 1]
  BY <1>1, <1>2, <1>3
<1>6. 1 \in DOMAIN q /\ q[1] = h
  BY <1>1, <1>3 DEF h
<1>7. ToSet(q) = ToSet(t) \cup {h}
  BY <1>4, <1>5, <1>6 DEF ToSet
<1> QED BY <1>1, <1>7 DEF t, h

LEMMA SeqSet ==
    ASSUME NEW S, NEW q \in Seq(S)
    PROVE  /\ ToSet(q) \subseteq S
           /\ \A i \in 1..Len(q) : q[i] \in ToSet(q)
           /\ \A r \in ToSet(q) : \E i \in 1..Len(q) : q[i] = r
           /\ IsFiniteSet(ToSet(q))
<1>1. /\ ToSet(q) \subseteq S
      /\ \A i \in 1..Len(q) : q[i] \in ToSet(q)
      /\ \A r \in ToSet(q) : \E i \in 1..Len(q) : q[i] = r
  BY DEF ToSet
<1>2. IsFiniteSet(1..Len(q))
  BY FS_Interval
<1>3. q \in [1..Len(q) -> S]
  OBVIOUS
<1>4. q \in Surjection(1..Len(q), ToSet(q))
  BY <1>1, <1>3 DEF Surjection, ToSet
<1>5. IsFiniteSet(ToSet(q))
  BY <1>2, <1>4, FS_Surjection
<1> QED BY <1>1, <1>5

LEMMA EmptySet == ToSet(<< >>) = {}
BY DEF ToSet

LEMMA SingleSet ==
    ASSUME NEW r
    PROVE  ToSet(<<r>>) = {r}
BY DEF ToSet

\* EnqueueAnalysisOps: at most one analysis and one load of symbols, for the
\* item and with operations of its own.
LEMMA AnalysisCalls ==
    ASSUME NEW i \in Items, NEW tasks
    PROVE  /\ AnalysisOps(i, tasks) \in Seq(Request)
           /\ \A r \in ToSet(AnalysisOps(i, tasks)) : r.item = i /\ ~Floating(r)
<1> DEFINE a == Call("analyze", i, <<"analyze", i>>, i, FALSE, FALSE)
           b == Call("symbols", i, <<"symbols", i>>, i, FALSE, "analyze" \in tasks)
<1>1. a \in Request /\ a.item = i /\ a.kind = "analyze"
  BY DEF Call, Request, Kinds, Ops
<1>2. b \in Request /\ b.item = i /\ b.kind = "symbols"
  BY DEF Call, Request, Kinds, Ops
<1> HIDE DEF a, b
<1>3. AnalysisOps(i, tasks) = (IF "analyze" \in tasks THEN <<a>> ELSE << >>) \o
                              (IF "symbols" \in tasks THEN <<b>> ELSE << >>)
  BY DEF AnalysisOps, a, b
<1>4. AnalysisOps(i, tasks) \in {<< >>, <<a>>, <<b>>, <<a, b>>}
  <2>1. << >> \o << >> = << >> /\ <<a>> \o << >> = <<a>> /\ << >> \o <<b>> = <<b>>
    OBVIOUS
  <2>2. <<a>> \o <<b>> = <<a, b>>
    <3> DEFINE c == <<a>> \o <<b>>
    <3>1. c \in Seq({a, b}) /\ Len(c) = 2 /\ c[1] = a /\ c[2] = b
      OBVIOUS
    <3> HIDE DEF c
    <3>2. c = <<a, b>>
      BY <3>1
    <3> QED BY <3>2 DEF c
  <2> QED BY <1>3, <2>1, <2>2, Zenon
<1>5. /\ << >> \in Seq(Request) /\ <<a>> \in Seq(Request)
      /\ <<b>> \in Seq(Request) /\ <<a, b>> \in Seq(Request)
  BY <1>1, <1>2
<1>6. /\ ToSet(<< >>) = {} /\ ToSet(<<a>>) = {a} /\ ToSet(<<b>>) = {b} /\ ToSet(<<a, b>>) = {a, b}
  <2>1. DOMAIN <<a, b>> = {1, 2} /\ <<a, b>>[1] = a /\ <<a, b>>[2] = b
    OBVIOUS
  <2>2. ToSet(<<a, b>>) = {<<a, b>>[j] : j \in {1, 2}}
    BY <2>1 DEF ToSet
  <2>3. ToSet(<<a, b>>) = {a, b}
    BY <2>1, <2>2
  <2> QED BY <2>3, EmptySet, SingleSet
<1> QED BY <1>1, <1>2, <1>4, <1>5, <1>6 DEF Floating

\* The ids of the records of a finite set.
LEMMA IdsFinite ==
    ASSUME NEW S, IsFiniteSet(S)
    PROVE  IsFiniteSet({r.id : r \in S})
<1> DEFINE T == {r.id : r \in S}
           f == [r \in S |-> r.id]
<1>1. f \in Surjection(S, T)
  BY DEF Surjection
<1> HIDE DEF f, T
<1>2. IsFiniteSet(T)
  BY <1>1, FS_Surjection
<1> QED BY <1>2 DEF T

\* m_nextItemId: there is always an id that no task has.
LEMMA NewIdType ==
    ASSUME TypeOK, IsFiniteSet(ops)
    PROVE  NewId \in Ids
<1>1. IsFiniteSet({o.id : o \in ops})
  BY IdsFinite
<1>2. IsFiniteSet({r.id : r \in ToSet(queue) \cup {task}})
  <2>1. IsFiniteSet(ToSet(queue))
    BY SeqSet DEF TypeOK
  <2>2. IsFiniteSet(ToSet(queue) \cup {task})
    BY <2>1, FS_Singleton, FS_Union
  <2> QED BY <2>2, IdsFinite
<1>3. IsFiniteSet(Threads)
  <2>1. IsFiniteSet(Items)
    BY AnalyzerAssumption, FS_Interval DEF Items
  <2>2. IsFiniteSet({UI, CMD, WORK})
    <3>1. IsFiniteSet({UI} \cup {CMD} \cup {WORK})
      BY FS_Singleton, FS_Union
    <3>2. {UI, CMD, WORK} = {UI} \cup {CMD} \cup {WORK}
      OBVIOUS
    <3> QED BY <3>1, <3>2
  <2> DEFINE O == {OPEN(i) : i \in Items}
             f == [i \in Items |-> OPEN(i)]
  <2>3. f \in Surjection(Items, O)
    BY DEF Surjection
  <2> HIDE DEF f, O
  <2>4. IsFiniteSet(O)
    BY <2>1, <2>3, FS_Surjection
  <2>5. IsFiniteSet({UI, CMD, WORK} \cup O)
    BY <2>2, <2>4, FS_Union
  <2> QED BY <2>5 DEF O, Threads
<1> DEFINE X(t) == {r.id : r \in ToSet(todo[t])}
           Y == {X(t) : t \in Threads}
           f == [t \in Threads |-> X(t)]
<1>4. IsFiniteSet(UNION Y)
  <2>1. \A t \in Threads : IsFiniteSet(X(t))
    <3> TAKE t \in Threads
    <3>1. IsFiniteSet(ToSet(todo[t]))
      BY SeqSet DEF TypeOK
    <3> QED BY <3>1, IdsFinite
  <2> HIDE DEF X
  <2>2. f \in Surjection(Threads, Y)
    BY DEF Surjection
  <2>3. \A T \in Y : IsFiniteSet(T)
    BY <2>1
  <2> HIDE DEF f, Y
  <2>4. IsFiniteSet(Y)
    BY <1>3, <2>2, FS_Surjection
  <2> QED BY <2>3, <2>4, FS_UNION
<1>5. UsedIds = {o.id : o \in ops} \cup {r.id : r \in ToSet(queue) \cup {task}} \cup UNION Y
  BY DEF UsedIds
<1>6. IsFiniteSet(UsedIds)
  <2> HIDE DEF Y
  <2> QED BY <1>1, <1>2, <1>4, <1>5, FS_Union
<1> DEFINE n == Cardinality(UsedIds)
           free == (1..(n + 1)) \ UsedIds
<1>7. n \in Nat
  BY <1>6, FS_CardinalityType
<1>8. free # {}
  <2> SUFFICES ASSUME 1..(n + 1) \in SUBSET UsedIds PROVE FALSE
    OBVIOUS
  <2> DEFINE I == 1..(n + 1)
  <2>1. Cardinality(I) <= n
    BY <1>6, FS_Subset
  <2>2. Cardinality(I) = n + 1
    BY <1>7, FS_Interval
  <2> HIDE DEF n
  <2> QED BY <1>7, <2>1, <2>2
<1>9. free \in SUBSET Nat
  BY <1>7
<1>10. NewId = Min(free)
  BY DEF NewId
<1> HIDE DEF n, free
<1>11. Min(free) \in free
  BY <1>8, <1>9, MinIn
<1> QED BY <1>7, <1>10, <1>11 DEF free, Ids


-----------------------------------------------------------------------------
(* What the invariant says of the threads.                                  *)

\* The threads are different ones.
LEMMA ThreadNames ==
    /\ WORK \in Threads /\ UI \in Threads \ {WORK} /\ CMD \in Threads \ {WORK}
    /\ \A i \in Items : OPEN(i) \in Threads \ {WORK}
BY DEF Threads, WORK, UI, CMD, OPEN

\* A task that runs is a request.
LEMMA WorkerTask ==
    ASSUME AnalyzerInv, wpc # "idle"
    PROVE  /\ task \in Request /\ task.item \in Items /\ task.op \in Ops
           /\ task.ws \in Items \cup {NoItem} /\ task.kind \in Kinds
<1>1. task \in Request
  BY DEF AnalyzerInv, WorkerInv
<1> QED BY <1>1 DEF Request

\* The worker calls Enqueue only at the end of its task.
LEMMA WorkerQuiet ==
    ASSUME AnalyzerInv, wpc \notin {"cleanup", "end"}
    PROVE  todo[WORK] = << >> /\ step[WORK] = "test"
BY DEF AnalyzerInv, WorkerInv, Calling

\* What is queued or called are requests.
LEMMA Requests ==
    ASSUME TypeOK
    PROVE  /\ \A r \in ToSet(queue) : r \in Request /\ r.item \in Items
           /\ \A t \in Threads : \A r \in ToSet(todo[t]) : r \in Request /\ r.item \in Items
           /\ \A t \in Threads : todo[t] # << >> =>
                /\ Head(todo[t]) = todo[t][1] /\ todo[t][1] \in Request
                /\ todo[t][1] \in ToSet(todo[t])
<1>1. \A r \in Request : r.item \in Items
  BY DEF Request
<1>2. \A r \in ToSet(queue) : r \in Request
  BY SeqSet DEF TypeOK
<1>3. ASSUME NEW t \in Threads
      PROVE  /\ \A r \in ToSet(todo[t]) : r \in Request
             /\ todo[t] # << >> =>
                /\ Head(todo[t]) = todo[t][1] /\ todo[t][1] \in Request
                /\ todo[t][1] \in ToSet(todo[t])
  <2>1. todo[t] \in Seq(Request)
    BY DEF TypeOK
  <2>2. \A r \in ToSet(todo[t]) : r \in Request
    BY <2>1, SeqSet
  <2> DEFINE x == todo[t]
  <2>3. x # << >> => Head(x) = x[1] /\ 1 \in 1..Len(x)
    BY <2>1
  <2> HIDE DEF x
  <2>4. x # << >> => x[1] \in ToSet(x)
    BY <2>1, <2>3, SeqSet DEF x
  <2> QED BY <2>2, <2>3, <2>4 DEF x
<1> QED BY <1>1, <1>2, <1>3

\* One thread's calls change.
LEMMA CallsChanged ==
    ASSUME TypeOK, NEW t \in Threads, NEW x \in Seq(Request), todo' = [todo EXCEPT ![t] = x]
    PROVE  /\ todo' \in [Threads -> Seq(Request)]
           /\ todo'[t] = x /\ \A u \in Threads \ {t} : todo'[u] = todo[u]
BY DEF TypeOK

-----------------------------------------------------------------------------
(* Steps that leave the pool and the Enqueue calls alone.                   *)

\* Items are only closed, operations only cancelled, and no thread holds an
\* item it did not hold or that is not in the list.
LEMMA Aside ==
    ASSUME AnalyzerInv,
           UNCHANGED <<lastUid, addr, todo, step, queue, task, wpc, left, ops, marked, flags,
                       found, undone, asked, broken>>,
           items' \subseteq items,
           active' \in Items \cup {NoItem}, pending' \subseteq Items, dialog' \subseteq Items,
           deleting \subseteq deleting', deleting' \subseteq Items,
           cancelled \subseteq cancelled', cancelled' \subseteq Ops,
           opener' \in [Items -> {"new", "ask", "calls", "reply", "askReply", "done"}],
           ui' \in [pc : {"idle", "mark", "cancel", "pick", "stop", "join", "closed"},
                    item : Items \cup {NoItem}, next : Items \cup {NoItem}],
           cmd' \in [pc : {"idle", "queued", "run"}, item : Items \cup {NoItem},
                     op : Ops \cup {<<"none", 0>>}],
           cmdCount' \in 0..Commands,
           wsOps' \in [Items \cup {NoItem} -> SUBSET Ops],
           \A k \in Items : opener'[k] \in {"ask", "calls"} => opener'[k] = opener[k],
           \A k \in Items : opener[k] = "new" => opener'[k] = "new",
           ui'.item \in items \cup {ui.item, NoItem},
           cmd'.item \in items \cup {cmd.item, NoItem},
           RemoveInv', CommandInv'
    PROVE  AnalyzerInv'
<1> USE DEF AnalyzerInv
<1>type. TypeOK'
  BY DEF TypeOK
<1>none. \A k \in Items : k # NoItem
  BY DEF Items, NoItem
<1>alive. \A k \in Items : Alive(k)' => Alive(k)
  BY <1>none DEF Alive
<1>born. Born'
  <2>1. lastUid \in Nat /\ \A k \in items : k <= lastUid
    BY AnalyzerAssumption DEF Born, TypeOK
  <2>2. ui.item <= lastUid /\ cmd.item <= lastUid /\ NoItem <= lastUid
    BY <2>1 DEF Born, NoItem
  <2>3. ui'.item <= lastUid /\ cmd'.item <= lastUid
    BY <2>1, <2>2
  <2>4. items' \subseteq 1..lastUid /\ \A k \in Items : opener'[k] # "new" => k <= lastUid
    BY DEF Born
  <2> QED BY <2>3, <2>4 DEF Born
<1>worker. WorkerInv'
  BY DEF WorkerInv, Calling
<1>pass. PassInv'
  BY DEF PassInv
<1>distinct. AddrInv'
  BY <1>alive DEF AddrInv
<1>held. MarkHeld'
  BY DEF MarkHeld, StartsPass, AddsPass, Calling
<1>single. MarkSingle'
  BY DEF MarkSingle, StartsPass, AddsPass, RunsPass, Calling
<1>order. OrderInv'
  BY <1>alive DEF OrderInv
<1>asks. AskedInv'
  BY DEF AskedInv, RunsPass, Calling
<1>served. ServedInv'
  BY DEF ServedInv, Owed, Coming, RunsPass, Calling
<1> QED BY <1>type, <1>born, <1>worker, <1>pass, <1>distinct, <1>held, <1>single, <1>order,
           <1>asks, <1>served

\* StartOrAskAutoTasks leaves the choice to the user.
LEMMA AskHolds ==
    ASSUME AnalyzerInv, NEW i \in Items, Ask(i)
    PROVE  AnalyzerInv'
<1> USE DEF AnalyzerInv
<1>1. UNCHANGED <<items, lastUid, active, deleting, addr, dialog, ui, cmd, cmdCount, todo, step,
                  queue, task, wpc, left, ops, wsOps, cancelled, marked, flags, found, undone,
                  asked, broken>>
  BY DEF Ask, cmdVars, callVars, poolVars, opVars, dataVars
<1>2. /\ opener' \in [Items -> {"new", "ask", "calls", "reply", "askReply", "done"}]
      /\ \A k \in Items : opener'[k] \in {"ask", "calls"} => opener'[k] = opener[k]
      /\ \A k \in Items : opener[k] = "new" => opener'[k] = "new"
  BY DEF Ask, TypeOK
<1>3. pending' \subseteq Items
  BY DEF Ask, TypeOK
<1>4. RemoveInv' /\ CommandInv'
  BY <1>1 DEF RemoveInv, ActiveExists, CommandInv
<1> QED BY <1>1, <1>2, <1>3, <1>4, Aside DEF TypeOK

\* The reply of the opening thread.
LEMMA OpenedHolds ==
    ASSUME AnalyzerInv, NEW i \in Items, Opened(i)
    PROVE  AnalyzerInv'
<1> USE DEF AnalyzerInv
<1>1. UNCHANGED <<items, lastUid, active, pending, deleting, addr, dialog, ui, cmd, cmdCount, todo,
                  step, queue, task, wpc, left, ops, wsOps, cancelled, marked, flags, found,
                  undone, asked, broken>>
  BY DEF Opened, itemVars, cmdVars, callVars, poolVars, opVars, dataVars
<1>2. /\ opener' \in [Items -> {"new", "ask", "calls", "reply", "askReply", "done"}]
      /\ \A k \in Items : opener'[k] \in {"ask", "calls"} => opener'[k] = opener[k]
      /\ \A k \in Items : opener[k] = "new" => opener'[k] = "new"
  BY DEF Opened, TypeOK
<1>3. RemoveInv' /\ CommandInv'
  BY <1>1 DEF RemoveInv, ActiveExists, CommandInv
<1> QED BY <1>1, <1>2, <1>3, Aside DEF TypeOK

\* OnFileOpen activates an item only when it is still in the list.
LEMMA OnFileOpenHolds ==
    ASSUME AnalyzerInv, NEW i \in Items, OnFileOpen(i)
    PROVE  AnalyzerInv'
<1> USE DEF AnalyzerInv
<1>1. UNCHANGED <<items, lastUid, pending, deleting, addr, ui, cmd, cmdCount, todo, step, queue,
                  task, wpc, left, ops, wsOps, cancelled, marked, flags, found, undone, asked,
                  broken>>
  BY DEF OnFileOpen, cmdVars, callVars, poolVars, opVars, dataVars
<1>2. /\ opener' \in [Items -> {"new", "ask", "calls", "reply", "askReply", "done"}]
      /\ \A k \in Items : opener'[k] \in {"ask", "calls"} => opener'[k] = opener[k]
      /\ \A k \in Items : opener[k] = "new" => opener'[k] = "new"
  BY DEF OnFileOpen, TypeOK
<1>3. dialog' \subseteq Items
  BY DEF OnFileOpen, TypeOK
<1>4. active' \in items \cup {NoItem} /\ ui.pc = "idle"
  BY DEF OnFileOpen, UIReady, RemoveInv, ActiveExists
<1>5. RemoveInv' /\ CommandInv'
  BY <1>1, <1>4 DEF RemoveInv, ActiveExists, CommandInv
<1> QED BY <1>1, <1>2, <1>3, <1>4, <1>5, Aside DEF TypeOK

LEMMA SetActiveItemHolds ==
    ASSUME AnalyzerInv, NEW i \in Items, SetActiveItem(i)
    PROVE  AnalyzerInv'
<1> USE DEF AnalyzerInv
<1>1. UNCHANGED <<items, lastUid, pending, deleting, addr, opener, dialog, ui, cmd, cmdCount, todo,
                  step, queue, task, wpc, left, ops, wsOps, cancelled, marked, flags, found,
                  undone, asked, broken>>
  BY DEF SetActiveItem, uiVars, cmdVars, callVars, poolVars, opVars, dataVars
<1>2. active' \in items \cup {NoItem} /\ active' \in Items \cup {NoItem}
  BY DEF SetActiveItem, TypeOK
<1>3. RemoveInv' /\ CommandInv'
  BY <1>1, <1>2 DEF RemoveInv, ActiveExists, CommandInv
<1> QED BY <1>1, <1>2, <1>3, Aside, SMTT(60) DEF TypeOK

\* RemoveItem closes the active item.
LEMMA RemoveMarkHolds ==
    ASSUME AnalyzerInv, RemoveMark
    PROVE  AnalyzerInv'
<1> USE DEF AnalyzerInv
<1>1. UNCHANGED <<items, lastUid, active, addr, opener, dialog, cmd, cmdCount, todo, step, queue,
                  task, wpc, left, ops, wsOps, cancelled, marked, flags, found, undone, asked,
                  broken>>
  BY DEF RemoveMark, cmdVars, callVars, poolVars, opVars, dataVars
<1>2. /\ active \in items /\ active \in Items
      /\ ui' = [pc |-> "mark", item |-> active, next |-> NoItem]
      /\ deleting' = deleting \cup {active} /\ pending' = pending \ {active}
  BY DEF RemoveMark, RemoveInv, ActiveExists, TypeOK
<1>3. /\ ui' \in [pc : {"idle", "mark", "cancel", "pick", "stop", "join", "closed"},
                  item : Items \cup {NoItem}, next : Items \cup {NoItem}]
      /\ ui'.pc = "mark" /\ ui'.item = active
  BY <1>2
<1>4. RemoveInv' /\ CommandInv'
  BY <1>1, <1>2, <1>3 DEF RemoveInv, ActiveExists, CommandInv
<1> QED BY <1>1, <1>2, <1>3, <1>4, Aside DEF TypeOK

\* Stage 2: the operations registered for the item are cancelled.
LEMMA CancelHolds ==
    ASSUME AnalyzerInv, Cancel
    PROVE  AnalyzerInv'
<1> USE DEF AnalyzerInv
<1>1. UNCHANGED <<items, lastUid, active, pending, deleting, addr, opener, dialog, cmd, cmdCount,
                  todo, step, queue, task, wpc, left, ops, marked, flags, found, undone, asked,
                  broken>>
  BY DEF Cancel, itemVars, cmdVars, callVars, poolVars, dataVars
<1>2. /\ ui' \in [pc : {"idle", "mark", "cancel", "pick", "stop", "join", "closed"},
                  item : Items \cup {NoItem}, next : Items \cup {NoItem}]
      /\ ui.pc = "mark" /\ ui'.pc = "cancel" /\ ui'.item = ui.item
  BY DEF Cancel, TypeOK
<1>3. /\ cancelled \subseteq cancelled' /\ cancelled' \subseteq Ops
      /\ wsOps' \in [Items \cup {NoItem} -> SUBSET Ops]
  <2>1. ui.item \in Items \cup {NoItem}
    BY DEF TypeOK
  <2> QED BY <2>1 DEF Cancel, TypeOK
<1>4. RemoveInv' /\ CommandInv'
  BY <1>1, <1>2 DEF RemoveInv, ActiveExists, CommandInv
<1> QED BY <1>1, <1>2, <1>3, <1>4, Aside DEF TypeOK

\* The item to be activated is another one of the list, or none.
LEMMA NextActiveIn ==
    ASSUME TypeOK, NEW u
    PROVE  NextActive(u) \in (items \ {u}) \cup {NoItem}
<1> DEFINE above == {k \in items : k > u}
           below == {k \in items : k < u}
<1>1. items \subseteq Nat /\ \A k \in items : k <= MaxItem
  BY AnalyzerAssumption DEF TypeOK, Items
<1>2. above \in SUBSET Nat /\ below \in SUBSET Nat /\ \A k \in below : k <= MaxItem
  BY <1>1
<1>3. \A k \in items : (k > u \/ k < u) => k # u
  BY <1>1
<1>4. NextActive(u) = IF above # {} THEN Min(above) ELSE IF below # {} THEN Max(below) ELSE NoItem
  BY DEF NextActive
<1>5. above \subseteq items \ {u} /\ below \subseteq items \ {u}
  BY <1>3
<1> HIDE DEF above, below
<1>6. above # {} => Min(above) \in above
  BY <1>2, MinIn
<1>7. below # {} => Max(below) \in below
  BY <1>2, MaxIn, AnalyzerAssumption
<1> QED BY <1>4, <1>5, <1>6, <1>7

LEMMA RemovePickHolds ==
    ASSUME AnalyzerInv, RemovePick
    PROVE  AnalyzerInv'
<1> USE DEF AnalyzerInv
<1>1. UNCHANGED <<items, lastUid, active, pending, deleting, addr, opener, dialog, cmd, cmdCount,
                  todo, step, queue, task, wpc, left, ops, wsOps, cancelled, marked, flags, found,
                  undone, asked, broken>>
  BY DEF RemovePick, itemVars, cmdVars, callVars, poolVars, opVars, dataVars
<1> DEFINE n == NextActive(ui.item)
<1>2. n \in (items \ {ui.item}) \cup {NoItem}
  BY NextActiveIn
<1>3. ui.pc = "cancel" /\ ui' = [ui EXCEPT !.pc = "pick", !.next = n]
  BY DEF RemovePick
<1> HIDE DEF n
<1>4. n \in Items \cup {NoItem}
  BY <1>2 DEF TypeOK
<1>5. /\ ui' \in [pc : {"idle", "mark", "cancel", "pick", "stop", "join", "closed"},
                  item : Items \cup {NoItem}, next : Items \cup {NoItem}]
      /\ ui'.pc = "pick" /\ ui'.item = ui.item /\ ui'.next = n
  BY <1>3, <1>4 DEF TypeOK
<1>6. RemoveInv' /\ CommandInv'
  BY <1>1, <1>2, <1>3, <1>5 DEF RemoveInv, ActiveExists, CommandInv
<1> QED BY <1>1, <1>5, <1>6, Aside DEF TypeOK

LEMMA RemoveEraseHolds ==
    ASSUME AnalyzerInv, RemoveErase
    PROVE  AnalyzerInv'
<1> USE DEF AnalyzerInv
<1>1. UNCHANGED <<lastUid, pending, deleting, addr, opener, dialog, cmd, cmdCount, todo, step,
                  queue, task, wpc, left, ops, wsOps, cancelled, marked, flags, found, undone,
                  asked, broken>>
  BY DEF RemoveErase, cmdVars, callVars, poolVars, opVars, dataVars
<1>2. /\ items' = items \ {ui.item} /\ active' = ui.next
      /\ ui.next \in (items \ {ui.item}) \cup {NoItem}
      /\ ui' = [pc |-> "idle", item |-> NoItem, next |-> NoItem]
  BY DEF RemoveErase, RemoveInv
<1>3. /\ ui' \in [pc : {"idle", "mark", "cancel", "pick", "stop", "join", "closed"},
                  item : Items \cup {NoItem}, next : Items \cup {NoItem}]
      /\ ui'.pc = "idle" /\ ui'.item = NoItem
  BY <1>2
<1>4. RemoveInv' /\ CommandInv'
  BY <1>1, <1>2, <1>3 DEF RemoveInv, ActiveExists, CommandInv
<1> QED BY <1>1, <1>2, <1>3, <1>4, Aside DEF TypeOK

\* Stop cancels every operation of the analyzer.
LEMMA StopCancelAllHolds ==
    ASSUME AnalyzerInv, StopCancelAll
    PROVE  AnalyzerInv'
<1> USE DEF AnalyzerInv
<1>1. UNCHANGED <<items, lastUid, active, pending, deleting, addr, opener, dialog, cmd, cmdCount,
                  todo, step, queue, task, wpc, left, ops, wsOps, marked, flags, found, undone,
                  asked, broken>>
  BY DEF StopCancelAll, itemVars, cmdVars, callVars, poolVars, dataVars
<1>2. /\ ui' \in [pc : {"idle", "mark", "cancel", "pick", "stop", "join", "closed"},
                  item : Items \cup {NoItem}, next : Items \cup {NoItem}]
      /\ ui'.pc = "stop" /\ ui'.item = ui.item
  BY DEF StopCancelAll, TypeOK
<1>3. cancelled \subseteq cancelled' /\ cancelled' \subseteq Ops
  BY DEF StopCancelAll, TypeOK
<1>4. RemoveInv' /\ CommandInv'
  BY <1>1, <1>2 DEF RemoveInv, ActiveExists, CommandInv
<1> QED BY <1>1, <1>2, <1>3, <1>4, Aside DEF TypeOK

LEMMA StopPoolHolds ==
    ASSUME AnalyzerInv, StopPool
    PROVE  AnalyzerInv'
<1> USE DEF AnalyzerInv
<1>1. UNCHANGED <<items, lastUid, active, pending, deleting, addr, opener, dialog, cmd, cmdCount,
                  todo, step, queue, task, wpc, left, ops, wsOps, cancelled, marked, flags, found,
                  undone, asked, broken>>
  BY DEF StopPool, itemVars, cmdVars, callVars, poolVars, opVars, dataVars
<1>2. PICK p \in {"join", "closed"} : ui' = [ui EXCEPT !.pc = p]
  BY DEF StopPool
<1>3. /\ ui' \in [pc : {"idle", "mark", "cancel", "pick", "stop", "join", "closed"},
                  item : Items \cup {NoItem}, next : Items \cup {NoItem}]
      /\ ui'.pc = p /\ ui'.item = ui.item
  BY <1>2 DEF TypeOK
<1>4. RemoveInv' /\ CommandInv'
  BY <1>1, <1>3 DEF RemoveInv, ActiveExists, CommandInv
<1> QED BY <1>1, <1>3, <1>4, Aside DEF TypeOK

\* The command window captures the active item.
LEMMA AsyncExecuteHolds ==
    ASSUME AnalyzerInv, AsyncExecute
    PROVE  AnalyzerInv'
<1> USE DEF AnalyzerInv
<1>1. UNCHANGED <<items, lastUid, active, pending, deleting, addr, opener, dialog, ui, todo, step,
                  queue, task, wpc, left, ops, wsOps, cancelled, marked, flags, found, undone,
                  asked, broken>>
  BY DEF AsyncExecute, itemVars, uiVars, callVars, poolVars, opVars, dataVars
<1>2. /\ active \in items /\ active \in Items /\ cmdCount' = cmdCount + 1
      /\ cmdCount' \in 1..Commands
      /\ cmd' = [pc |-> "queued", item |-> active, op |-> <<"cmd", cmdCount'>>]
  BY AnalyzerAssumption DEF AsyncExecute, TypeOK
<1>3. cmd' \in [pc : {"idle", "queued", "run"}, item : Items \cup {NoItem},
                op : Ops \cup {<<"none", 0>>}]
  BY <1>2 DEF Ops
<1>4. cmd'.item = active /\ cmd'.op \in Ops
  BY <1>2 DEF Ops
<1>5. RemoveInv' /\ CommandInv'
  BY <1>1, <1>2, <1>4 DEF RemoveInv, ActiveExists, CommandInv
<1>6. cmdCount' \in 0..Commands
  BY <1>2
<1> QED BY <1>1, <1>2, <1>3, <1>4, <1>5, <1>6, Aside DEF TypeOK

LEMMA CommandEndHolds ==
    ASSUME AnalyzerInv, CommandEnd
    PROVE  AnalyzerInv'
<1> USE DEF AnalyzerInv
<1>1. UNCHANGED <<items, lastUid, active, pending, deleting, addr, opener, dialog, ui, cmdCount,
                  todo, step, queue, task, wpc, left, ops, wsOps, cancelled, marked, flags, found,
                  undone, asked, broken>>
  BY DEF CommandEnd, itemVars, uiVars, callVars, poolVars, opVars, dataVars
<1>2. /\ cmd' \in [pc : {"idle", "queued", "run"}, item : Items \cup {NoItem},
                   op : Ops \cup {<<"none", 0>>}]
      /\ cmd'.item = NoItem /\ cmd'.pc = "idle"
  BY DEF CommandEnd
<1>3. RemoveInv' /\ CommandInv'
  BY <1>1, <1>2 DEF RemoveInv, ActiveExists, CommandInv
<1> QED BY <1>1, <1>2, <1>3, Aside DEF TypeOK

LEMMA CancelCommandHolds ==
    ASSUME AnalyzerInv, CancelCommand
    PROVE  AnalyzerInv'
<1> USE DEF AnalyzerInv
<1>1. UNCHANGED <<items, lastUid, active, pending, deleting, addr, opener, dialog, ui, cmd,
                  cmdCount, todo, step, queue, task, wpc, left, ops, wsOps, marked, flags, found,
                  undone, asked, broken>>
  BY DEF CancelCommand, itemVars, uiVars, cmdVars, callVars, poolVars, dataVars
<1>2. cancelled \subseteq cancelled' /\ cancelled' \subseteq Ops
  BY DEF CancelCommand, CommandInv, TypeOK
<1>3. RemoveInv' /\ CommandInv'
  BY <1>1 DEF RemoveInv, ActiveExists, CommandInv
<1> QED BY <1>1, <1>2, <1>3, Aside, SMTT(60) DEF TypeOK

-----------------------------------------------------------------------------
(* Steps of the worker within its task.                                     *)

\* The task stays what it is; a call the worker is left with is its only
\* one, for the item of the task, and the entry of m_floatingQueued goes when
\* the task starts.
LEMMA WithinTask ==
    ASSUME AnalyzerInv,
           UNCHANGED <<items, lastUid, active, pending, deleting, addr, opener, dialog, ui, cmd,
                       cmdCount, step, queue, task, wsOps, cancelled>>,
           wpc # "idle", todo[WORK] = << >>,
           wpc' \in {"work", "pass", "cleanup", "skip", "complete", "end", "gone", "dropped"},
           wpc' \in {"gone", "dropped"} \/ Alive(task.item),
           todo' \in [Threads -> Seq(Request)],
           \A t \in Threads \ {WORK} : todo'[t] = todo[t],
           \A r \in ToSet(todo'[WORK]) : r.item = task.item,
           todo'[WORK] # << >> =>
             /\ Len(todo'[WORK]) = 1 /\ todo'[WORK][1].item = task.item
             /\ wpc' = IF Floating(todo'[WORK][1]) THEN "cleanup" ELSE "end",
           left' \in 0..Regions, ops' \subseteq ops, marked' \subseteq Addrs,
           flags' \in [Items -> SUBSET {"analyzeDone", "symbolsLoaded", "analyzePrivateDone"}],
           found' \in [Items -> 0..Regions], undone' \in [Items -> 0..Regions],
           asked' \in [Items -> SUBSET Ops], broken' \subseteq Items,
           marked' = IF StartsPass THEN marked \ {addr[task.item]} ELSE marked,
           RunsPass' => RunsPass,
           PassInv', AskedInv', ServedInv'
    PROVE  AnalyzerInv'
<1> USE DEF AnalyzerInv
<1>fin. IsFiniteSet(ops')
  BY FS_Subset
<1>type. TypeOK'
  <2>1. ops' \subseteq [id : Ids, op : Ops]
    BY DEF TypeOK
  <2>2. wpc' \in {"idle", "start", "work", "pass", "cleanup", "skip", "complete", "end",
                 "gone", "dropped"}
    OBVIOUS
  <2> QED BY <2>1, <2>2, SMTT(60) DEF TypeOK
<1>task. task \in Request /\ task.item \in Items
  BY WorkerTask
<1>quiet. step[WORK] = "test" /\ WORK \in Threads
  BY ThreadNames DEF WorkerInv, Calling
<1>calls. \A t \in Threads : \A r \in ToSet(todo'[t]) : r \in ToSet(todo[t]) \/ r.item = task.item
  BY <1>quiet
<1>empty. ToSet(todo'[WORK]) # {} => wpc' \in {"cleanup", "end"}
  <2>1. todo'[WORK] = << >> => ToSet(todo'[WORK]) = {}
    BY EmptySet
  <2> QED BY <2>1
<1>alive. \A k \in Items : Alive(k)' => Alive(k)
  <2> SUFFICES ASSUME NEW k \in Items, Alive(k)' PROVE Alive(k)
    OBVIOUS
  <2>1. \/ k \in items
        \/ opener[k] \in {"ask", "calls"}
        \/ ui.item = k
        \/ cmd.item = k
        \/ wpc' \in {"work", "pass", "cleanup", "skip", "complete", "end"} /\ task.item = k
        \/ \E r \in ToSet(queue) \cup {task} : r.item = k /\ r.chain
        \/ \E t \in Threads : \E r \in ToSet(todo'[t]) : r.item = k
    BY DEF Alive
  <2>2. CASE wpc' \in {"work", "pass", "cleanup", "skip", "complete", "end"} /\ task.item = k
    BY <2>2
  <2>3. CASE \E t \in Threads : \E r \in ToSet(todo'[t]) : r.item = k
    <3>1. PICK t \in Threads : \E r \in ToSet(todo'[t]) : r.item = k
      BY <2>3
    <3>2. CASE t = WORK
      <4>1. wpc' \in {"cleanup", "end"} /\ task.item = k
        BY <3>1, <3>2, <1>empty
      <4> QED BY <4>1
    <3>3. CASE t # WORK
      BY <3>1, <3>3 DEF Alive
    <3> QED BY <3>2, <3>3
  <2> QED BY <2>1, <2>2, <2>3 DEF Alive
<1>born. Born'
  BY <1>calls DEF Born
<1>remove. RemoveInv' /\ CommandInv'
  BY DEF RemoveInv, ActiveExists, CommandInv
<1>worker. WorkerInv'
  <2>1. \A t \in Threads \ {WORK} : step'[t] # "mark" /\ \A r \in ToSet(todo'[t]) : ~Floating(r)
    BY DEF WorkerInv
  <2> QED BY <2>1, <1>quiet, <1>task DEF WorkerInv, Calling
<1>distinct. AddrInv'
  BY <1>alive DEF AddrInv
<1>adds. ~AddsPass /\ ~AddsPass' /\ ~StartsPass'
  BY <1>quiet DEF AddsPass, StartsPass
<1>held. MarkHeld'
  BY <1>adds DEF MarkHeld
<1>single. MarkSingle'
  BY <1>adds DEF MarkSingle
<1>order. OrderInv'
  BY <1>alive, ZenonT(60) DEF OrderInv
<1> QED BY <1>fin, <1>type, <1>born, <1>remove, <1>worker, <1>distinct, <1>held, <1>single,
           <1>order

\* A step of the task of item j leaves the others a pass on its way.
LEMMA StillComing ==
    ASSUME ServedInv, UNCHANGED <<items, deleting, queue, task>>, todo[WORK] = << >>,
           NEW j,
           \A i \in items \ deleting : i # j => (Owed(i)' => Owed(i)),
           RunsPass => task.item = j,
           j \in items \ deleting /\ Owed(j)' => Coming(j)'
    PROVE  ServedInv'
<1> SUFFICES ASSUME NEW i \in items \ deleting, i # j, Owed(i) PROVE Coming(i)'
  BY DEF ServedInv
<1>1. \E r \in ToSet(queue) : Floating(r) /\ r.item = i
  BY DEF ServedInv, Coming, Calling
<1> QED BY <1>1 DEF Coming

\* The start of a task: a pass that is given up is cancelled, broken or that
\* of an item that is gone.
LEMMA StartHolds ==
    ASSUME AnalyzerInv, Start
    PROVE  AnalyzerInv'
<1> USE DEF AnalyzerInv
<1>1. UNCHANGED <<items, lastUid, active, pending, deleting, addr, opener, dialog, ui, cmd,
                  cmdCount, todo, step, queue, task, left, ops, wsOps, cancelled, flags, found,
                  undone, asked>>
  BY DEF Start, itemVars, uiVars, cmdVars, callVars
<1>2. wpc = "start" /\ todo[WORK] = << >> /\ task \in Request /\ task.item \in Items
  BY WorkerTask, WorkerQuiet DEF Start
<1>3. marked' = IF StartsPass THEN marked \ {addr[task.item]} ELSE marked
  BY DEF Start, StartsPass, Floating
<1>4. \/ wpc' = "work" /\ Alive(task.item) /\ broken' = broken
      \/ wpc' = "gone" /\ ~Alive(task.item) /\ broken' = broken
      \/ wpc' = "skip" /\ Alive(task.item) /\ task.op \in cancelled /\ broken' = broken
      \/ wpc' = "skip" /\ Alive(task.item) /\ broken' = broken \cup {task.item}
  BY DEF Start
<1>5. broken \subseteq broken' /\ broken' \subseteq Items
  BY <1>2, <1>4 DEF TypeOK
<1>6. RunsPass' => RunsPass
  BY <1>1, <1>2 DEF RunsPass
<1>7. PassInv' /\ AskedInv'
  BY <1>1, <1>2, <1>4, <1>6 DEF PassInv, AskedInv, Calling
<1>8. ServedInv'
  <2> SUFFICES ASSUME NEW i \in items \ deleting, Owed(i)' PROVE Coming(i)'
    BY <1>1 DEF ServedInv
  <2>1. Owed(i) /\ i \notin broken'
    BY <1>1, <1>5 DEF Owed
  <2>2. Coming(i)
    BY <2>1 DEF ServedInv
  <2>3. CASE RunsPass /\ task.item = i
    <3>1. Alive(i) /\ task.op \in asked[i] /\ task.op \notin cancelled
      BY <2>1, <2>3 DEF Alive, AskedInv, Owed
    <3>2. wpc' = "work"
      BY <1>4, <2>1, <2>3, <3>1
    <3> QED BY <3>2, <2>3, <1>1 DEF RunsPass, Coming
  <2> QED BY <2>2, <2>3, <1>1 DEF Coming, Calling
<1>9. todo'[WORK] = << >> /\ ToSet(todo'[WORK]) = {}
  BY <1>1, <1>2, EmptySet
<1>10. /\ wpc' \in {"work", "pass", "cleanup", "skip", "complete", "end", "gone", "dropped"}
       /\ wpc' \in {"gone", "dropped"} \/ Alive(task.item)
  BY <1>4
<1>11. marked' \subseteq Addrs
  BY <1>3 DEF TypeOK
<1> QED BY <1>1, <1>2, <1>3, <1>5, <1>6, <1>7, <1>8, <1>9, <1>10, <1>11, WithinTask DEF TypeOK

\* A call of the worker for the item of its task.
LEMMA OwnCall ==
    ASSUME TypeOK, NEW r \in Request, todo' = [todo EXCEPT ![WORK] = <<r>>]
    PROVE  /\ todo' \in [Threads -> Seq(Request)]
           /\ \A t \in Threads \ {WORK} : todo'[t] = todo[t]
           /\ todo'[WORK] # << >> /\ Len(todo'[WORK]) = 1 /\ todo'[WORK][1] = r
           /\ ToSet(todo'[WORK]) = {r}
<1>1. <<r>> \in Seq(Request)
  OBVIOUS
<1>2. /\ todo' \in [Threads -> Seq(Request)] /\ todo'[WORK] = <<r>>
      /\ \A t \in Threads \ {WORK} : todo'[t] = todo[t]
  BY <1>1, ThreadNames, CallsChanged
<1> QED BY <1>2, SingleSet

\* The end of an analysis or of a pass: the next pass is called for when
\* modules wait and nobody cancelled.
LEMMA QueuePassCalls ==
    ASSUME AnalyzerInv, wpc # "idle", todo[WORK] = << >>, NEW more \in BOOLEAN, QueuePass(more),
           wpc' = "cleanup"
    PROVE  /\ todo' \in [Threads -> Seq(Request)]
           /\ \A t \in Threads \ {WORK} : todo'[t] = todo[t]
           /\ \A r \in ToSet(todo'[WORK]) : r.item = task.item
           /\ todo'[WORK] # << >> =>
                /\ more /\ Len(todo'[WORK]) = 1 /\ todo'[WORK][1].item = task.item
                /\ Floating(todo'[WORK][1]) /\ todo'[WORK][1].op = task.op
           /\ more /\ task.op \notin cancelled => todo'[WORK] # << >>
<1> USE DEF AnalyzerInv
<1> DEFINE r == Call("floating", task.item, task.op, task.ws, FALSE, FALSE)
<1>1. r \in Request /\ r.item = task.item /\ Floating(r) /\ r.op = task.op
  BY WorkerTask DEF Call, Request, Kinds, Floating
<1>2. CASE more /\ task.op \notin cancelled
  <2>1. todo' = [todo EXCEPT ![WORK] = <<r>>]
    BY <1>2 DEF QueuePass
  <2> HIDE DEF r
  <2> QED BY <1>1, <1>2, <2>1, OwnCall
<1>3. CASE ~(more /\ task.op \notin cancelled)
  <2>1. todo' = todo
    BY <1>3 DEF QueuePass
  <2> QED BY <1>3, <2>1, EmptySet DEF TypeOK
<1> QED BY <1>2, <1>3

\* EnqueueAnalyze's task.
LEMMA WorkAnalyzeHolds ==
    ASSUME AnalyzerInv, WorkAnalyze
    PROVE  AnalyzerInv'
<1> USE DEF AnalyzerInv
<1>1. UNCHANGED <<items, lastUid, active, pending, deleting, addr, opener, dialog, ui, cmd,
                  cmdCount, step, queue, task, left, ops, wsOps, cancelled, marked, broken>>
  BY DEF WorkAnalyze, itemVars, uiVars, cmdVars, opVars
<1>2. /\ wpc = "work" /\ wpc' = "cleanup" /\ todo[WORK] = << >> /\ ~Floating(task)
      /\ task.item \in Items /\ task.op \in Ops /\ Alive(task.item)
  BY WorkerTask, WorkerQuiet DEF WorkAnalyze, Floating, Alive
<1>3. ~StartsPass /\ ~RunsPass /\ ~RunsPass'
  BY <1>1, <1>2 DEF StartsPass, RunsPass
<1> DEFINE j == task.item
<1>4. CASE MayFail /\ flags' = [flags EXCEPT ![j] = IF task.force THEN @ \ {"analyzeDone"} ELSE @]
           /\ UNCHANGED <<found, undone, asked, todo>>
  <2>1. flags' \in [Items -> SUBSET {"analyzeDone", "symbolsLoaded", "analyzePrivateDone"}]
    BY <1>2, <1>4 DEF TypeOK
  <2>2. ToSet(todo'[WORK]) = {} /\ todo'[WORK] = << >>
    BY <1>2, <1>4, EmptySet
  <2>3. PassInv' /\ AskedInv'
    BY <1>1, <1>2, <1>3, <1>4 DEF PassInv, AskedInv, Calling
  <2>4. ServedInv'
    BY <1>1, <1>2, <1>3, <1>4 DEF ServedInv, Owed, Coming, Calling
  <2> QED BY <1>1, <1>2, <1>3, <1>4, <2>1, <2>2, <2>3, <2>4, WithinTask DEF TypeOK
<1>5. ASSUME NEW n \in 0..Regions,
             flags' = [flags EXCEPT ![j] = @ \cup {"analyzeDone"}],
             Discover(n), undone' = [undone EXCEPT ![j] = @ + n],
             QueuePass(undone[j] + n > 0),
             asked' = [asked EXCEPT ![j] = IF undone[j] + n > 0 THEN @ \cup {task.op} ELSE @]
      PROVE  AnalyzerInv'
  <2>1. flags' \in [Items -> SUBSET {"analyzeDone", "symbolsLoaded", "analyzePrivateDone"}]
    BY <1>2, <1>5 DEF TypeOK
  <2>2. /\ found[j] \in 0..Regions /\ undone[j] \in 0..Regions /\ undone[j] <= found[j]
        /\ n \in 0..(Regions - found[j]) /\ Regions \in Nat
    BY <1>2, <1>5, AnalyzerAssumption DEF TypeOK, PassInv, Discover
  <2>3. /\ found' \in [Items -> 0..Regions] /\ undone' \in [Items -> 0..Regions]
        /\ \A i \in Items : undone'[i] <= found'[i]
        /\ \A i \in Items : i # j => found'[i] = found[i] /\ undone'[i] = undone[i]
        /\ undone'[j] = undone[j] + n
    <3>1. found[j] + n \in 0..Regions /\ undone[j] + n \in 0..Regions
          /\ undone[j] + n <= found[j] + n
      BY <2>2
    <3>2. found' = [found EXCEPT ![j] = found[j] + n] /\ undone' = [undone EXCEPT ![j] = undone[j] + n]
      BY <1>5 DEF Discover
    <3> HIDE DEF j
    <3> QED BY <3>1, <3>2, <1>2 DEF TypeOK, PassInv, j
  <2>4. /\ asked' \in [Items -> SUBSET Ops] /\ \A i \in Items : asked[i] \subseteq asked'[i]
        /\ \A i \in Items : i # j => asked'[i] = asked[i]
        /\ undone[j] + n > 0 => task.op \in asked'[j]
    BY <1>2, <1>5 DEF TypeOK
  <2> DEFINE more == undone[j] + n > 0
  <2>5. more \in BOOLEAN /\ QueuePass(more)
    BY <1>5
  <2> HIDE DEF more
  <2>6. /\ todo' \in [Threads -> Seq(Request)]
        /\ \A t \in Threads \ {WORK} : todo'[t] = todo[t]
        /\ \A r \in ToSet(todo'[WORK]) : r.item = task.item
        /\ todo'[WORK] # << >> =>
             /\ more /\ Len(todo'[WORK]) = 1 /\ todo'[WORK][1].item = task.item
             /\ Floating(todo'[WORK][1]) /\ todo'[WORK][1].op = task.op
        /\ more /\ task.op \notin cancelled => todo'[WORK] # << >>
    BY <1>2, <2>5, QueuePassCalls
  <2>7. PassInv'
    <3>1. task.item <= lastUid
      BY DEF Born
    <3> QED BY <1>1, <1>2, <2>3, <3>1 DEF PassInv
  <2>8. AskedInv'
    <3>1. \A r \in ToSet(queue) : r.item \in Items
      BY Requests
    <3> QED BY <1>1, <1>3, <2>4, <2>6, <3>1 DEF AskedInv, Calling, more
  <2>9. ServedInv'
    <3>1. \A i \in items \ deleting : i # j => (Owed(i)' => Owed(i))
      BY <1>1, <2>3, <2>4 DEF Owed, TypeOK
    <3>2. ASSUME Owed(j)' PROVE Coming(j)'
      <4>1. more
        BY <3>2, <2>3, <1>1 DEF Owed, more
      <4>2. task.op \notin cancelled
        BY <4>1, <3>2, <1>1, <2>4 DEF Owed, more
      <4> QED BY <4>1, <4>2, <2>6, <1>1 DEF Coming, Calling
    <3> HIDE DEF j
    <3> QED BY <1>1, <1>2, <1>3, <3>1, <3>2, StillComing DEF j
  <2> QED BY <1>1, <1>2, <1>3, <2>1, <2>3, <2>4, <2>6, <2>7, <2>8, <2>9, WithinTask DEF TypeOK
<1> QED BY <1>4, <1>5 DEF WorkAnalyze

\* EnqueueAnalyzeFloating's task: a pass that does not begin is over the limit
\* or broken.
LEMMA WorkFloatingHolds ==
    ASSUME AnalyzerInv, WorkFloating
    PROVE  AnalyzerInv'
<1> USE DEF AnalyzerInv
<1>1. UNCHANGED <<items, lastUid, active, pending, deleting, addr, opener, dialog, ui, cmd,
                  cmdCount, todo, step, queue, task, ops, wsOps, cancelled, marked, flags, found,
                  undone, asked>>
  BY DEF WorkFloating, itemVars, uiVars, cmdVars, callVars, opVars
<1>2. /\ wpc = "work" /\ todo[WORK] = << >> /\ Floating(task)
      /\ task.item \in Items /\ Alive(task.item)
  BY WorkerTask, WorkerQuiet DEF WorkFloating, Floating, Alive
<1>3. /\ undone[task.item] \in 0..Regions /\ found[task.item] \in 0..Regions
      /\ left \in 0..Regions /\ MaxFloating \in Nat
  BY <1>2, AnalyzerAssumption DEF TypeOK
<1>4. \/ wpc' = "cleanup" /\ left' = left /\ broken' = broken /\ found[task.item] > MaxFloating
      \/ wpc' = "pass" /\ left' = undone[task.item] /\ broken' = broken
      \/ wpc' = "cleanup" /\ left' = left /\ broken' = broken \cup {task.item}
  BY DEF WorkFloating
<1>5. /\ left' \in 0..Regions /\ broken \subseteq broken' /\ broken' \subseteq Items
      /\ wpc' \in {"cleanup", "pass"}
  BY <1>2, <1>3, <1>4 DEF TypeOK
<1>6. ~StartsPass /\ RunsPass
  BY <1>2 DEF StartsPass, RunsPass
<1>7. PassInv' /\ AskedInv'
  BY <1>1, <1>2, <1>3, <1>4, <1>6 DEF PassInv, AskedInv, Calling
<1>8. ServedInv'
  <2> DEFINE j == task.item
  <2>1. \A i \in items \ deleting : i # j => (Owed(i)' => Owed(i))
    BY <1>1, <1>5 DEF Owed
  <2>2. ASSUME Owed(j)' PROVE Coming(j)'
    <3>1. wpc' = "pass"
      BY <2>2, <1>1, <1>3, <1>4 DEF Owed
    <3> QED BY <1>1, <1>2, <3>1 DEF Coming, RunsPass
  <2> HIDE DEF j
  <2> QED BY <1>1, <1>2, <2>1, <2>2, StillComing DEF j
<1>9. todo'[WORK] = << >> /\ ToSet(todo'[WORK]) = {}
  BY <1>1, <1>2, EmptySet
<1> QED BY <1>1, <1>2, <1>5, <1>6, <1>7, <1>8, <1>9, WithinTask DEF TypeOK

\* One module of a pass.
LEMMA PassOneHolds ==
    ASSUME AnalyzerInv, PassOne
    PROVE  AnalyzerInv'
<1> USE DEF AnalyzerInv
<1>1. UNCHANGED <<items, lastUid, active, pending, deleting, addr, opener, dialog, ui, cmd,
                  cmdCount, todo, step, queue, task, wpc, ops, wsOps, cancelled, marked, flags,
                  asked, broken>>
  BY DEF PassOne, itemVars, uiVars, cmdVars, callVars, opVars
<1> DEFINE j == task.item
<1>2. /\ wpc = "pass" /\ todo[WORK] = << >> /\ Floating(task)
      /\ j \in Items /\ Alive(j)
  BY WorkerTask, WorkerQuiet DEF PassOne, Alive, PassInv
<1>3. PICK n \in 0..Regions : Discover(n) /\ undone' = [undone EXCEPT ![j] = @ - 1 + n]
  BY DEF PassOne
<1>4. /\ undone[j] \in 0..Regions /\ found[j] \in 0..Regions /\ undone[j] <= found[j]
      /\ left \in 1..Regions /\ left <= undone[j] /\ left' = left - 1
      /\ n \in 0..(Regions - found[j]) /\ Regions \in Nat
  BY <1>2, <1>3, AnalyzerAssumption DEF TypeOK, PassInv, PassOne, Discover
<1>5. /\ found' \in [Items -> 0..Regions] /\ undone' \in [Items -> 0..Regions]
      /\ \A i \in Items : undone'[i] <= found'[i]
      /\ \A i \in Items : i # j => found'[i] = found[i] /\ undone'[i] = undone[i]
      /\ left' <= undone'[j] /\ left' \in 0..Regions
  <2>1. /\ found[j] + n \in 0..Regions /\ undone[j] - 1 + n \in 0..Regions
        /\ undone[j] - 1 + n <= found[j] + n
        /\ left - 1 <= undone[j] - 1 + n /\ left - 1 \in 0..Regions
    BY <1>4
  <2>2. found' = [found EXCEPT ![j] = found[j] + n]
        /\ undone' = [undone EXCEPT ![j] = undone[j] - 1 + n]
    BY <1>3 DEF Discover
  <2> HIDE DEF j
  <2> QED BY <2>1, <2>2, <1>2, <1>4 DEF TypeOK, PassInv, j
<1>6. ~StartsPass /\ RunsPass /\ RunsPass'
  BY <1>1, <1>2 DEF StartsPass, RunsPass
<1>7. PassInv' /\ AskedInv'
  <2>1. task.item <= lastUid
    BY DEF Born
  <2>2. PassInv'
    BY <1>1, <1>2, <1>5, <2>1 DEF PassInv
  <2> QED BY <1>1, <1>2, <1>6, <2>2 DEF AskedInv, Calling
<1>8. ServedInv'
  <2>1. \A i \in items \ deleting : i # j => (Owed(i)' => Owed(i))
    BY <1>1, <1>5 DEF Owed, TypeOK
  <2>2. Coming(j)'
    BY <1>1, <1>6 DEF Coming
  <2> HIDE DEF j
  <2> QED BY <1>1, <1>2, <2>1, <2>2, StillComing DEF j
<1>9. todo'[WORK] = << >> /\ ToSet(todo'[WORK]) = {}
  BY <1>1, <1>2, EmptySet
<1> QED BY <1>1, <1>2, <1>5, <1>6, <1>7, <1>8, <1>9, WithinTask DEF TypeOK

\* The end of a pass.
LEMMA PassEndHolds ==
    ASSUME AnalyzerInv, PassEnd
    PROVE  AnalyzerInv'
<1> USE DEF AnalyzerInv
<1>1. UNCHANGED <<items, lastUid, active, pending, deleting, addr, opener, dialog, ui, cmd,
                  cmdCount, step, queue, task, ops, wsOps, cancelled, marked, flags, found, undone,
                  broken>>
  BY DEF PassEnd, itemVars, uiVars, cmdVars, opVars
<1> DEFINE j == task.item
           more == undone[j] > 0
<1>2. /\ wpc = "pass" /\ todo[WORK] = << >> /\ Floating(task) /\ j \in Items /\ Alive(j)
      /\ task.op \in Ops
  BY WorkerTask, WorkerQuiet DEF PassEnd, Alive, PassInv
<1>3. /\ wpc' = "cleanup" /\ left' = 0 /\ left' \in 0..Regions /\ QueuePass(more)
      /\ asked' = [asked EXCEPT ![j] = IF task.op \in cancelled THEN @ ELSE IF more THEN {task.op} ELSE {}]
  BY AnalyzerAssumption DEF PassEnd
<1>4. more \in BOOLEAN
  OBVIOUS
<1> HIDE DEF more
<1>5. /\ todo' \in [Threads -> Seq(Request)]
      /\ \A t \in Threads \ {WORK} : todo'[t] = todo[t]
      /\ \A r \in ToSet(todo'[WORK]) : r.item = task.item
      /\ todo'[WORK] # << >> =>
           /\ more /\ Len(todo'[WORK]) = 1 /\ todo'[WORK][1].item = task.item
           /\ Floating(todo'[WORK][1]) /\ todo'[WORK][1].op = task.op
      /\ more /\ task.op \notin cancelled => todo'[WORK] # << >>
  BY <1>2, <1>3, <1>4, QueuePassCalls
<1>6. ~StartsPass /\ RunsPass /\ ~RunsPass' /\ task.op \in asked[j]
  BY <1>2, <1>3 DEF StartsPass, RunsPass, AskedInv
<1>7. /\ asked' \in [Items -> SUBSET Ops] /\ \A i \in Items : i # j => asked'[i] = asked[i]
      /\ task.op \in cancelled => task.op \in asked'[j]
      /\ more => task.op \in asked'[j]
  BY <1>2, <1>3, <1>6 DEF TypeOK
<1>8. PassInv'
  BY <1>1, <1>3 DEF PassInv
<1>9. AskedInv'
  <2>1. \A r \in ToSet(queue) : r.item \in Items /\ (Floating(r) => r.item # j)
    BY <1>6, Requests DEF MarkSingle
  <2> QED BY <1>1, <1>5, <1>6, <1>7, <2>1 DEF AskedInv, Calling
<1>10. ServedInv'
  <2>1. \A i \in items \ deleting : i # j => (Owed(i)' => Owed(i))
    BY <1>1, <1>7 DEF Owed, TypeOK
  <2>2. ASSUME Owed(j)' PROVE Coming(j)'
    <3>1. more /\ task.op \notin cancelled
      BY <2>2, <1>1, <1>7 DEF Owed, more
    <3> QED BY <3>1, <1>1, <1>5 DEF Coming, Calling
  <2> HIDE DEF j
  <2> QED BY <1>1, <1>2, <2>1, <2>2, StillComing DEF j
<1> QED BY <1>1, <1>2, <1>3, <1>5, <1>6, <1>7, <1>8, <1>9, <1>10, WithinTask DEF TypeOK

\* A task that makes no pass and asks for none.
LEMMA Plain ==
    ASSUME AnalyzerInv,
           UNCHANGED <<items, lastUid, active, pending, deleting, addr, opener, dialog, ui, cmd,
                       cmdCount, todo, step, queue, task, left, wsOps, cancelled, marked, found,
                       undone, asked, broken>>,
           wpc \notin {"idle", "start"}, todo[WORK] = << >>, ~RunsPass, ~RunsPass',
           wpc' \in {"cleanup", "skip", "complete", "end", "gone", "dropped"},
           wpc' \in {"gone", "dropped"} \/ Alive(task.item),
           ops' \subseteq ops,
           flags' \in [Items -> SUBSET {"analyzeDone", "symbolsLoaded", "analyzePrivateDone"}]
    PROVE  AnalyzerInv'
<1> USE DEF AnalyzerInv
<1>1. PassInv' /\ AskedInv' /\ ~StartsPass
  BY DEF PassInv, AskedInv, Calling, StartsPass
<1>2. ServedInv'
  BY DEF ServedInv, Owed, Coming, Calling
<1>3. todo'[WORK] = << >> /\ ToSet(todo'[WORK]) = {}
  BY EmptySet
<1> QED BY <1>1, <1>2, <1>3, WithinTask DEF TypeOK

LEMMA WorkSymbolsHolds ==
    ASSUME AnalyzerInv, WorkSymbols
    PROVE  AnalyzerInv'
<1> USE DEF AnalyzerInv
<1>1. UNCHANGED <<items, lastUid, active, pending, deleting, addr, opener, dialog, ui, cmd,
                  cmdCount, todo, step, queue, task, left, ops, wsOps, cancelled, marked, found,
                  undone, asked, broken>>
  BY DEF WorkSymbols, itemVars, uiVars, cmdVars, callVars, opVars
<1>2. /\ wpc = "work" /\ wpc' = "cleanup" /\ todo[WORK] = << >> /\ Alive(task.item)
      /\ task.item \in Items /\ ~RunsPass /\ ~RunsPass'
  BY <1>1, WorkerTask, WorkerQuiet DEF WorkSymbols, Floating, RunsPass, Alive
<1>3. flags' \in [Items -> SUBSET {"analyzeDone", "symbolsLoaded", "analyzePrivateDone"}]
  <2> DEFINE F == {"analyzeDone", "symbolsLoaded", "analyzePrivateDone"}
             f == flags[task.item] \cup {"symbolsLoaded"}
  <2>1. flags' = flags \/ flags' = [flags EXCEPT ![task.item] = f]
    BY DEF WorkSymbols
  <2>2. flags \in [Items -> SUBSET F]
    BY DEF TypeOK
  <2>3. f \in SUBSET F
    BY <1>2, <2>2
  <2> HIDE DEF f, F
  <2>4. flags' \in [Items -> SUBSET F]
    BY <1>2, <2>1, <2>2, <2>3
  <2> QED BY <2>4 DEF F
<1> QED BY <1>1, <1>2, <1>3, Plain

LEMMA WorkPrivateHolds ==
    ASSUME AnalyzerInv, WorkPrivate
    PROVE  AnalyzerInv'
<1> USE DEF AnalyzerInv
<1>1. UNCHANGED <<items, lastUid, active, pending, deleting, addr, opener, dialog, ui, cmd,
                  cmdCount, todo, step, queue, task, left, ops, wsOps, cancelled, marked, found,
                  undone, asked, broken>>
  BY DEF WorkPrivate, itemVars, uiVars, cmdVars, callVars, opVars
<1>2. /\ wpc = "work" /\ wpc' \in {"skip", "end", "cleanup"} /\ todo[WORK] = << >>
      /\ Alive(task.item) /\ task.item \in Items /\ ~RunsPass /\ ~RunsPass'
  BY <1>1, WorkerTask, WorkerQuiet DEF WorkPrivate, Floating, RunsPass, Alive
<1>3. flags' \in [Items -> SUBSET {"analyzeDone", "symbolsLoaded", "analyzePrivateDone"}]
  <2> DEFINE F == {"analyzeDone", "symbolsLoaded", "analyzePrivateDone"}
             f == flags[task.item] \cup {"analyzePrivateDone"}
  <2>1. flags' = flags \/ flags' = [flags EXCEPT ![task.item] = f]
    BY DEF WorkPrivate
  <2>2. flags \in [Items -> SUBSET F]
    BY DEF TypeOK
  <2>3. f \in SUBSET F
    BY <1>2, <2>2
  <2> HIDE DEF f, F
  <2>4. flags' \in [Items -> SUBSET F]
    BY <1>2, <2>1, <2>2, <2>3
  <2> QED BY <2>4 DEF F
<1> QED BY <1>1, <1>2, <1>3, Plain

LEMMA CleanupHolds ==
    ASSUME AnalyzerInv, Cleanup
    PROVE  AnalyzerInv'
<1> USE DEF AnalyzerInv
<1>1. UNCHANGED <<items, lastUid, active, pending, deleting, addr, opener, dialog, ui, cmd,
                  cmdCount, todo, step, queue, task, left, wsOps, cancelled, marked, flags, found,
                  undone, asked, broken>>
  BY DEF Cleanup, itemVars, uiVars, cmdVars, callVars, dataVars
<1>2. /\ \/ wpc = "gone" /\ wpc' = "dropped"
         \/ wpc = "skip" /\ wpc' = "end"
         \/ wpc = "cleanup" /\ wpc' = "complete"
      /\ todo[WORK] = << >> /\ ops' \subseteq ops
  BY DEF Cleanup
<1>3. ~RunsPass /\ ~RunsPass' /\ (wpc' = "dropped" \/ Alive(task.item))
  BY <1>2 DEF RunsPass, Alive
<1> QED BY <1>1, <1>2, <1>3, Plain DEF TypeOK

\* onComplete of the automatic symbol loading.
LEMMA CompleteHolds ==
    ASSUME AnalyzerInv, Complete
    PROVE  AnalyzerInv'
<1> USE DEF AnalyzerInv
<1>1. UNCHANGED <<items, lastUid, active, pending, deleting, addr, opener, dialog, ui, cmd,
                  cmdCount, step, queue, task, left, ops, wsOps, cancelled, marked, flags, found,
                  undone, asked, broken>>
  BY DEF Complete, itemVars, uiVars, cmdVars, opVars, dataVars
<1>2. /\ wpc = "complete" /\ wpc' = "end" /\ todo[WORK] = << >> /\ Alive(task.item)
      /\ task.item \in Items /\ ~RunsPass /\ ~RunsPass' /\ ~StartsPass
  BY WorkerTask, WorkerQuiet DEF Complete, RunsPass, StartsPass, Alive
<1>3. CASE UNCHANGED todo
  BY <1>1, <1>2, <1>3, Plain DEF TypeOK
<1>4. CASE ~UNCHANGED todo
  <2> DEFINE r == Call("private", task.item, <<"private", task.item>>, task.item, FALSE, FALSE)
  <2>1. r \in Request /\ r.item = task.item /\ ~Floating(r)
    BY <1>2 DEF Call, Request, Kinds, Floating, Ops
  <2>2. todo' = [todo EXCEPT ![WORK] = <<r>>]
    BY <1>4 DEF Complete
  <2> HIDE DEF r
  <2>3. /\ todo' \in [Threads -> Seq(Request)]
        /\ \A t \in Threads \ {WORK} : todo'[t] = todo[t]
        /\ todo'[WORK] # << >> /\ Len(todo'[WORK]) = 1 /\ todo'[WORK][1] = r
        /\ ToSet(todo'[WORK]) = {r}
    BY <2>1, <2>2, OwnCall
  <2>4. PassInv' /\ AskedInv'
    BY <1>1, <1>2, <2>1, <2>3 DEF PassInv, AskedInv
  <2>5. ServedInv'
    BY <1>1, <1>2 DEF ServedInv, Owed, Coming, Calling
  <2> QED BY <1>1, <1>2, <2>1, <2>3, <2>4, <2>5, WithinTask DEF TypeOK
<1> QED BY <1>3, <1>4

-----------------------------------------------------------------------------
(* The Enqueue calls of the threads that are not the worker.                *)

\* An object that exists is that of a registered item.
LEMMA AliveBorn ==
    ASSUME TypeOK, Born, NEW k \in Items, Alive(k)
    PROVE  k <= lastUid
<1>1. \A i \in items : i <= lastUid
  BY DEF Born
<1>2. opener[k] \in {"ask", "calls"} => k <= lastUid
  BY DEF Born
<1> QED BY <1>1, <1>2 DEF Born, Alive

\* Their calls change, for items that exist and never for a floating pass.
LEMMA OtherCalls ==
    ASSUME AnalyzerInv, NEW t \in Threads \ {WORK},
           UNCHANGED <<items, lastUid, active, deleting, addr, opener, ui, cmdCount, queue, task,
                       wpc, left, cancelled, marked, flags, found, undone, asked, broken>>,
           pending' \subseteq Items, dialog' \subseteq Items,
           cmd' \in [pc : {"idle", "queued", "run"}, item : Items \cup {NoItem},
                     op : Ops \cup {<<"none", 0>>}],
           cmd'.item = cmd.item, CommandInv',
           ops' \subseteq [id : Ids, op : Ops], IsFiniteSet(ops'),
           wsOps' \in [Items \cup {NoItem} -> SUBSET Ops],
           todo' \in [Threads -> Seq(Request)],
           step' \in [Threads -> {"test", "mark", "register", "add"}],
           \A u \in Threads \ {t} : todo'[u] = todo[u] /\ step'[u] = step[u],
           step'[t] # "mark",
           \A r \in ToSet(todo'[t]) : ~Floating(r) /\ r.item \in Items /\ Alive(r.item)
    PROVE  AnalyzerInv'
<1> USE DEF AnalyzerInv
<1>type. TypeOK'
  BY SMTT(60) DEF TypeOK
<1>work. todo'[WORK] = todo[WORK] /\ step'[WORK] = step[WORK]
  BY ThreadNames
<1>alive. \A k \in Items : Alive(k)' => Alive(k)
  <2> SUFFICES ASSUME NEW k \in Items, Alive(k)' PROVE Alive(k)
    OBVIOUS
  <2>1. \/ k \in items
        \/ opener[k] \in {"ask", "calls"}
        \/ ui.item = k
        \/ cmd.item = k
        \/ wpc \in {"work", "pass", "cleanup", "skip", "complete", "end"} /\ task.item = k
        \/ \E r \in ToSet(queue) \cup {task} : r.item = k /\ r.chain
        \/ \E u \in Threads : \E r \in ToSet(todo'[u]) : r.item = k
    BY DEF Alive
  <2>2. CASE \E u \in Threads : \E r \in ToSet(todo'[u]) : r.item = k
    <3>1. PICK u \in Threads : \E r \in ToSet(todo'[u]) : r.item = k
      BY <2>2
    <3>2. CASE u = t
      BY <3>1, <3>2
    <3>3. CASE u # t
      BY <3>1, <3>3 DEF Alive
    <3> QED BY <3>2, <3>3
  <2> QED BY <2>1, <2>2 DEF Alive
<1>born. Born'
  <2>1. \A u \in Threads : \A r \in ToSet(todo'[u]) : r.item <= lastUid
    <3> SUFFICES ASSUME NEW u \in Threads, NEW r \in ToSet(todo'[u]) PROVE r.item <= lastUid
      OBVIOUS
    <3>1. CASE u = t
      BY <3>1, AliveBorn
    <3>2. CASE u # t
      BY <3>2 DEF Born
    <3> QED BY <3>1, <3>2
  <2> QED BY <2>1 DEF Born
<1>remove. RemoveInv'
  BY DEF RemoveInv, ActiveExists
<1>worker. WorkerInv'
  <2>1. \A u \in Threads \ {WORK} : step'[u] # "mark" /\ \A r \in ToSet(todo'[u]) : ~Floating(r)
    BY DEF WorkerInv
  <2> QED BY <2>1, <1>work DEF WorkerInv, Calling
<1>pass. PassInv'
  BY DEF PassInv
<1>distinct. AddrInv'
  BY <1>alive DEF AddrInv
<1>held. MarkHeld'
  BY <1>work DEF MarkHeld, StartsPass, AddsPass, Calling
<1>single. MarkSingle'
  BY <1>work DEF MarkSingle, StartsPass, AddsPass, RunsPass, Calling
<1>order. OrderInv'
  <2> SUFFICES ASSUME NEW p \in 1..Len(queue), Floating(queue[p]), NEW i \in Items,
                      i # queue[p].item, addr[i] = addr[queue[p].item], Alive(i)'
               PROVE  task.item # i /\ \A q \in 1..(p - 1) : queue[q].item # i
    BY DEF OrderInv
  <2> QED BY <1>alive DEF OrderInv
<1>asks. AskedInv'
  BY <1>work DEF AskedInv, RunsPass, Calling
<1>served. ServedInv'
  BY <1>work DEF ServedInv, Owed, Coming, RunsPass, Calling
<1> QED BY <1>type, <1>born, <1>remove, <1>worker, <1>pass, <1>distinct, <1>held, <1>single,
           <1>order, <1>asks, <1>served

\* The user chose the tasks of an opened item.
LEMMA StartAutoTasksHolds ==
    ASSUME AnalyzerInv, NEW i \in Items, StartAutoTasks(i)
    PROVE  AnalyzerInv'
<1> USE DEF AnalyzerInv
<1>1. UNCHANGED <<items, lastUid, active, deleting, addr, opener, ui, cmd, cmdCount, step, queue,
                  task, wpc, left, ops, wsOps, cancelled, marked, flags, found, undone, asked,
                  broken>>
  BY DEF StartAutoTasks, cmdVars, poolVars, opVars, dataVars
<1>2. pending' \subseteq Items /\ dialog' \subseteq Items
  BY DEF StartAutoTasks, TypeOK
<1>3. CommandInv' /\ UI \in Threads \ {WORK} /\ step[UI] # "mark"
  BY <1>1, ThreadNames DEF CommandInv, WorkerInv
<1>4. CASE UNCHANGED todo
  <2>1. todo'[UI] = << >> /\ ToSet(todo'[UI]) = {}
    BY <1>4, EmptySet DEF StartAutoTasks, UIReady
  <2> QED BY <1>1, <1>2, <1>3, <1>4, <2>1, OtherCalls DEF TypeOK
<1>5. CASE ~UNCHANGED todo
  <2>1. PICK tasks \in TaskChoices : todo' = [todo EXCEPT ![UI] = AnalysisOps(i, tasks)]
    BY <1>5 DEF StartAutoTasks
  <2>2. i \in items
    BY <1>5 DEF StartAutoTasks
  <2> DEFINE x == AnalysisOps(i, tasks)
  <2>3. x \in Seq(Request) /\ \A r \in ToSet(x) : r.item = i /\ ~Floating(r)
    BY AnalysisCalls
  <2> HIDE DEF x
  <2>4. todo' = [todo EXCEPT ![UI] = x]
    BY <2>1 DEF x
  <2>5. /\ todo' \in [Threads -> Seq(Request)]
        /\ todo'[UI] = x /\ \A u \in Threads \ {UI} : todo'[u] = todo[u]
    BY <1>3, <2>3, <2>4, CallsChanged
  <2>6. \A r \in ToSet(todo'[UI]) : ~Floating(r) /\ r.item \in Items /\ Alive(r.item)
    BY <2>2, <2>3, <2>5 DEF Alive
  <2> QED BY <1>1, <1>2, <1>3, <2>5, <2>6, OtherCalls DEF TypeOK
<1> QED BY <1>4, <1>5

\* The calls of a command are for the item it captured.
LEMMA ExecuteImplHolds ==
    ASSUME AnalyzerInv, ExecuteImpl
    PROVE  AnalyzerInv'
<1> USE DEF AnalyzerInv
<1>1. UNCHANGED <<items, lastUid, active, pending, deleting, addr, opener, dialog, ui, cmdCount,
                  step, queue, task, wpc, left, ops, wsOps, cancelled, marked, flags, found,
                  undone, asked, broken>>
  BY DEF ExecuteImpl, itemVars, uiVars, poolVars, opVars, dataVars
<1>2. cmd.pc = "queued" /\ cmd.item \in Items /\ cmd.op \in Ops /\ Alive(cmd.item)
  BY DEF ExecuteImpl, CommandInv, Alive
<1>3. /\ cmd' \in [pc : {"idle", "queued", "run"}, item : Items \cup {NoItem},
                   op : Ops \cup {<<"none", 0>>}]
      /\ cmd'.item = cmd.item /\ cmd'.op = cmd.op
  BY DEF ExecuteImpl, TypeOK
<1>4. CommandInv' /\ CMD \in Threads \ {WORK} /\ step[CMD] # "mark"
  BY <1>2, <1>3, ThreadNames DEF CommandInv, WorkerInv
<1> DEFINE a(force) == Call("analyze", cmd.item, cmd.op, active, force, FALSE)
           b == Call("private", cmd.item, cmd.op, active, FALSE, FALSE)
           c == Call("symbols", cmd.item, cmd.op, active, FALSE, FALSE)
<1>5. \A force \in BOOLEAN :
        a(force) \in Request /\ a(force).item = cmd.item /\ ~Floating(a(force))
  BY <1>2 DEF Call, Request, Kinds, Floating, TypeOK
<1>6. b \in Request /\ b.item = cmd.item /\ ~Floating(b)
  BY <1>2 DEF Call, Request, Kinds, Floating, TypeOK
<1>7. c \in Request /\ c.item = cmd.item /\ ~Floating(c)
  BY <1>2 DEF Call, Request, Kinds, Floating, TypeOK
<1>8. (\E force \in BOOLEAN : todo' = [todo EXCEPT ![CMD] = <<a(force), b>>])
      \/ todo' = [todo EXCEPT ![CMD] = <<c>>]
  BY DEF ExecuteImpl
<1> HIDE DEF a, b, c
<1>9. PICK x \in Seq(Request) :
        /\ todo' = [todo EXCEPT ![CMD] = x]
        /\ \A r \in ToSet(x) : r \in Request /\ r.item = cmd.item /\ ~Floating(r)
  <2>1. ASSUME NEW force \in BOOLEAN
        PROVE  /\ <<a(force), b>> \in Seq(Request)
               /\ \A r \in ToSet(<<a(force), b>>) : r \in Request /\ r.item = cmd.item /\ ~Floating(r)
    <3> DEFINE z == <<a(force), b>>
    <3>1. /\ z \in Seq(Request) /\ Len(z) = 2 /\ z[1] = a(force) /\ z[2] = b
      BY <1>5, <1>6
    <3> HIDE DEF z
    <3>2. \A r \in ToSet(z) : r = a(force) \/ r = b
      BY <3>1, SeqSet
    <3>3. z \in Seq(Request)
          /\ \A r \in ToSet(z) : r \in Request /\ r.item = cmd.item /\ ~Floating(r)
      BY <3>1, <3>2, <1>5, <1>6
    <3> QED BY <3>3 DEF z
  <2>2. <<c>> \in Seq(Request) /\ ToSet(<<c>>) = {c}
    BY <1>7, SingleSet
  <2> QED BY <1>7, <1>8, <2>1, <2>2
<1>10. /\ todo' \in [Threads -> Seq(Request)]
       /\ todo'[CMD] = x /\ \A u \in Threads \ {CMD} : todo'[u] = todo[u]
  BY <1>4, <1>9, CallsChanged
<1>11. \A r \in ToSet(todo'[CMD]) : ~Floating(r) /\ r.item \in Items /\ Alive(r.item)
  BY <1>2, <1>9, <1>10
<1> QED BY <1>1, <1>3, <1>4, <1>10, <1>11, OtherCalls DEF TypeOK

\* A call that is over.
LEMMA DropCalls ==
    ASSUME TypeOK, NEW t \in Threads, todo[t] # << >>, Drop(t)
    PROVE  /\ todo' \in [Threads -> Seq(Request)]
           /\ step' \in [Threads -> {"test", "mark", "register", "add"}]
           /\ \A u \in Threads \ {t} : todo'[u] = todo[u] /\ step'[u] = step[u]
           /\ step'[t] = "test" /\ todo'[t] = Tail(todo[t])
           /\ ToSet(todo'[t]) \subseteq ToSet(todo[t])
           /\ Len(todo[t]) = 1 => todo'[t] = << >>
<1> DEFINE x == Tail(todo[t])
<1>1. todo[t] \in Seq(Request)
  BY DEF TypeOK
<1>2. ToSet(x) \subseteq ToSet(todo[t]) /\ x \in Seq(Request)
  BY <1>1, TailSet
<1>3. Len(x) = Len(todo[t]) - 1
  BY <1>1
<1>4. todo' = [todo EXCEPT ![t] = x]
  BY DEF Drop
<1> HIDE DEF x
<1>5. /\ todo' \in [Threads -> Seq(Request)]
      /\ todo'[t] = x /\ \A u \in Threads \ {t} : todo'[u] = todo[u]
  BY <1>2, <1>4, CallsChanged
<1>6. /\ step' \in [Threads -> {"test", "mark", "register", "add"}]
      /\ step'[t] = "test" /\ \A u \in Threads \ {t} : step'[u] = step[u]
  BY DEF Drop, TypeOK
<1>7. Len(todo[t]) = 1 => x = << >>
  BY <1>2, <1>3
<1> QED BY <1>2, <1>5, <1>6, <1>7 DEF x

\* RegisterOp gives the first call its id and leaves the rest as it is.
LEMMA RegisterCalls ==
    ASSUME AnalyzerInv, NEW t \in Threads, RegisterOp(t)
    PROVE  /\ todo' \in [Threads -> Seq(Request)]
           /\ step' \in [Threads -> {"test", "mark", "register", "add"}]
           /\ \A u \in Threads \ {t} : todo'[u] = todo[u] /\ step'[u] = step[u]
           /\ step[t] = "register" /\ step'[t] = "add" /\ todo[t] # << >> /\ todo'[t] # << >>
           /\ Len(todo'[t]) = Len(todo[t])
           /\ todo'[t][1].kind = todo[t][1].kind /\ todo'[t][1].item = todo[t][1].item
           /\ todo'[t][1].op = todo[t][1].op
           /\ \A r \in ToSet(todo'[t]) : \E s \in ToSet(todo[t]) : r.kind = s.kind /\ r.item = s.item
           /\ ops' \subseteq [id : Ids, op : Ops] /\ IsFiniteSet(ops')
           /\ wsOps' \in [Items \cup {NoItem} -> SUBSET Ops]
<1> USE DEF AnalyzerInv
<1>1. /\ todo[t] # << >> /\ todo[t] \in Seq(Request) /\ Head(todo[t]) = todo[t][1]
      /\ todo[t][1] \in Request /\ todo[t][1] \in ToSet(todo[t])
  BY Requests DEF RegisterOp, TypeOK
<1> DEFINE h == todo[t][1]
           n == NewId
           r == [h EXCEPT !.id = n]
           y == Tail(todo[t])
           x == <<r>> \o y
<1>2. n \in Ids
  BY NewIdType
<1>3. /\ ops' = ops \cup {[id |-> n, op |-> h.op]}
      /\ wsOps' = [wsOps EXCEPT ![h.ws] = @ \cup {h.op}]
      /\ todo' = [todo EXCEPT ![t] = x]
      /\ step[t] = "register" /\ step' = [step EXCEPT ![t] = "add"]
  BY <1>1 DEF RegisterOp
<1>4. y \in Seq(Request) /\ ToSet(y) \subseteq ToSet(todo[t]) /\ Len(y) = Len(todo[t]) - 1
  BY <1>1, TailSet
<1> HIDE DEF n
<1>5. r \in Request /\ r.item = h.item /\ r.kind = h.kind /\ r.op = h.op
  BY <1>1, <1>2 DEF Request
<1>6. h.op \in Ops /\ h.ws \in Items \cup {NoItem}
  BY <1>1 DEF Request
<1> HIDE DEF r, y, h
<1>7. /\ x \in Seq(Request) /\ x # << >> /\ x[1] = r /\ Len(x) = 1 + Len(y)
      /\ \A i \in 1..Len(y) : x[i + 1] = y[i]
  BY <1>4, <1>5
<1>8. \A s \in ToSet(x) : s = r \/ s \in ToSet(y)
  <2> HIDE DEF x
  <2> SUFFICES ASSUME NEW i \in 1..Len(x), i # 1 PROVE x[i] \in ToSet(y)
    BY <1>7, SeqSet
  <2>1. i - 1 \in 1..Len(y) /\ (i - 1) + 1 = i
    BY <1>4, <1>7
  <2>2. x[i] = y[i - 1]
    BY <2>1, <1>7
  <2> QED BY <2>1, <2>2, <1>4, SeqSet
<1> HIDE DEF x
<1>9. /\ todo' \in [Threads -> Seq(Request)]
      /\ todo'[t] = x /\ \A u \in Threads \ {t} : todo'[u] = todo[u]
  BY <1>3, <1>7, CallsChanged
<1>10. /\ step' \in [Threads -> {"test", "mark", "register", "add"}]
       /\ step'[t] = "add" /\ \A u \in Threads \ {t} : step'[u] = step[u]
  BY <1>3 DEF TypeOK
<1>11. ops' \subseteq [id : Ids, op : Ops]
  BY <1>2, <1>3, <1>6, SMTT(60) DEF TypeOK
<1>12. IsFiniteSet(ops')
  BY <1>3, FS_AddElement
<1>13. wsOps' \in [Items \cup {NoItem} -> SUBSET Ops]
  BY <1>3, <1>6 DEF TypeOK
<1>14. \A s \in ToSet(x) : \E z \in ToSet(todo[t]) : s.kind = z.kind /\ s.item = z.item
  BY <1>1, <1>4, <1>5, <1>8 DEF h
<1>15. Len(x) = Len(todo[t])
  <2>1. Len(todo[t]) \in Nat
    BY <1>1
  <2> QED BY <1>4, <1>7, <2>1
<1> QED BY <1>1, <1>3, <1>5, <1>7, <1>9, <1>10, <1>11, <1>12, <1>13, <1>14, <1>15 DEF h

\* The calls of a thread that is not the worker.
LEMMA OtherThread ==
    ASSUME AnalyzerInv, NEW t \in Threads \ {WORK}
    PROVE  /\ step[t] # "mark"
           /\ \A r \in ToSet(todo[t]) :
                /\ r \in Request /\ ~Floating(r) /\ r.item \in Items /\ Alive(r.item)
                /\ r.item <= lastUid
<1> USE DEF AnalyzerInv
<1>1. step[t] # "mark" /\ \A r \in ToSet(todo[t]) : ~Floating(r)
  BY DEF WorkerInv
<1>2. \A r \in ToSet(todo[t]) : r \in Request /\ r.item \in Items /\ Alive(r.item)
  BY Requests DEF Alive
<1>3. \A r \in ToSet(todo[t]) : r.item <= lastUid
  BY DEF Born
<1> QED BY <1>1, <1>2, <1>3

LEMMA OtherTestHolds ==
    ASSUME AnalyzerInv, NEW t \in Threads \ {WORK}, EnqueueTest(t)
    PROVE  AnalyzerInv'
<1> USE DEF AnalyzerInv
<1>1. UNCHANGED <<items, lastUid, active, pending, deleting, addr, opener, dialog, ui, cmd,
                  cmdCount, queue, task, wpc, left, ops, wsOps, cancelled, marked, flags, found,
                  undone, asked, broken>>
  BY DEF EnqueueTest, itemVars, uiVars, cmdVars, poolVars, opVars, dataVars
<1>2. todo[t] # << >> /\ Head(todo[t]) \in ToSet(todo[t])
  BY Requests DEF EnqueueTest
<1>3. ~Floating(Head(todo[t]))
  BY <1>2, OtherThread
<1>4. CommandInv'
  BY <1>1 DEF CommandInv
<1>5. CASE Drop(t)
  <2>1. /\ todo' \in [Threads -> Seq(Request)]
        /\ step' \in [Threads -> {"test", "mark", "register", "add"}]
        /\ \A u \in Threads \ {t} : todo'[u] = todo[u] /\ step'[u] = step[u]
        /\ step'[t] = "test" /\ ToSet(todo'[t]) \subseteq ToSet(todo[t])
    BY <1>2, <1>5, DropCalls
  <2> QED BY <1>1, <1>4, <2>1, OtherThread, OtherCalls DEF TypeOK
<1>6. CASE ~Drop(t)
  <2>1. UNCHANGED todo /\ step' = [step EXCEPT ![t] = "register"]
    BY <1>3, <1>6 DEF EnqueueTest, Floating
  <2>2. /\ step' \in [Threads -> {"test", "mark", "register", "add"}]
        /\ \A u \in Threads \ {t} : step'[u] = step[u]
        /\ step'[t] = "register"
    BY <2>1 DEF TypeOK
  <2> QED BY <1>1, <1>4, <2>1, <2>2, OtherThread, OtherCalls DEF TypeOK
<1> QED BY <1>5, <1>6

LEMMA OtherRegisterHolds ==
    ASSUME AnalyzerInv, NEW t \in Threads \ {WORK}, RegisterOp(t)
    PROVE  AnalyzerInv'
<1> USE DEF AnalyzerInv
<1>1. UNCHANGED <<items, lastUid, active, pending, deleting, addr, opener, dialog, ui, cmd,
                  cmdCount, queue, task, wpc, left, cancelled, marked, flags, found, undone, asked,
                  broken>>
  BY DEF RegisterOp, itemVars, uiVars, cmdVars, poolVars, dataVars
<1>2. /\ todo' \in [Threads -> Seq(Request)]
      /\ step' \in [Threads -> {"test", "mark", "register", "add"}]
      /\ \A u \in Threads \ {t} : todo'[u] = todo[u] /\ step'[u] = step[u]
      /\ step'[t] = "add"
      /\ \A r \in ToSet(todo'[t]) : \E s \in ToSet(todo[t]) : r.kind = s.kind /\ r.item = s.item
      /\ ops' \subseteq [id : Ids, op : Ops] /\ IsFiniteSet(ops')
      /\ wsOps' \in [Items \cup {NoItem} -> SUBSET Ops]
  BY RegisterCalls
<1>3. \A r \in ToSet(todo'[t]) : ~Floating(r) /\ r.item \in Items /\ Alive(r.item)
  BY <1>2, OtherThread DEF Floating
<1>4. CommandInv'
  BY <1>1 DEF CommandInv
<1> QED BY <1>1, <1>2, <1>3, <1>4, OtherCalls DEF TypeOK

-----------------------------------------------------------------------------
(* The queue of the pool.                                                   *)

\* The types of the state, when an item is opened or a task queued.
LEMMA TypesKept ==
    ASSUME TypeOK,
           UNCHANGED <<active, pending, deleting, dialog, ui, cmd, cmdCount, task, wpc, left, ops,
                       wsOps, cancelled, marked, flags, found, undone, asked, broken>>,
           items' \subseteq Items, lastUid' \in 0..MaxItem, addr' \in [Items -> Addrs],
           opener' \in [Items -> {"new", "ask", "calls", "reply", "askReply", "done"}],
           todo' \in [Threads -> Seq(Request)],
           step' \in [Threads -> {"test", "mark", "register", "add"}],
           queue' \in Seq(Request)
    PROVE  TypeOK'
<1>1. /\ active' \in Items \cup {NoItem} /\ pending' \subseteq Items /\ deleting' \subseteq Items
      /\ dialog' \subseteq Items
      /\ ui' \in [pc : {"idle", "mark", "cancel", "pick", "stop", "join", "closed"},
                 item : Items \cup {NoItem}, next : Items \cup {NoItem}]
      /\ cmd' \in [pc : {"idle", "queued", "run"}, item : Items \cup {NoItem},
                  op : Ops \cup {<<"none", 0>>}]
      /\ cmdCount' \in 0..Commands
  BY DEF TypeOK
<1>2. /\ task' \in Request \cup {NoTask}
      /\ wpc' \in {"idle", "start", "work", "pass", "cleanup", "skip", "complete", "end",
                  "gone", "dropped"}
      /\ left' \in 0..Regions
      /\ ops' \subseteq [id : Ids, op : Ops]
      /\ wsOps' \in [Items \cup {NoItem} -> SUBSET Ops]
      /\ cancelled' \subseteq Ops /\ marked' \subseteq Addrs
  BY DEF TypeOK
<1>3. /\ flags' \in [Items -> SUBSET {"analyzeDone", "symbolsLoaded", "analyzePrivateDone"}]
      /\ found' \in [Items -> 0..Regions]
      /\ undone' \in [Items -> 0..Regions]
      /\ asked' \in [Items -> SUBSET Ops] /\ broken' \subseteq Items
  BY DEF TypeOK
<1> QED BY <1>1, <1>2, <1>3 DEF TypeOK

\* AddTask: the call of a thread becomes the last task of the queue.
LEMMA EnqueueAddHolds ==
    ASSUME AnalyzerInv, NEW t \in Threads, EnqueueAdd(t)
    PROVE  AnalyzerInv'
<1> USE DEF AnalyzerInv
<1>1. UNCHANGED <<items, lastUid, active, pending, deleting, addr, opener, dialog, ui, cmd,
                  cmdCount, task, wpc, left, ops, wsOps, cancelled, marked, flags, found, undone,
                  asked, broken>>
  BY DEF EnqueueAdd, itemVars, uiVars, cmdVars, opVars, dataVars
<1>2. /\ todo[t] # << >> /\ step[t] = "add" /\ Drop(t)
      /\ queue' = Append(queue, todo[t][1])
      /\ todo[t][1] \in Request /\ todo[t][1] \in ToSet(todo[t])
  BY Requests DEF EnqueueAdd
<1>3. /\ todo' \in [Threads -> Seq(Request)]
      /\ step' \in [Threads -> {"test", "mark", "register", "add"}]
      /\ \A u \in Threads \ {t} : todo'[u] = todo[u] /\ step'[u] = step[u]
      /\ step'[t] = "test" /\ ToSet(todo'[t]) \subseteq ToSet(todo[t])
      /\ Len(todo[t]) = 1 => todo'[t] = << >>
  BY <1>2, DropCalls
<1> DEFINE h == todo[t][1]
           n == Len(queue)
<1>4. /\ queue' \in Seq(Request) /\ ToSet(queue') = ToSet(queue) \cup {h}
      /\ n \in Nat /\ Len(queue') = n + 1 /\ queue'[n + 1] = h
      /\ \A p \in 1..n : queue'[p] = queue[p]
  <2> HIDE DEF h
  <2>1. queue \in Seq(Request) /\ h \in Request /\ queue' = Append(queue, h)
    BY <1>2 DEF h, TypeOK
  <2> QED BY <2>1, AppendSet
<1>5. h.item \in Items /\ Alive(h.item) /\ h.item <= lastUid
  BY <1>2, Requests DEF Alive, Born
<1>6. \A u \in Threads : ToSet(todo'[u]) \subseteq ToSet(todo[u])
  BY <1>3
<1> HIDE DEF h, n
<1>type. TypeOK'
  <2>1. /\ todo' \in [Threads -> Seq(Request)] /\ queue' \in Seq(Request)
        /\ step' \in [Threads -> {"test", "mark", "register", "add"}]
    BY <1>3, <1>4
  <2> QED BY <1>1, <2>1, TypesKept DEF TypeOK
<1>fin. IsFiniteSet(ops')
  BY <1>1
<1>alive. \A k \in Items : Alive(k)' => Alive(k)
  <2> SUFFICES ASSUME NEW k \in Items, Alive(k)', k # h.item PROVE Alive(k)
    BY <1>5
  <2>1. \/ k \in items
        \/ opener[k] \in {"ask", "calls"}
        \/ ui.item = k
        \/ cmd.item = k
        \/ wpc \in {"work", "pass", "cleanup", "skip", "complete", "end"} /\ task.item = k
        \/ \E r \in ToSet(queue') \cup {task} : r.item = k /\ r.chain
        \/ \E u \in Threads : \E r \in ToSet(todo'[u]) : r.item = k
    BY <1>1 DEF Alive
  <2> QED BY <2>1, <1>4, <1>6 DEF Alive
<1>born. Born'
  BY <1>1, <1>4, <1>5, <1>6 DEF Born
<1>remove. RemoveInv' /\ CommandInv' /\ PassInv'
  BY <1>1 DEF RemoveInv, ActiveExists, CommandInv, PassInv
<1>distinct. AddrInv'
  BY <1>1, <1>alive DEF AddrInv
<1>order. OrderInv'
  <2> SUFFICES ASSUME NEW p \in 1..(n + 1), Floating(queue'[p]), NEW i \in Items,
                      i # queue'[p].item, addr[i] = addr[queue'[p].item], Alive(i)
               PROVE  task.item # i /\ \A q \in 1..(p - 1) : queue'[q].item # i
    BY <1>1, <1>4, <1>alive DEF OrderInv
  <2>1. CASE p = n + 1
    BY <2>1, <1>4, <1>5 DEF AddrInv
  <2>2. CASE p \in 1..n
    <3>1. task.item # i /\ \A q \in 1..(p - 1) : queue[q].item # i
      BY <2>2, <1>4 DEF OrderInv, n
    <3>2. \A q \in 1..(p - 1) : queue'[q] = queue[q]
      BY <2>2, <1>4
    <3> QED BY <3>1, <3>2
  <2> QED BY <2>1, <2>2, <1>4
<1>7. CASE t # WORK
  <2>1. ~Floating(h)
    BY <1>2, <1>7, OtherThread DEF h
  <2>2. todo'[WORK] = todo[WORK] /\ step'[WORK] = step[WORK]
    BY <1>3, <1>7, ThreadNames
  <2>3. WorkerInv'
    <3>1. \A u \in Threads \ {WORK} : step'[u] # "mark" /\ \A r \in ToSet(todo'[u]) : ~Floating(r)
      BY <1>3, <1>6 DEF WorkerInv
    <3> QED BY <1>1, <2>2, <3>1 DEF WorkerInv, Calling
  <2>4. MarkHeld'
    BY <1>1, <1>4, <2>2 DEF MarkHeld, StartsPass, AddsPass, Calling
  <2>5. MarkSingle'
    <3>1. \A r \in ToSet(queue') : Floating(r) => r \in ToSet(queue)
      BY <1>4, <2>1
    <3>2. ASSUME NEW p \in 1..(n + 1), NEW q \in 1..(n + 1),
                 p < q, Floating(queue'[p]), Floating(queue'[q])
          PROVE  addr[queue'[p].item] # addr[queue'[q].item]
      <4>1. p \in 1..n /\ q \in 1..n
        BY <3>2, <1>4, <2>1
      <4> QED BY <4>1, <3>2, <1>4 DEF MarkSingle, n
    <3> QED BY <1>1, <1>4, <2>2, <3>1, <3>2 DEF MarkSingle, StartsPass, AddsPass, RunsPass, Calling
  <2>6. AskedInv'
    BY <1>1, <1>4, <2>1, <2>2 DEF AskedInv, RunsPass, Calling
  <2>7. ServedInv'
    BY <1>1, <1>4, <2>2 DEF ServedInv, Owed, Coming, RunsPass, Calling
  <2> QED BY <1>type, <1>fin, <1>born, <1>remove, <1>distinct, <1>order, <2>3, <2>4, <2>5, <2>6,
             <2>7
<1>8. CASE t = WORK
  <2>1. /\ h.item = task.item /\ Len(todo[WORK]) = 1 /\ Calling
        /\ wpc = (IF Floating(h) THEN "cleanup" ELSE "end")
    BY <1>2, <1>8 DEF WorkerInv, Calling, h
  <2>2. todo'[WORK] = << >> /\ step'[WORK] = "test" /\ ~Calling' /\ ~AddsPass'
    BY <1>3, <1>8, <2>1 DEF Calling, AddsPass
  <2>3. AddsPass <=> Floating(h)
    BY <1>2, <1>8, <2>1 DEF AddsPass, h
  <2>4. ~StartsPass /\ ~StartsPass' /\ ~RunsPass /\ ~RunsPass'
    BY <1>1, <2>1 DEF StartsPass, RunsPass
  <2>5. WorkerInv'
    <3>1. \A u \in Threads \ {WORK} : step'[u] # "mark" /\ \A r \in ToSet(todo'[u]) : ~Floating(r)
      BY <1>3, <1>6, <1>8 DEF WorkerInv
    <3> QED BY <1>1, <2>2, <3>1 DEF WorkerInv, Calling
  <2>6. MarkHeld'
    BY <1>1, <1>4, <1>8, <2>3, <2>4 DEF MarkHeld, h
  <2>7. MarkSingle'
    <3>1. Floating(h) => addr[h.item] \in marked
                         /\ \A r \in ToSet(queue) : Floating(r) => addr[r.item] # addr[h.item]
      BY <1>8, <2>3 DEF MarkSingle, h
    <3>2. ASSUME NEW p \in 1..(n + 1), NEW q \in 1..(n + 1),
                 p < q, Floating(queue'[p]), Floating(queue'[q])
          PROVE  addr[queue'[p].item] # addr[queue'[q].item]
      <4>1. CASE q \in 1..n
        <5>1. p \in 1..n
          BY <4>1, <3>2, <1>4
        <5> QED BY <4>1, <5>1, <3>2, <1>4 DEF MarkSingle, n
      <4>2. CASE q = n + 1
        <5>1. p \in 1..n /\ queue[p] \in ToSet(queue)
          <6>1. p \in 1..n
            BY <4>2, <3>2, <1>4
          <6> QED BY <6>1, SeqSet DEF n, TypeOK
        <5> QED BY <4>2, <5>1, <3>1, <3>2, <1>4
      <4> QED BY <4>1, <4>2, <1>4
    <3> QED BY <1>1, <1>4, <2>2, <2>4, <3>1, <3>2 DEF MarkSingle
  <2>8. AskedInv'
    BY <1>1, <1>4, <1>8, <2>1, <2>2, <2>4 DEF AskedInv, h
  <2>9. ServedInv'
    BY <1>1, <1>4, <1>8, <2>1, <2>4 DEF ServedInv, Owed, Coming, h
  <2> QED BY <1>type, <1>fin, <1>born, <1>remove, <1>distinct, <1>order, <2>5, <2>6, <2>7, <2>8,
             <2>9
<1> QED BY <1>7, <1>8

\* The worker takes the first task.
LEMMA TakeHolds ==
    ASSUME AnalyzerInv, Take
    PROVE  AnalyzerInv'
<1> USE DEF AnalyzerInv
<1>1. UNCHANGED <<items, lastUid, active, pending, deleting, addr, opener, dialog, ui, cmd,
                  cmdCount, todo, step, left, ops, wsOps, cancelled, marked, flags, found, undone,
                  asked, broken>>
  BY DEF Take, itemVars, uiVars, cmdVars, callVars, opVars, dataVars
<1>2. /\ queue # << >> /\ queue \in Seq(Request) /\ queue' = Tail(queue) /\ task' = Head(queue)
      /\ wpc = "idle" /\ wpc' = "start" /\ task = NoTask
      /\ todo[WORK] = << >> /\ step[WORK] = "test"
  BY WorkerQuiet DEF Take, TypeOK, WorkerInv
<1> DEFINE n == Len(queue')
<1>3. /\ ToSet(queue) = ToSet(queue') \cup {task'} /\ queue' \in Seq(Request) /\ task' \in Request
      /\ n \in Nat /\ Len(queue) = n + 1 /\ task' = queue[1]
      /\ \A p \in 1..n : p + 1 \in 1..(n + 1) /\ queue'[p] = queue[p + 1]
  <2>1. ToSet(queue) = ToSet(queue') \cup {task'} /\ queue' \in Seq(Request) /\ task' \in Request
    BY <1>2, TailSet
  <2>2. n \in Nat /\ Len(queue) = n + 1 /\ task' = queue[1]
    BY <1>2
  <2>3. \A p \in 1..n : p + 1 \in 1..(n + 1) /\ queue'[p] = queue[p + 1]
    BY <1>2
  <2> QED BY <2>1, <2>2, <2>3
<1> HIDE DEF n
<1>type. TypeOK'
  BY <1>1, <1>2, <1>3, SMTT(60) DEF TypeOK
<1>fin. IsFiniteSet(ops')
  BY <1>1
<1>alive. \A k \in Items : Alive(k)' => Alive(k)
  <2> SUFFICES ASSUME NEW k \in Items, Alive(k)' PROVE Alive(k)
    OBVIOUS
  <2>1. \/ k \in items
        \/ opener[k] \in {"ask", "calls"}
        \/ ui.item = k
        \/ cmd.item = k
        \/ \E r \in ToSet(queue') \cup {task'} : r.item = k /\ r.chain
        \/ \E u \in Threads : \E r \in ToSet(todo[u]) : r.item = k
    BY <1>1, <1>2 DEF Alive
  <2> QED BY <2>1, <1>3 DEF Alive
<1>born. Born'
  BY <1>1, <1>3 DEF Born
<1>remove. RemoveInv' /\ CommandInv' /\ PassInv'
  BY <1>1, <1>2 DEF RemoveInv, ActiveExists, CommandInv, PassInv
<1>worker. WorkerInv'
  BY <1>1, <1>2, <1>3 DEF WorkerInv, Calling
<1>distinct. AddrInv'
  BY <1>1, <1>alive DEF AddrInv
<1>4. ~StartsPass /\ ~AddsPass /\ ~AddsPass' /\ ~RunsPass /\ ~Calling /\ ~Calling'
  BY <1>1, <1>2 DEF StartsPass, AddsPass, RunsPass, Calling
<1>5. (StartsPass' <=> Floating(task')) /\ (RunsPass' <=> Floating(task'))
  BY <1>2 DEF StartsPass, RunsPass
<1>held. MarkHeld'
  BY <1>1, <1>3, <1>4, <1>5 DEF MarkHeld
<1>6. ASSUME NEW r \in ToSet(queue'), Floating(r), Floating(task')
      PROVE  addr[r.item] # addr[task'.item]
  <2>1. PICK p \in 1..n : r = queue'[p]
    BY <1>3, SeqSet DEF n
  <2>2. r = queue[p + 1] /\ p + 1 \in 1..(n + 1) /\ 1 < p + 1 /\ 1 \in 1..(n + 1)
    BY <1>3, <2>1
  <2> QED BY <2>2, <1>3, <1>6 DEF MarkSingle
<1>single. MarkSingle'
  <2>1. ASSUME NEW p \in 1..n, NEW q \in 1..n, p < q, Floating(queue'[p]), Floating(queue'[q])
        PROVE  addr[queue'[p].item] # addr[queue'[q].item]
    <3>1. /\ p + 1 < q + 1 /\ p + 1 \in 1..(n + 1) /\ q + 1 \in 1..(n + 1)
          /\ queue'[p] = queue[p + 1] /\ queue'[q] = queue[q + 1]
      BY <1>3, <2>1
    <3>2. \A a, b \in 1..(n + 1) : a < b /\ Floating(queue[a]) /\ Floating(queue[b])
             => addr[queue[a].item] # addr[queue[b].item]
      BY <1>3 DEF MarkSingle
    <3> QED BY <3>1, <3>2, <2>1
  <2>2. \A r \in ToSet(queue) : Floating(r) => addr[r.item] \in marked
    BY DEF MarkSingle
  <2>3. RunsPass' => \A r \in ToSet(queue') : Floating(r) => r.item # task'.item
    BY <1>5, <1>6
  <2> QED BY <1>1, <1>3, <1>4, <1>5, <1>6, <2>1, <2>2, <2>3 DEF MarkSingle, n
<1>order. OrderInv'
  <2> SUFFICES ASSUME NEW p \in 1..n, Floating(queue'[p]), NEW i \in Items,
                      i # queue'[p].item, addr[i] = addr[queue'[p].item], Alive(i)
               PROVE  task'.item # i /\ \A q \in 1..(p - 1) : queue'[q].item # i
    BY <1>1, <1>alive DEF OrderInv, n
  <2>1. p + 1 \in 1..(n + 1) /\ queue'[p] = queue[p + 1]
    BY <1>3
  <2>2. \A q \in 1..((p + 1) - 1) : queue[q].item # i
    BY <2>1, <1>3 DEF OrderInv
  <2>3. task'.item # i
    <3>1. 1 \in 1..((p + 1) - 1)
      BY <1>3
    <3> QED BY <3>1, <2>2, <1>3
  <2>4. ASSUME NEW q \in 1..(p - 1) PROVE queue'[q].item # i
    <3>1. q \in 1..n /\ q + 1 \in 1..((p + 1) - 1)
      BY <1>3
    <3> QED BY <3>1, <2>2, <1>3
  <2> QED BY <2>3, <2>4
<1>asks. AskedInv'
  BY <1>1, <1>3, <1>4, <1>5 DEF AskedInv
<1>served. ServedInv'
  BY <1>1, <1>3, <1>4, <1>5 DEF ServedInv, Owed, Coming
<1> QED BY <1>type, <1>fin, <1>born, <1>remove, <1>worker, <1>distinct, <1>held, <1>single,
           <1>order, <1>asks, <1>served

\* The task is destroyed.
LEMMA FinishHolds ==
    ASSUME AnalyzerInv, Finish
    PROVE  AnalyzerInv'
<1> USE DEF AnalyzerInv
<1>1. UNCHANGED <<items, lastUid, active, pending, deleting, addr, opener, dialog, ui, cmd,
                  cmdCount, todo, step, queue, left, ops, wsOps, cancelled, marked, flags, found,
                  undone, asked, broken>>
  BY DEF Finish, itemVars, uiVars, cmdVars, callVars, opVars, dataVars
<1>2. /\ wpc \in {"end", "dropped"} /\ todo[WORK] = << >> /\ wpc' = "idle" /\ task' = NoTask
      /\ NoTask.item = 0 /\ ~NoTask.chain /\ step[WORK] = "test"
  BY DEF Finish, NoTask, NoItem, Call, WorkerInv, Calling
<1>none. \A k \in Items : k # 0
  BY DEF Items
<1>type. TypeOK'
  BY <1>1, <1>2, SMTT(60) DEF TypeOK
<1>fin. IsFiniteSet(ops')
  BY <1>1
<1>alive. \A k \in Items : Alive(k)' => Alive(k)
  <2> SUFFICES ASSUME NEW k \in Items, Alive(k)' PROVE Alive(k)
    OBVIOUS
  <2>1. \/ k \in items
        \/ opener[k] \in {"ask", "calls"}
        \/ ui.item = k
        \/ cmd.item = k
        \/ \E r \in ToSet(queue) \cup {NoTask} : r.item = k /\ r.chain
        \/ \E u \in Threads : \E r \in ToSet(todo[u]) : r.item = k
    BY <1>1, <1>2 DEF Alive
  <2> QED BY <2>1, <1>2 DEF Alive
<1>born. Born'
  <2>1. 0 <= lastUid
    BY AnalyzerAssumption DEF TypeOK
  <2>2. NoTask.item <= lastUid
    BY <2>1, <1>2
  <2> QED BY <1>1, <1>2, <2>2 DEF Born
<1>remove. RemoveInv' /\ CommandInv' /\ PassInv'
  BY <1>1, <1>2 DEF RemoveInv, ActiveExists, CommandInv, PassInv
<1>worker. WorkerInv'
  BY <1>1, <1>2 DEF WorkerInv, Calling
<1>distinct. AddrInv'
  BY <1>1, <1>alive DEF AddrInv
<1>4. /\ ~StartsPass /\ ~AddsPass /\ ~RunsPass /\ ~Calling
      /\ ~StartsPass' /\ ~AddsPass' /\ ~RunsPass' /\ ~Calling'
  BY <1>1, <1>2 DEF StartsPass, AddsPass, RunsPass, Calling
<1>held. MarkHeld'
  BY <1>1, <1>4 DEF MarkHeld
<1>single. MarkSingle'
  BY <1>1, <1>4 DEF MarkSingle
<1>order. OrderInv'
  BY <1>1, <1>2, <1>none, <1>alive DEF OrderInv
<1>asks. AskedInv'
  BY <1>1, <1>4 DEF AskedInv
<1>served. ServedInv'
  BY <1>1, <1>4 DEF ServedInv, Owed, Coming
<1> QED BY <1>type, <1>fin, <1>born, <1>remove, <1>worker, <1>distinct, <1>held, <1>single,
           <1>order, <1>asks, <1>served

-----------------------------------------------------------------------------
(* The Enqueue calls of the worker.                                         *)

\* What the worker's call and its place in it are.
LEMMA WorkerCall ==
    ASSUME AnalyzerInv, todo[WORK] # << >>
    PROVE  /\ Calling /\ Len(todo[WORK]) = 1 /\ todo[WORK][1] \in Request
           /\ Head(todo[WORK]) = todo[WORK][1]
           /\ todo[WORK][1].item = task.item /\ task.item \in Items /\ Alive(task.item)
           /\ \A r \in ToSet(todo[WORK]) : r.item = task.item
           /\ wpc = (IF Floating(todo[WORK][1]) THEN "cleanup" ELSE "end")
           /\ ~StartsPass /\ ~RunsPass
<1> USE DEF AnalyzerInv
<1>1. /\ Head(todo[WORK]) = todo[WORK][1] /\ todo[WORK][1] \in Request
      /\ todo[WORK] \in Seq(Request)
  BY ThreadNames, Requests DEF TypeOK
<1>2. /\ Calling /\ Len(todo[WORK]) = 1 /\ todo[WORK][1].item = task.item
      /\ wpc = (IF Floating(todo[WORK][1]) THEN "cleanup" ELSE "end")
  BY DEF WorkerInv, Calling
<1>3. \A r \in ToSet(todo[WORK]) : r = todo[WORK][1]
  <2> DEFINE x == todo[WORK]
  <2>1. x \in Seq(Request) /\ Len(x) = 1
    BY <1>1, <1>2
  <2> HIDE DEF x
  <2>2. \A r \in ToSet(x) : r = x[1]
    BY <2>1, SeqSet
  <2> QED BY <2>2 DEF x
<1>4. task.item \in Items
  BY <1>2, WorkerTask
<1> QED BY <1>1, <1>2, <1>3, <1>4 DEF StartsPass, RunsPass, Alive

\* The call goes on or is over; the queue and the task stay what they are.
LEMMA OwnCalls ==
    ASSUME AnalyzerInv, todo[WORK] # << >>,
           UNCHANGED <<items, lastUid, active, pending, deleting, addr, opener, dialog, ui, cmd,
                       cmdCount, queue, task, wpc, left, cancelled, flags, found, undone, asked,
                       broken>>,
           ops' \subseteq [id : Ids, op : Ops], IsFiniteSet(ops'),
           wsOps' \in [Items \cup {NoItem} -> SUBSET Ops], marked' \subseteq Addrs,
           todo' \in [Threads -> Seq(Request)],
           step' \in [Threads -> {"test", "mark", "register", "add"}],
           \A u \in Threads \ {WORK} : todo'[u] = todo[u] /\ step'[u] = step[u],
           \A r \in ToSet(todo'[WORK]) : r.item = task.item,
           todo'[WORK] # << >> =>
             /\ Len(todo'[WORK]) = 1 /\ todo'[WORK][1].item = task.item
             /\ todo'[WORK][1].op = todo[WORK][1].op
             /\ Floating(todo'[WORK][1]) <=> Floating(todo[WORK][1])
             /\ step'[WORK] = "mark" => Floating(todo[WORK][1]),
           todo'[WORK] = << >> =>
             /\ step'[WORK] = "test"
             /\ Floating(todo[WORK][1]) /\ task.item \in items \ deleting =>
                  \E r \in ToSet(queue) : Floating(r) /\ r.item = task.item,
           MarkHeld', MarkSingle'
    PROVE  AnalyzerInv'
<1> USE DEF AnalyzerInv
<1>1. /\ Calling /\ Len(todo[WORK]) = 1 /\ todo[WORK][1] \in Request
      /\ todo[WORK][1].item = task.item /\ task.item \in Items /\ Alive(task.item)
      /\ wpc = (IF Floating(todo[WORK][1]) THEN "cleanup" ELSE "end")
      /\ ~StartsPass /\ ~RunsPass
  BY WorkerCall
<1>2. ~RunsPass' /\ WORK \in Threads
  BY <1>1, ThreadNames DEF RunsPass
<1>3. \A u \in Threads : \A r \in ToSet(todo'[u]) : r \in ToSet(todo[u]) \/ r.item = task.item
  BY <1>2
<1>type. TypeOK'
  BY DEF TypeOK
<1>alive. \A k \in Items : Alive(k)' => Alive(k)
  <2> SUFFICES ASSUME NEW k \in Items, Alive(k)', k # task.item PROVE Alive(k)
    BY <1>1
  <2>1. \/ k \in items
        \/ opener[k] \in {"ask", "calls"}
        \/ ui.item = k
        \/ cmd.item = k
        \/ \E r \in ToSet(queue) \cup {task} : r.item = k /\ r.chain
        \/ \E u \in Threads : \E r \in ToSet(todo'[u]) : r.item = k
    BY DEF Alive
  <2> QED BY <2>1, <1>3 DEF Alive
<1>born. Born'
  BY <1>3 DEF Born
<1>remove. RemoveInv' /\ CommandInv' /\ PassInv'
  BY DEF RemoveInv, ActiveExists, CommandInv, PassInv
<1>worker. WorkerInv'
  <2>1. \A u \in Threads \ {WORK} : step'[u] # "mark" /\ \A r \in ToSet(todo'[u]) : ~Floating(r)
    BY DEF WorkerInv
  <2> QED BY <2>1, <1>1 DEF WorkerInv, Calling
<1>distinct. AddrInv'
  BY <1>alive DEF AddrInv
<1>order. OrderInv'
  <2> SUFFICES ASSUME NEW p \in 1..Len(queue), Floating(queue[p]), NEW i \in Items,
                      i # queue[p].item, addr[i] = addr[queue[p].item], Alive(i)'
               PROVE  task.item # i /\ \A q \in 1..(p - 1) : queue[q].item # i
    BY DEF OrderInv
  <2> QED BY <1>alive DEF OrderInv
<1>asks. AskedInv'
  BY <1>1, <1>2 DEF AskedInv, Calling
<1>served. ServedInv'
  <2> SUFFICES ASSUME NEW i \in items \ deleting, Owed(i) PROVE Coming(i)'
    BY DEF ServedInv, Owed
  <2>1. Coming(i)
    BY DEF ServedInv
  <2>2. CASE \E r \in ToSet(queue) : Floating(r) /\ r.item = i
    BY <2>2 DEF Coming
  <2>3. CASE Floating(todo[WORK][1]) /\ task.item = i
    BY <2>3 DEF Coming, Calling
  <2> QED BY <2>1, <2>2, <2>3, <1>1 DEF Coming
<1> QED BY <1>type, <1>born, <1>remove, <1>worker, <1>distinct, <1>order, <1>asks, <1>served

\* IsDeletePending.
LEMMA WorkTestHolds ==
    ASSUME AnalyzerInv, EnqueueTest(WORK)
    PROVE  AnalyzerInv'
<1> USE DEF AnalyzerInv
<1>1. UNCHANGED <<items, lastUid, active, pending, deleting, addr, opener, dialog, ui, cmd,
                  cmdCount, queue, task, wpc, left, ops, wsOps, cancelled, marked, flags, found,
                  undone, asked, broken>>
  BY DEF EnqueueTest, itemVars, uiVars, cmdVars, poolVars, opVars, dataVars
<1>2. todo[WORK] # << >> /\ step[WORK] = "test" /\ WORK \in Threads
  BY ThreadNames DEF EnqueueTest
<1>3. /\ Calling /\ Len(todo[WORK]) = 1 /\ Head(todo[WORK]) = todo[WORK][1]
      /\ todo[WORK][1].item = task.item
      /\ \A r \in ToSet(todo[WORK]) : r.item = task.item
      /\ ~StartsPass /\ ~RunsPass /\ ~AddsPass
  BY <1>2, WorkerCall DEF AddsPass
<1>4. ~StartsPass' /\ ~RunsPass'
  BY <1>1, <1>3 DEF StartsPass, RunsPass
<1>5. CASE task.item \in deleting
  <2>1. Drop(WORK)
    BY <1>3, <1>5 DEF EnqueueTest
  <2>2. /\ todo' \in [Threads -> Seq(Request)]
        /\ step' \in [Threads -> {"test", "mark", "register", "add"}]
        /\ \A u \in Threads \ {WORK} : todo'[u] = todo[u] /\ step'[u] = step[u]
        /\ step'[WORK] = "test" /\ todo'[WORK] = << >>
        /\ ToSet(todo'[WORK]) \subseteq ToSet(todo[WORK])
    BY <1>2, <1>3, <2>1, DropCalls
  <2>3. ~AddsPass'
    BY <2>2 DEF AddsPass
  <2>4. MarkHeld' /\ MarkSingle'
    BY <1>1, <1>3, <1>4, <2>3 DEF MarkHeld, MarkSingle
  <2> QED BY <1>1, <1>2, <1>3, <1>5, <2>2, <2>4, OwnCalls DEF TypeOK
<1>6. CASE task.item \notin deleting
  <2>1. /\ UNCHANGED todo
        /\ step' = [step EXCEPT ![WORK] = IF Floating(todo[WORK][1]) THEN "mark" ELSE "register"]
    BY <1>3, <1>6 DEF EnqueueTest, Floating
  <2>2. /\ step' \in [Threads -> {"test", "mark", "register", "add"}]
        /\ \A u \in Threads \ {WORK} : step'[u] = step[u]
        /\ step'[WORK] = (IF Floating(todo[WORK][1]) THEN "mark" ELSE "register")
    BY <1>2, <2>1 DEF TypeOK
  <2>3. ~AddsPass'
    BY <2>1, <2>2 DEF AddsPass
  <2>4. MarkHeld' /\ MarkSingle'
    BY <1>1, <1>3, <1>4, <2>3 DEF MarkHeld, MarkSingle
  <2> QED BY <1>1, <1>2, <1>3, <2>1, <2>2, <2>4, OwnCalls DEF TypeOK
<1> QED BY <1>5, <1>6

\* The entry of m_floatingQueued that stops the worker is that of its item:
\* what is queued at the address of another object came before it.
LEMMA WorkerMarkIsOwn ==
    ASSUME AnalyzerInv, todo[WORK] # << >>, step[WORK] = "mark", addr[task.item] \in marked
    PROVE  \E r \in ToSet(queue) : Floating(r) /\ r.item = task.item
<1> USE DEF AnalyzerInv
<1>1. ~StartsPass /\ ~AddsPass /\ task.item \in Items /\ Alive(task.item)
  BY WorkerCall DEF AddsPass
<1>2. PICK r \in ToSet(queue) : Floating(r) /\ addr[r.item] = addr[task.item]
  BY <1>1 DEF MarkHeld
<1>3. PICK p \in 1..Len(queue) : queue[p] = r
  BY SeqSet DEF TypeOK
<1>4. r.item = task.item
  BY <1>1, <1>2, <1>3 DEF OrderInv
<1> QED BY <1>2, <1>4

\* m_floatingQueued.insert.
LEMMA WorkMarkHolds ==
    ASSUME AnalyzerInv, EnqueueMark(WORK)
    PROVE  AnalyzerInv'
<1> USE DEF AnalyzerInv
<1>1. UNCHANGED <<items, lastUid, active, pending, deleting, addr, opener, dialog, ui, cmd,
                  cmdCount, queue, task, wpc, left, ops, wsOps, cancelled, flags, found, undone,
                  asked, broken>>
  BY DEF EnqueueMark, itemVars, uiVars, cmdVars, poolVars, dataVars
<1>2. todo[WORK] # << >> /\ step[WORK] = "mark" /\ WORK \in Threads
  BY ThreadNames DEF EnqueueMark
<1>3. /\ Calling /\ Len(todo[WORK]) = 1 /\ Head(todo[WORK]) = todo[WORK][1]
      /\ todo[WORK][1].item = task.item /\ task.item \in Items /\ Floating(todo[WORK][1])
      /\ \A r \in ToSet(todo[WORK]) : r.item = task.item
      /\ ~StartsPass /\ ~RunsPass /\ ~AddsPass
  BY <1>2, WorkerCall DEF AddsPass, WorkerInv
<1>4. ~StartsPass' /\ ~RunsPass'
  BY <1>1, <1>3 DEF StartsPass, RunsPass
<1>5. addr[task.item] \in Addrs
  BY <1>3 DEF TypeOK
<1>6. CASE addr[task.item] \in marked
  <2>1. Drop(WORK) /\ UNCHANGED marked
    BY <1>3, <1>6 DEF EnqueueMark
  <2>2. /\ todo' \in [Threads -> Seq(Request)]
        /\ step' \in [Threads -> {"test", "mark", "register", "add"}]
        /\ \A u \in Threads \ {WORK} : todo'[u] = todo[u] /\ step'[u] = step[u]
        /\ step'[WORK] = "test" /\ todo'[WORK] = << >>
        /\ ToSet(todo'[WORK]) \subseteq ToSet(todo[WORK])
    BY <1>2, <1>3, <2>1, DropCalls
  <2>3. ~AddsPass'
    BY <2>2 DEF AddsPass
  <2>4. MarkHeld' /\ MarkSingle'
    BY <1>1, <1>3, <1>4, <2>1, <2>3 DEF MarkHeld, MarkSingle
  <2>5. \E r \in ToSet(queue) : Floating(r) /\ r.item = task.item
    BY <1>2, <1>6, WorkerMarkIsOwn
  <2> QED BY <1>1, <1>2, <1>3, <2>1, <2>2, <2>4, <2>5, OwnCalls DEF TypeOK
<1>7. CASE addr[task.item] \notin marked
  <2>1. /\ UNCHANGED todo /\ marked' = marked \cup {addr[task.item]}
        /\ step' = [step EXCEPT ![WORK] = "register"]
    BY <1>3, <1>7 DEF EnqueueMark
  <2>2. /\ step' \in [Threads -> {"test", "mark", "register", "add"}]
        /\ \A u \in Threads \ {WORK} : step'[u] = step[u]
        /\ step'[WORK] = "register"
    BY <1>2, <2>1 DEF TypeOK
  <2>3. AddsPass' /\ todo'[WORK][1] = todo[WORK][1] /\ marked' \subseteq Addrs
    BY <1>3, <1>5, <2>1, <2>2 DEF AddsPass, Calling, TypeOK
  <2>4. MarkHeld'
    BY <1>1, <1>3, <1>4, <2>1, <2>3 DEF MarkHeld
  <2>5. MarkSingle'
    <3>1. \A r \in ToSet(queue) : Floating(r) => addr[r.item] # addr[task.item]
      BY <1>7 DEF MarkSingle
    <3> QED BY <1>1, <1>3, <1>4, <2>1, <2>3, <3>1 DEF MarkSingle
  <2> QED BY <1>1, <1>2, <1>3, <2>1, <2>2, <2>3, <2>4, <2>5, OwnCalls DEF TypeOK
<1> QED BY <1>6, <1>7

LEMMA WorkRegisterHolds ==
    ASSUME AnalyzerInv, RegisterOp(WORK)
    PROVE  AnalyzerInv'
<1> USE DEF AnalyzerInv
<1>1. UNCHANGED <<items, lastUid, active, pending, deleting, addr, opener, dialog, ui, cmd,
                  cmdCount, queue, task, wpc, left, cancelled, marked, flags, found, undone, asked,
                  broken>>
  BY DEF RegisterOp, itemVars, uiVars, cmdVars, poolVars, dataVars
<1>2. /\ todo' \in [Threads -> Seq(Request)]
      /\ step' \in [Threads -> {"test", "mark", "register", "add"}]
      /\ \A u \in Threads \ {WORK} : todo'[u] = todo[u] /\ step'[u] = step[u]
      /\ step[WORK] = "register" /\ step'[WORK] = "add"
      /\ todo[WORK] # << >> /\ todo'[WORK] # << >>
      /\ Len(todo'[WORK]) = Len(todo[WORK])
      /\ todo'[WORK][1].kind = todo[WORK][1].kind /\ todo'[WORK][1].item = todo[WORK][1].item
      /\ todo'[WORK][1].op = todo[WORK][1].op
      /\ \A r \in ToSet(todo'[WORK]) :
           \E s \in ToSet(todo[WORK]) : r.kind = s.kind /\ r.item = s.item
      /\ ops' \subseteq [id : Ids, op : Ops] /\ IsFiniteSet(ops')
      /\ wsOps' \in [Items \cup {NoItem} -> SUBSET Ops]
  BY RegisterCalls, ThreadNames
<1>3. /\ Calling /\ Len(todo[WORK]) = 1 /\ todo[WORK][1].item = task.item
      /\ \A r \in ToSet(todo[WORK]) : r.item = task.item
      /\ ~StartsPass /\ ~RunsPass
  BY <1>2, WorkerCall
<1>4. ~StartsPass' /\ ~RunsPass' /\ Calling'
  BY <1>1, <1>2, <1>3 DEF StartsPass, RunsPass, Calling
<1>5. Floating(todo'[WORK][1]) <=> Floating(todo[WORK][1])
  BY <1>2 DEF Floating
<1>6. AddsPass' <=> AddsPass
  BY <1>2, <1>3, <1>4, <1>5 DEF AddsPass
<1>7. MarkHeld' /\ MarkSingle'
  BY <1>1, <1>2, <1>3, <1>4, <1>6, ZenonT(60) DEF MarkHeld, MarkSingle
<1>8. \A r \in ToSet(todo'[WORK]) : r.item = task.item
  BY <1>2, <1>3
<1> QED BY <1>1, <1>2, <1>3, <1>5, <1>7, <1>8, OwnCalls DEF TypeOK

-----------------------------------------------------------------------------
(* Opening an item.                                                         *)

\* RegisterItem: the new object is at an address where no other one is, and
\* what is queued or runs is for items that were registered before.
LEMMA RegisterItemHolds ==
    ASSUME AnalyzerInv, RegisterItem
    PROVE  AnalyzerInv'
<1> USE DEF AnalyzerInv
<1>1. UNCHANGED <<active, pending, deleting, dialog, ui, cmd, cmdCount, step, queue, task, wpc,
                  left, ops, wsOps, cancelled, marked, flags, found, undone, asked, broken>>
  BY DEF RegisterItem, cmdVars, poolVars, opVars, dataVars
<1> DEFINE i == lastUid + 1
<1>2. /\ i \in Items /\ lastUid' = i /\ items' = items \cup {i} /\ lastUid \in Nat
      /\ i \in 0..MaxItem
  BY AnalyzerAssumption DEF RegisterItem, TypeOK, Items
<1>3. PICK a \in Addrs : /\ \A j \in Items : j < i /\ Alive(j) => addr[j] # a
                         /\ addr' = [addr EXCEPT ![i] = a]
  BY DEF RegisterItem
<1>4. \E s \in {"ask", "calls"} : opener' = [opener EXCEPT ![i] = s]
  BY DEF RegisterItem
<1>5. OPEN(i) \in Threads \ {WORK}
  BY <1>2, ThreadNames
<1>6. /\ todo' \in [Threads -> Seq(Request)]
      /\ \A u \in Threads : \A r \in ToSet(todo'[u]) :
           r \in ToSet(todo[u]) \/ (u # WORK /\ r.item = i /\ ~Floating(r))
      /\ todo'[WORK] = todo[WORK]
  <2>1. CASE UNCHANGED todo
    BY <2>1 DEF TypeOK
  <2>2. CASE ~UNCHANGED todo
    <3>1. PICK tasks \in TaskChoices : todo' = [todo EXCEPT ![OPEN(i)] = AnalysisOps(i, tasks)]
      BY <2>2 DEF RegisterItem
    <3> DEFINE x == AnalysisOps(i, tasks)
    <3> HIDE DEF i
    <3>2. x \in Seq(Request) /\ \A r \in ToSet(x) : r.item = i /\ ~Floating(r)
      BY <1>2, AnalysisCalls
    <3>3. todo' = [todo EXCEPT ![OPEN(i)] = x]
      BY <3>1
    <3> HIDE DEF x
    <3>4. /\ todo' \in [Threads -> Seq(Request)]
          /\ todo'[OPEN(i)] = x /\ \A u \in Threads \ {OPEN(i)} : todo'[u] = todo[u]
      BY <1>5, <3>2, <3>3, CallsChanged
    <3> QED BY <1>5, <3>2, <3>4, ThreadNames
  <2> QED BY <2>1, <2>2
<1>7. /\ \A k \in Items : k # i => addr'[k] = addr[k] /\ opener'[k] = opener[k]
      /\ addr'[i] = a /\ addr' \in [Items -> Addrs]
      /\ opener' \in [Items -> {"new", "ask", "calls", "reply", "askReply", "done"}]
  BY <1>2, <1>3, <1>4, SMTT(60) DEF TypeOK
<1>8. \A k \in Items : Alive(k) => k < i /\ k # i /\ addr[k] # a
  <2> SUFFICES ASSUME NEW k \in Items, Alive(k) PROVE k < i /\ k # i /\ addr[k] # a
    OBVIOUS
  <2>1. k <= lastUid /\ k \in Nat
    BY AliveBorn DEF Items
  <2> QED BY <2>1, <1>2, <1>3
<1>9. /\ \A r \in ToSet(queue) : r.item \in Items /\ r.item # i
      /\ task.item # i
      /\ \A k \in items : k # i
  <2>1. ~(i <= lastUid)
    BY <1>2
  <2>2. /\ \A r \in ToSet(queue) : r.item <= lastUid
        /\ task.item <= lastUid
        /\ \A k \in items : k <= lastUid
    BY DEF Born
  <2> QED BY <2>1, <2>2, Requests
<1>10. ui.item <= i /\ cmd.item <= i /\ task.item <= i /\ \A k \in Items : k <= lastUid => k <= i
  <2>1. \A k \in Nat : k <= lastUid => k <= i
    BY <1>2
  <2>2. ui.item \in Nat /\ cmd.item \in Nat /\ Items \subseteq Nat
    BY DEF TypeOK, Items, NoItem
  <2>3. task.item \in Nat
    <3>1. NoTask.item \in Nat
      BY DEF NoTask, Call, NoItem
    <3>2. task \in Request => task.item \in Nat
      BY <2>2 DEF Request
    <3> QED BY <3>1, <3>2 DEF TypeOK
  <2> QED BY <2>1, <2>2, <2>3 DEF Born
<1>11. \A u \in Threads : \A r \in ToSet(todo'[u]) : r.item \in Items /\ r.item <= i
  BY <1>2, <1>6, <1>10, Requests DEF Born
<1> HIDE DEF i
<1>type. TypeOK'
  <2>1. items' \subseteq Items /\ step' \in [Threads -> {"test", "mark", "register", "add"}]
        /\ queue' \in Seq(Request)
    BY <1>1, <1>2 DEF TypeOK
  <2> QED BY <1>1, <1>2, <1>6, <1>7, <2>1, TypesKept
<1>fin. IsFiniteSet(ops')
  BY <1>1
<1>alive. \A k \in Items : k # i => (Alive(k)' => Alive(k))
  <2> SUFFICES ASSUME NEW k \in Items, k # i, Alive(k)' PROVE Alive(k)
    OBVIOUS
  <2>1. \/ k \in items'
        \/ opener'[k] \in {"ask", "calls"}
        \/ ui.item = k
        \/ cmd.item = k
        \/ wpc \in {"work", "pass", "cleanup", "skip", "complete", "end"} /\ task.item = k
        \/ \E r \in ToSet(queue) \cup {task} : r.item = k /\ r.chain
        \/ \E u \in Threads : \E r \in ToSet(todo'[u]) : r.item = k
    BY <1>1 DEF Alive
  <2> QED BY <2>1, <1>2, <1>6, <1>7 DEF Alive
<1>born. Born'
  <2>1. items' \subseteq 1..i
    BY <1>2 DEF Born, i
  <2>2. \A k \in Items : opener'[k] # "new" => k <= i
    BY <1>2, <1>7, <1>10 DEF Born, Items
  <2>3. \A r \in ToSet(queue) : r.item <= i
    BY <1>9, <1>10 DEF Born
  <2> QED BY <1>1, <1>2, <1>10, <1>11, <2>1, <2>2, <2>3 DEF Born
<1>remove. RemoveInv' /\ CommandInv'
  BY <1>1, <1>2, <1>9 DEF RemoveInv, ActiveExists, CommandInv
<1>worker. WorkerInv'
  <2>1. \A u \in Threads \ {WORK} : step'[u] # "mark" /\ \A r \in ToSet(todo'[u]) : ~Floating(r)
    BY <1>1, <1>6 DEF WorkerInv
  <2> QED BY <1>1, <1>6, <2>1 DEF WorkerInv, Calling
<1>pass. PassInv'
  BY <1>1, <1>2, <1>10 DEF PassInv
<1>distinct. AddrInv'
  <2> SUFFICES ASSUME NEW k \in Items, NEW j \in Items, k # j, Alive(k)', Alive(j)'
               PROVE  addr'[k] # addr'[j]
    BY DEF AddrInv
  <2>1. CASE k # i /\ j # i
    BY <2>1, <1>7, <1>alive DEF AddrInv
  <2>2. CASE k = i
    BY <2>2, <1>7, <1>8, <1>alive
  <2>3. CASE j = i
    BY <2>3, <1>7, <1>8, <1>alive
  <2> QED BY <2>1, <2>2, <2>3
<1>12. /\ \A r \in ToSet(queue) : addr'[r.item] = addr[r.item]
       /\ wpc # "idle" => addr'[task.item] = addr[task.item]
       /\ Calling => addr'[todo[WORK][1].item] = addr[todo[WORK][1].item]
  <2>1. wpc # "idle" => task.item \in Items
    BY WorkerTask
  <2>2. Calling => todo[WORK][1].item = task.item /\ wpc # "idle"
    BY WorkerCall DEF Calling
  <2> QED BY <1>7, <1>9, <2>1, <2>2
<1>13. /\ StartsPass' <=> StartsPass
       /\ AddsPass' <=> AddsPass
       /\ RunsPass' <=> RunsPass
       /\ Calling' <=> Calling
       /\ StartsPass => wpc # "idle"
       /\ AddsPass => Calling
  BY <1>1, <1>6 DEF StartsPass, AddsPass, RunsPass, Calling
<1>held. MarkHeld'
  BY <1>1, <1>6, <1>12, <1>13 DEF MarkHeld
<1>single. MarkSingle'
  <2>1. \A p \in 1..Len(queue) : addr'[queue[p].item] = addr[queue[p].item]
    BY <1>12, SeqSet DEF TypeOK
  <2> QED BY <1>1, <1>6, <1>12, <1>13, <2>1 DEF MarkSingle
<1>order. OrderInv'
  <2> SUFFICES ASSUME NEW p \in 1..Len(queue), Floating(queue[p]), NEW k \in Items,
                      k # queue[p].item, addr'[k] = addr'[queue[p].item], Alive(k)'
               PROVE  task.item # k /\ \A q \in 1..(p - 1) : queue[q].item # k
    BY <1>1 DEF OrderInv
  <2>1. \A q \in 1..Len(queue) : queue[q].item # i /\ queue[q] \in ToSet(queue)
    BY <1>9, SeqSet DEF TypeOK
  <2>2. CASE k = i
    <3>1. \A q \in 1..(p - 1) : q \in 1..Len(queue)
      BY DEF TypeOK
    <3> QED BY <2>1, <2>2, <3>1, <1>9
  <2>3. CASE k # i
    BY <2>1, <2>3, <1>7, <1>12, <1>alive DEF OrderInv
  <2> QED BY <2>2, <2>3
<1>asks. AskedInv'
  BY <1>1, <1>6, <1>13 DEF AskedInv
<1>served. ServedInv'
  <2> SUFFICES ASSUME NEW k \in items' \ deleting, Owed(k) PROVE Coming(k)'
    BY <1>1 DEF ServedInv, Owed
  <2>1. k # i
    <3>1. i > lastUid /\ ~(i <= lastUid)
      BY <1>2 DEF i
    <3> QED BY <3>1, <1>2 DEF Owed, PassInv
  <2>2. Coming(k)
    BY <2>1, <1>2 DEF ServedInv
  <2> QED BY <2>2, <1>1, <1>6, <1>13 DEF Coming
<1> QED BY <1>type, <1>fin, <1>born, <1>remove, <1>worker, <1>pass, <1>distinct, <1>held,
           <1>single, <1>order, <1>asks, <1>served

-----------------------------------------------------------------------------
(* The invariant.                                                           *)

LEMMA InitHolds == Init => AnalyzerInv
<1> SUFFICES ASSUME Init PROVE AnalyzerInv
  OBVIOUS
<1>1. TypeOK
  <2>1. (CHOOSE a \in Addrs : TRUE) \in Addrs
    BY AnalyzerAssumption, Zenon
  <2>2. addr \in [Items -> Addrs]
    BY <2>1 DEF Init
  <2>3. todo \in [Threads -> Seq(Request)] /\ queue \in Seq(Request)
    BY DEF Init
  <2> QED BY <2>2, <2>3, AnalyzerAssumption DEF Init, TypeOK
<1>2. IsFiniteSet(ops)
  BY FS_EmptySet DEF Init
<1>3. ToSet(queue) = {} /\ todo[WORK] = << >> /\ \A t \in Threads : ToSet(todo[t]) = {}
  BY EmptySet, ThreadNames DEF Init
<1>4. task.item = 0 /\ ~task.chain
  BY DEF Init, NoTask, Call, NoItem
<1>5. \A k \in Items : ~Alive(k)
  BY <1>3, <1>4 DEF Init, Alive, Items, NoItem
<1>6. Born
  BY <1>3, <1>4 DEF Init, Born, NoItem
<1>7. RemoveInv /\ CommandInv /\ PassInv
  BY DEF Init, RemoveInv, ActiveExists, CommandInv, PassInv
<1>8. WorkerInv
  BY <1>3, ThreadNames DEF Init, WorkerInv, Calling
<1>9. AddrInv
  BY <1>5 DEF AddrInv
<1>10. ~StartsPass /\ ~AddsPass /\ ~RunsPass /\ ~Calling
  BY <1>3 DEF Init, StartsPass, AddsPass, RunsPass, Calling
<1>11. Len(queue) = 0 /\ marked = {} /\ items = {}
  BY DEF Init
<1>12. MarkHeld /\ MarkSingle /\ OrderInv /\ AskedInv /\ ServedInv
  BY <1>3, <1>10, <1>11 DEF MarkHeld, MarkSingle, OrderInv, AskedInv, ServedInv
<1> QED BY <1>1, <1>2, <1>6, <1>7, <1>8, <1>9, <1>12 DEF AnalyzerInv

LEMMA EnqueueHolds ==
    ASSUME AnalyzerInv, NEW t \in Threads, Enqueue(t)
    PROVE  AnalyzerInv'
<1>1. CASE EnqueueTest(t)
  BY <1>1, OtherTestHolds, WorkTestHolds
<1>2. CASE EnqueueMark(t)
  <2>1. t = WORK
    BY <1>2, OtherThread DEF EnqueueMark
  <2> QED BY <1>2, <2>1, WorkMarkHolds
<1>3. CASE RegisterOp(t)
  BY <1>3, OtherRegisterHolds, WorkRegisterHolds
<1>4. CASE EnqueueAdd(t)
  BY <1>4, EnqueueAddHolds
<1> QED BY <1>1, <1>2, <1>3, <1>4 DEF Enqueue

LEMMA UnchangedHolds ==
    ASSUME AnalyzerInv, UNCHANGED vars
    PROVE  AnalyzerInv'
<1> USE DEF AnalyzerInv
<1>1. UNCHANGED <<items, lastUid, active, pending, deleting, addr, opener, dialog, ui, cmd,
                  cmdCount, todo, step, queue, task, wpc, left, ops, wsOps, cancelled, marked,
                  flags, found, undone, asked, broken>>
  BY DEF vars, itemVars, uiVars, cmdVars, callVars, poolVars, opVars, dataVars
<1>2. RemoveInv' /\ CommandInv'
  BY <1>1 DEF RemoveInv, ActiveExists, CommandInv
<1>3. cancelled \subseteq cancelled' /\ cancelled' \subseteq Ops
  BY <1>1 DEF TypeOK
<1>4. deleting \subseteq deleting' /\ deleting' \subseteq Items /\ items' \subseteq items
  BY <1>1 DEF TypeOK
<1> QED BY <1>1, <1>2, <1>3, <1>4, Aside, SMTT(60) DEF TypeOK

LEMMA StepHolds == AnalyzerInv /\ [Next]_vars => AnalyzerInv'
<1> SUFFICES ASSUME AnalyzerInv, [Next]_vars PROVE AnalyzerInv'
  OBVIOUS
<1>1. CASE Worker
  BY <1>1, TakeHolds, StartHolds, WorkAnalyzeHolds, WorkFloatingHolds, PassOneHolds, PassEndHolds,
     WorkSymbolsHolds, WorkPrivateHolds, CleanupHolds, CompleteHolds, FinishHolds DEF Worker
<1>2. CASE \E t \in Threads : Enqueue(t)
  BY <1>2, EnqueueHolds
<1>3. CASE RegisterItem
  BY <1>3, RegisterItemHolds
<1>4. CASE \E i \in Items : \/ Ask(i) \/ Opened(i) \/ OnFileOpen(i) \/ StartAutoTasks(i)
                            \/ SetActiveItem(i)
  BY <1>4, AskHolds, OpenedHolds, OnFileOpenHolds, StartAutoTasksHolds, SetActiveItemHolds
<1>5. CASE RemoveItem
  BY <1>5, RemoveMarkHolds, CancelHolds, RemovePickHolds, RemoveEraseHolds DEF RemoveItem
<1>6. CASE StopCancelAll \/ StopPool
  BY <1>6, StopCancelAllHolds, StopPoolHolds
<1>7. CASE AsyncExecute \/ ExecuteImpl \/ CommandEnd \/ CancelCommand
  BY <1>7, AsyncExecuteHolds, ExecuteImplHolds, CommandEndHolds, CancelCommandHolds
<1>8. CASE UNCHANGED vars
  BY <1>8, UnchangedHolds
<1> QED BY <1>1, <1>2, <1>3, <1>4, <1>5, <1>6, <1>7, <1>8 DEF Next

\* Every reachable state of the analyzer satisfies the invariant.
THEOREM AnalyzerInvariant == Spec => []AnalyzerInv
<1>1. Init => AnalyzerInv
  BY InitHolds
<1>2. AnalyzerInv /\ [Next]_vars => AnalyzerInv'
  BY StepHolds
<1> QED BY <1>1, <1>2, PTL DEF Spec

\* The fields of CProgramModel and CModuleAnalyzer keep their types.
THEOREM AnalyzerTypes == Spec => []TypeOK
<1>1. AnalyzerInv => TypeOK
  BY DEF AnalyzerInv
<1> QED BY <1>1, AnalyzerInvariant, PTL

\* The active item exists, whatever is opened while RemoveItem runs.
THEOREM ActiveItemExists == Spec => []ActiveExists
<1>1. AnalyzerInv => ActiveExists
  BY DEF AnalyzerInv, RemoveInv
<1> QED BY <1>1, AnalyzerInvariant, PTL

\* EnqueueAnalyzeFloating gives up only for a floating task of its own item,
\* for any number of items and addresses, although addresses are reused.
THEOREM MarksAreOwn == Spec => []MarkIsOwn
<1>1. AnalyzerInv => MarkIsOwn
  <2> SUFFICES ASSUME AnalyzerInv, NEW t \in Threads, todo[t] # << >>, step[t] = "mark",
                      addr[Head(todo[t]).item] \in marked
               PROVE  \E r \in ToSet(queue) : r.kind = "floating" /\ r.item = Head(todo[t]).item
    BY DEF MarkIsOwn
  <2>1. t = WORK
    BY OtherThread
  <2>2. Head(todo[t]).item = task.item
    BY <2>1, WorkerCall
  <2> QED BY <2>1, <2>2, WorkerMarkIsOwn DEF Floating
<1> QED BY <1>1, AnalyzerInvariant, PTL

\* When the analyzer is idle, no floating module waits that somebody still
\* wants.
THEOREM FloatingIsServed == Spec => []FloatingServed
<1>1. AnalyzerInv => FloatingServed
  <2> SUFFICES ASSUME AnalyzerInv, ~IsBusy, \A t \in Threads : todo[t] = << >>,
                      NEW i \in items \ deleting, Owed(i)
               PROVE  FALSE
    BY DEF FloatingServed, Owed
  <2>1. ToSet(queue) = {} /\ wpc = "idle" /\ todo[WORK] = << >>
    BY EmptySet, ThreadNames DEF IsBusy
  <2>2. Coming(i)
    BY DEF AnalyzerInv, ServedInv
  <2> QED BY <2>1, <2>2 DEF Coming, RunsPass, Calling
<1> QED BY <1>1, AnalyzerInvariant, PTL

-----------------------------------------------------------------------------
(* ConsoleMode.                                                            *)

\* Nothing of the open or of a command is left.
Quiet == /\ ~IsBusy
         /\ \A t \in Threads : todo[t] = << >>
         /\ cmd.pc = "idle"

\* The state has the shape the updates need.
Shapes ==
    /\ todo = [t \in Threads |-> todo[t]]
    /\ opener = [i \in Items |-> opener[i]]
    /\ cmd = [pc |-> cmd.pc, item |-> cmd.item, op |-> cmd.op]
    /\ lastUid \in Nat /\ opened \in Nat /\ failures \in Nat
    /\ finished \in {"no", "ok", "failed"}

\* Who may still have calls to make: an opening thread only while the main
\* thread waits for it, the command thread while its command runs, the worker
\* during its task.
CallsInv ==
    /\ todo[UI] = << >>
    /\ \A i \in Items : todo[OPEN(i)] # << >> => opener[i] = "calls"
    /\ \A i \in Items : opener[i] = "calls" =>
         cpc = "opening" /\ i = lastUid /\ lastUid = opened + 1
    /\ todo[CMD] # << >> => cmd.pc = "run"
    /\ todo[WORK] # << >> => wpc # "idle"

\* A command is there only while the main thread waits for it.
CommandHeld ==
    /\ cmd.pc # "idle" => cpc \in {"run", "wait"}
    /\ cmd.pc # "idle" /\ finished = "no" => cpc = "run"

\* Before the first target and at each command the program is at rest.
RestInv == cpc \in {"start", "ready"} => Quiet

\* A failure is in the exit code, or on its way to it; a run that gives up
\* before the commands goes straight to the exit.
FailureCounted ==
    /\ result \in {"ok", "commandFail"} \/ cpc \in {"exit", "reset", "done"}
    /\ result \in {"ok", "commandFail"} =>
        (failures > 0 <=> result = "commandFail" \/ (cpc = "run" /\ finished = "failed"))

ConsoleInv == Shapes /\ CallsInv /\ CommandHeld /\ RestInv /\ FailureCounted

-----------------------------------------------------------------------------
\* The threads are different ones.
LEMMA ThreadsDiffer ==
    /\ UI \in Threads /\ CMD \in Threads /\ WORK \in Threads
    /\ UI # CMD /\ UI # WORK /\ CMD # WORK
    /\ \A i \in Items : OPEN(i) \in Threads /\ OPEN(i) \notin {UI, CMD, WORK}
    /\ \A i, j \in Items : OPEN(i) = OPEN(j) => i = j
    /\ \A t \in Threads : t \in {UI, CMD, WORK} \/ \E i \in Items : t = OPEN(i)
BY DEF Threads, UI, CMD, WORK, OPEN

\* An Enqueue call of a thread: only the calls of that thread and the queue
\* change, and the thread had one to make.
LEMMA EnqueueFrame ==
    ASSUME Shapes, NEW t \in Threads, Enqueue(t)
    PROVE  /\ todo[t] # << >> /\ todo' = [u \in Threads |-> todo'[u]]
           /\ \A u \in Threads \ {t} : todo'[u] = todo[u]
           /\ UNCHANGED <<opener, cmd, lastUid, wpc>>
<1>1. \E x : todo' = [todo EXCEPT ![t] = x]
  <2>1. todo' = todo => todo' = [todo EXCEPT ![t] = todo[t]]
    BY DEF Shapes
  <2> QED BY <2>1 DEF Enqueue, EnqueueTest, EnqueueMark, RegisterOp, EnqueueAdd, Drop
<1>2. /\ todo[t] # << >>
      /\ UNCHANGED <<opener, cmd, lastUid, wpc>>
  BY DEF Enqueue, EnqueueTest, EnqueueMark, RegisterOp, EnqueueAdd, itemVars, uiVars, cmdVars,
         poolVars
<1> QED BY <1>1, <1>2 DEF Shapes

\* A step of the worker: it changes its own calls only, with a task, and it
\* has something to do.
LEMMA WorkerFrame ==
    ASSUME Shapes, CallsInv, Worker
    PROVE  /\ IsBusy /\ todo' = [u \in Threads |-> todo'[u]]
           /\ \A u \in Threads \ {WORK} : todo'[u] = todo[u]
           /\ todo'[WORK] # << >> => wpc' # "idle"
           /\ UNCHANGED <<opener, cmd, lastUid>>
<1>1. UNCHANGED <<opener, cmd, lastUid>> /\ IsBusy
  BY DEF Worker, Take, Start, WorkAnalyze, WorkFloating, PassOne, PassEnd, WorkSymbols,
         WorkPrivate, Cleanup, Complete, Finish, itemVars, uiVars, cmdVars, IsBusy
<1>2. todo' = todo \/ \E x : todo' = [todo EXCEPT ![WORK] = x]
  BY DEF Worker, Take, Start, WorkAnalyze, WorkFloating, PassOne, PassEnd, WorkSymbols,
         WorkPrivate, Cleanup, Complete, Finish, QueuePass, callVars
<1>3. \/ wpc' # "idle"
      \/ todo' = todo /\ todo[WORK] = << >>
  BY DEF Worker, Take, Start, WorkAnalyze, WorkFloating, PassOne, PassEnd, WorkSymbols,
         WorkPrivate, Cleanup, Complete, Finish, callVars
<1>4. todo' = [u \in Threads |-> todo'[u]] /\ \A u \in Threads \ {WORK} : todo'[u] = todo[u]
  BY <1>2, ThreadsDiffer DEF Shapes
<1> QED BY <1>1, <1>3, <1>4

-----------------------------------------------------------------------------
LEMMA ConsoleInitHolds == ConsoleInit => ConsoleInv
<1> SUFFICES ASSUME ConsoleInit PROVE ConsoleInv
  OBVIOUS
<1>1. Shapes
  BY DEF ConsoleInit, Init, Shapes
<1>2. Quiet
  BY DEF ConsoleInit, Init, Quiet, IsBusy
<1>3. CallsInv
  BY ThreadsDiffer DEF ConsoleInit, Init, CallsInv
<1> QED BY <1>1, <1>2, <1>3 DEF ConsoleInit, Init, ConsoleInv, CommandHeld, RestInv, FailureCounted

LEMMA BackgroundHolds ==
    ASSUME ConsoleInv, Background
    PROVE  ConsoleInv'
<1> USE DEF ConsoleInv
<1>0. UNCHANGED <<cpc, targets, targetless, opened, idles, result, finished, dying, failures>>
  BY DEF Background, conVars
<1>1. CASE Worker
  <2>1. /\ IsBusy /\ todo' = [u \in Threads |-> todo'[u]]
        /\ \A u \in Threads \ {WORK} : todo'[u] = todo[u]
        /\ todo'[WORK] # << >> => wpc' # "idle"
        /\ UNCHANGED <<opener, cmd, lastUid>>
    BY <1>1, WorkerFrame
  <2>2. Shapes' /\ CommandHeld' /\ FailureCounted'
    BY <1>0, <2>1 DEF Shapes, CommandHeld, FailureCounted
  <2>3. CallsInv'
    BY <1>0, <2>1, ThreadsDiffer DEF CallsInv
  <2>4. RestInv'
    BY <1>0, <2>1 DEF RestInv, Quiet
  <2> QED BY <2>2, <2>3, <2>4
<1>2. ASSUME NEW t \in Threads, Enqueue(t) PROVE ConsoleInv'
  <2>1. /\ todo[t] # << >> /\ todo' = [u \in Threads |-> todo'[u]]
        /\ \A u \in Threads \ {t} : todo'[u] = todo[u]
        /\ UNCHANGED <<opener, cmd, lastUid, wpc>>
    BY <1>2, EnqueueFrame
  <2>2. Shapes' /\ CommandHeld' /\ FailureCounted'
    BY <1>0, <2>1 DEF Shapes, CommandHeld, FailureCounted
  <2>3. CallsInv'
    <3>1. \A u \in Threads : todo'[u] # << >> => todo[u] # << >>
      BY <2>1
    <3> QED BY <1>0, <2>1, <3>1, ThreadsDiffer DEF CallsInv
  <2>4. RestInv'
    BY <1>0, <2>1 DEF RestInv, Quiet
  <2> QED BY <2>2, <2>3, <2>4
<1>3. ASSUME NEW i \in Items, Opened(i) PROVE ConsoleInv'
  <2>1. /\ opener[i] = "calls" /\ todo[OPEN(i)] = << >> /\ opener' = [opener EXCEPT ![i] = "reply"]
        /\ UNCHANGED <<lastUid, todo, cmd, queue, wpc>>
    BY <1>3 DEF Opened, itemVars, cmdVars, callVars, poolVars
  <2>2. opener' = [k \in Items |-> opener'[k]] /\ opener'[i] = "reply"
        /\ \A k \in Items : k # i => opener'[k] = opener[k]
    BY <2>1 DEF Shapes
  <2>3. Shapes' /\ CommandHeld' /\ FailureCounted'
    BY <1>0, <2>1, <2>2 DEF Shapes, CommandHeld, FailureCounted
  <2>4. CallsInv'
    BY <1>0, <2>1, <2>2 DEF CallsInv
  <2>5. RestInv'
    BY <1>0, <2>1 DEF RestInv, Quiet, IsBusy
  <2> QED BY <2>3, <2>4, <2>5
<1> QED BY <1>1, <1>2, <1>3 DEF Background

\* The opening thread of a target registers the item.
LEMMA AddTargetHolds ==
    ASSUME ConsoleInv, AddTarget
    PROVE  ConsoleInv'
<1> USE DEF ConsoleInv
<1> DEFINE i == lastUid + 1
<1>1. /\ UNCHANGED <<cpc, opened, result, finished, failures, cmd, queue, wpc>>
      /\ cpc = "opening" /\ lastUid = opened /\ lastUid' = i /\ i \in Items
  BY DEF AddTarget, RegisterItem, conVars, cmdVars, poolVars
<1>2. /\ \E s \in {"ask", "calls"} : opener' = [opener EXCEPT ![i] = s]
      /\ \/ todo' = todo
         \/ /\ \E x : todo' = [todo EXCEPT ![OPEN(i)] = x]
            /\ opener' = [opener EXCEPT ![i] = "calls"]
  BY DEF AddTarget, RegisterItem
<1>3. \A k \in Items : opener[k] # "calls"
  BY <1>1 DEF CallsInv, Shapes
<1>4. \A k \in Items : todo[OPEN(k)] = << >>
  BY <1>3 DEF CallsInv
<1>5. /\ opener' = [k \in Items |-> opener'[k]] /\ todo' = [t \in Threads |-> todo'[t]]
      /\ \A k \in Items : k # i => opener'[k] = opener[k]
      /\ \A t \in Threads \ {OPEN(i)} : todo'[t] = todo[t]
      /\ todo' = todo \/ opener'[i] = "calls"
  <2>1. OPEN(i) \in Threads
    BY <1>1, ThreadsDiffer
  <2>2. /\ opener' = [k \in Items |-> opener'[k]]
        /\ \A k \in Items : k # i => opener'[k] = opener[k]
    BY <1>1, <1>2 DEF Shapes
  <2>3. todo' = todo \/ opener'[i] = "calls"
    BY <1>1, <1>2 DEF Shapes
  <2>4. todo' = [t \in Threads |-> todo'[t]] /\ \A t \in Threads \ {OPEN(i)} : todo'[t] = todo[t]
    BY <1>2, <2>1 DEF Shapes
  <2> QED BY <2>2, <2>3, <2>4
<1>6. Shapes' /\ CommandHeld' /\ FailureCounted' /\ RestInv'
  BY <1>1, <1>5 DEF Shapes, CommandHeld, FailureCounted, RestInv
<1>7. CallsInv'
  <2>1. todo'[UI] = << >> /\ todo'[CMD] = todo[CMD] /\ todo'[WORK] = todo[WORK]
    BY <1>1, <1>5, ThreadsDiffer DEF CallsInv
  <2>2. ASSUME NEW k \in Items PROVE todo'[OPEN(k)] # << >> => opener'[k] = "calls"
    <3>1. CASE k = i
      BY <3>1, <1>4, <1>5
    <3>2. CASE k # i
      <4>1. todo'[OPEN(k)] = todo[OPEN(k)]
        BY <3>2, <1>1, <1>5, ThreadsDiffer
      <4> QED BY <4>1, <1>4
    <3> QED BY <3>1, <3>2
  <2>3. ASSUME NEW k \in Items, opener'[k] = "calls" PROVE k = i
    BY <2>3, <1>3, <1>5
  <2> QED BY <1>1, <2>1, <2>2, <2>3 DEF CallsInv
<1> QED BY <1>6, <1>7

\* OpenTargetAndWait: the opening thread had made its calls.
LEMMA TargetOpenedHolds ==
    ASSUME ConsoleInv, TargetOpened
    PROVE  ConsoleInv'
<1> USE DEF ConsoleInv
<1>1. /\ cpc = "opening" /\ cpc' = "open" /\ opened' = opened + 1
      /\ opener[lastUid] \in {"reply", "askReply"}
      /\ opener' = [opener EXCEPT ![lastUid] = "done"]
      /\ UNCHANGED <<lastUid, todo, cmd, queue, wpc, result, finished, failures>>
  BY DEF TargetOpened, OnFileOpen, cmdVars, callVars, poolVars
<1>2. \A k \in Items : opener[k] # "calls"
  BY <1>1 DEF CallsInv
<1>3. /\ opener' = [k \in Items |-> opener'[k]]
      /\ \A k \in Items : opener'[k] # "calls"
  BY <1>1, <1>2 DEF Shapes
<1>4. Shapes' /\ CommandHeld' /\ FailureCounted' /\ RestInv'
  BY <1>1, <1>3 DEF Shapes, CommandHeld, FailureCounted, RestInv
<1>5. CallsInv'
  BY <1>1, <1>2, <1>3 DEF CallsInv
<1> QED BY <1>4, <1>5

\* The steps of the main thread that only move it on.
LEMMA MainHolds ==
    ASSUME ConsoleInv, Main
    PROVE  ConsoleInv'
<1> USE DEF ConsoleInv
<1>1. CASE CheckTargets
  <2>1. /\ UNCHANGED <<lastUid, opener, cmd, todo, queue, wpc, opened, finished, failures>>
        /\ cpc = "start"
        /\ \/ cpc' \in {"ready", "open"} /\ result' = result
           \/ cpc' = "exit" /\ result' \in {"usage", "openFail"}
    BY <1>1 DEF CheckTargets, vars, itemVars, uiVars, cmdVars, callVars, poolVars
  <2>2. Quiet
    BY <2>1 DEF RestInv
  <2>3. Quiet'
    BY <2>1, <2>2 DEF Quiet, IsBusy
  <2>4. CallsInv'
    BY <2>1, <2>2, ThreadsDiffer DEF CallsInv
  <2> QED BY <2>1, <2>3, <2>4 DEF Shapes, CommandHeld, RestInv, FailureCounted, Quiet
<1>2. CASE OpenTarget
  <2>1. /\ UNCHANGED <<lastUid, opener, cmd, todo, queue, wpc, opened, finished, failures>>
        /\ cpc = "open"
        /\ \/ cpc' \in {"wait", "opening"} /\ result' = result
           \/ cpc' = "exit" /\ result' = "openFail"
    BY <1>2 DEF OpenTarget, vars, itemVars, uiVars, cmdVars, callVars, poolVars
  <2> QED BY <2>1 DEF Shapes, CallsInv, CommandHeld, RestInv, FailureCounted
<1>3. CASE TargetOpened
  BY <1>3, TargetOpenedHolds
<1>4. CASE WaitCommands
  <2>1. /\ UNCHANGED <<lastUid, opener, cmd, todo, queue, wpc, opened, finished, failures, result>>
        /\ cpc = "wait" /\ cpc' = IF cmd.pc = "idle" THEN "wait2" ELSE "wait"
    BY <1>4 DEF WaitCommands, vars, itemVars, uiVars, cmdVars, callVars, poolVars
  <2> QED BY <2>1 DEF Shapes, CallsInv, CommandHeld, RestInv, FailureCounted
<1>5. CASE WaitAnalyzer
  <2>1. /\ UNCHANGED <<lastUid, opener, cmd, todo, queue, wpc, opened, finished, failures, result>>
        /\ cpc = "wait2" /\ (cpc' = "wait" \/ (cpc' = "ready" /\ ~IsBusy))
    BY <1>5 DEF WaitAnalyzer, vars, itemVars, uiVars, cmdVars, callVars, poolVars
  <2>2. cmd.pc = "idle" /\ \A i \in Items : opener[i] # "calls"
    BY <2>1 DEF CommandHeld, CallsInv
  <2>3. ASSUME ~IsBusy PROVE Quiet
    <3>1. /\ todo[UI] = << >> /\ todo[CMD] = << >> /\ todo[WORK] = << >>
          /\ \A i \in Items : todo[OPEN(i)] = << >>
      BY <2>2, <2>3 DEF CallsInv, IsBusy
    <3> QED BY <2>2, <2>3, <3>1, ThreadsDiffer DEF Quiet
  <2>4. RestInv'
    BY <2>1, <2>3 DEF RestInv, Quiet, IsBusy
  <2> QED BY <2>1, <2>2, <2>4 DEF Shapes, CallsInv, CommandHeld, FailureCounted
<1>6. CASE RunOneCommand
  <2>1. /\ UNCHANGED <<lastUid, opener, todo, queue, wpc, opened, failures, result>>
        /\ cpc = "ready" /\ cpc' = "run" /\ finished' = "no"
        /\ \E item, op : cmd' = [pc |-> "queued", item |-> item, op |-> op]
    BY <1>6 DEF RunOneCommand, AsyncExecute, vars, itemVars, uiVars, callVars, poolVars
  <2>2. Quiet
    BY <2>1 DEF RestInv
  <2>3. CallsInv'
    BY <2>1, <2>2, ThreadsDiffer DEF CallsInv, Quiet
  <2> QED BY <2>1, <2>3 DEF Shapes, CommandHeld, RestInv, FailureCounted
<1>7. CASE CommandFinished
  <2>1. /\ UNCHANGED <<lastUid, opener, cmd, todo, queue, wpc, opened, finished, failures>>
        /\ cpc = "run" /\ cpc' = "wait" /\ finished # "no"
        /\ result' = IF finished = "failed" THEN "commandFail" ELSE result
    BY <1>7 DEF CommandFinished, vars, itemVars, uiVars, cmdVars, callVars, poolVars
  <2> QED BY <2>1 DEF Shapes, CallsInv, CommandHeld, RestInv, FailureCounted
<1>8. CASE LastCommand \/ StopDone \/ Reset
  <2>1. /\ UNCHANGED <<lastUid, opener, cmd, todo, queue, wpc, opened, finished, failures, result>>
        /\ cpc \in {"ready", "exit", "reset"} /\ cpc' \in {"exit", "reset", "done"}
    BY <1>8 DEF LastCommand, StopDone, Reset, vars, itemVars, uiVars, cmdVars, callVars, poolVars
  <2> QED BY <2>1 DEF Shapes, CallsInv, CommandHeld, RestInv, FailureCounted
<1>9. CASE StopGuard
  <2>1. /\ UNCHANGED <<lastUid, opener, cmd, todo, queue, wpc, opened, finished, failures, result,
                       cpc>>
        /\ cpc = "exit"
    BY <1>9 DEF StopGuard, StopCancelAll, StopPool, conVars, itemVars, cmdVars, callVars, poolVars
  <2> QED BY <2>1 DEF Shapes, CallsInv, CommandHeld, RestInv, FailureCounted
<1> QED BY <1>1, <1>2, <1>3, <1>4, <1>5, <1>6, <1>7, <1>8, <1>9 DEF Main

\* The command thread.
LEMMA CommandHolds ==
    ASSUME ConsoleInv, CommandThread
    PROVE  ConsoleInv'
<1> USE DEF ConsoleInv
<1>1. CASE CommandStarts
  <2>1. /\ UNCHANGED <<lastUid, opener, queue, wpc, cpc, opened, finished, failures, result>>
        /\ cmd.pc = "queued" /\ cmd' = [cmd EXCEPT !.pc = "run"]
        /\ todo' = todo \/ \E x : todo' = [todo EXCEPT ![CMD] = x]
    BY <1>1 DEF CommandStarts, ExecuteImpl, conVars, itemVars, uiVars, callVars, poolVars
  <2>2. /\ todo' = [t \in Threads |-> todo'[t]]
        /\ \A t \in Threads \ {CMD} : todo'[t] = todo[t]
    BY <2>1, ThreadsDiffer DEF Shapes
  <2>3. cmd' = [pc |-> cmd'.pc, item |-> cmd'.item, op |-> cmd'.op] /\ cmd'.pc = "run"
    BY <2>1 DEF Shapes
  <2>4. Shapes'
    BY <2>1, <2>2, <2>3 DEF Shapes
  <2>5. CallsInv'
    <3>1. \A t \in Threads \ {CMD} : todo'[t] = todo[t]
      BY <2>2
    <3> QED BY <2>1, <2>3, <3>1, ThreadsDiffer DEF CallsInv
  <2>6. cpc \notin {"start", "ready"}
    BY <2>1 DEF CommandHeld
  <2> QED BY <2>1, <2>3, <2>4, <2>5, <2>6 DEF CommandHeld, RestInv, FailureCounted
<1>2. CASE ReportStop
  <2>1. /\ UNCHANGED <<lastUid, opener, cmd, todo, queue, wpc, cpc, opened, result>>
        /\ cmd.pc = "run" /\ finished = "no"
        /\ \/ finished' = "ok" /\ failures' = failures
           \/ finished' = "failed" /\ failures' = failures + 1
    BY <1>2 DEF ReportStop, vars, itemVars, uiVars, cmdVars, callVars, poolVars
  <2>2. cpc = "run"
    BY <2>1 DEF CommandHeld
  <2>3. failures' \in Nat /\ (finished' = "failed" => failures' > 0)
    BY <2>1 DEF Shapes
  <2>4. FailureCounted'
    BY <2>1, <2>2, <2>3 DEF FailureCounted
  <2> QED BY <2>1, <2>2, <2>3, <2>4 DEF Shapes, CallsInv, CommandHeld, RestInv
<1>3. CASE CommandCounted
  <2>1. /\ UNCHANGED <<lastUid, opener, todo, queue, wpc, cpc, opened, finished, failures, result>>
        /\ cmd.pc = "run" /\ todo[CMD] = << >>
        /\ cmd' = [pc |-> "idle", item |-> NoItem, op |-> <<"none", 0>>]
    BY <1>3 DEF CommandCounted, CommandEnd, itemVars, uiVars, callVars, poolVars
  <2>2. cpc \notin {"start", "ready"}
    BY <2>1 DEF CommandHeld
  <2> QED BY <2>1, <2>2 DEF Shapes, CallsInv, CommandHeld, RestInv, FailureCounted
<1>4. CASE CommandDestroyed
  <2>1. UNCHANGED <<lastUid, opener, cmd, todo, queue, wpc, cpc, opened, finished, failures, result>>
    BY <1>4 DEF CommandDestroyed, vars, itemVars, uiVars, cmdVars, callVars, poolVars
  <2> QED BY <2>1 DEF Shapes, CallsInv, CommandHeld, RestInv, Quiet, IsBusy, FailureCounted
<1> QED BY <1>1, <1>2, <1>3, <1>4 DEF CommandThread

LEMMA ConsoleStepHolds == ConsoleInv /\ [ConsoleNext]_allVars => ConsoleInv'
<1> SUFFICES ASSUME ConsoleInv, [ConsoleNext]_allVars PROVE ConsoleInv'
  OBVIOUS
<1>1. CASE UNCHANGED allVars
  <2>1. UNCHANGED <<lastUid, opener, cmd, todo, queue, wpc, cpc, opened, finished, failures, result>>
    BY <1>1 DEF allVars, conVars, vars, itemVars, uiVars, cmdVars, callVars, poolVars
  <2> QED BY <2>1 DEF ConsoleInv, Shapes, CallsInv, CommandHeld, RestInv, Quiet, IsBusy, FailureCounted
<1> QED BY <1>1, BackgroundHolds, AddTargetHolds, MainHolds, CommandHolds DEF ConsoleNext, Done

\* The invariant holds of every --cmd run.
THEOREM ConsoleInvariant == ConsoleSpec => []ConsoleInv
BY ConsoleInitHolds, ConsoleStepHolds, PTL DEF ConsoleSpec

\* WaitUntilIdle: when a command starts, or the run comes to its end, no
\* analysis of the open or of an earlier command is queued, running or about
\* to be queued.
THEOREM CommandsAreSettled == ConsoleSpec => []Settled
<1>1. ConsoleInv => Settled
  BY DEF ConsoleInv, RestInv, Quiet, Settled
<1> QED BY <1>1, ConsoleInvariant, PTL

\* The exit code of a run that opened its targets tells whether a command
\* failed, whichever it was.
THEOREM ExitCodeTells == ConsoleSpec => []ExitTells
<1>1. ConsoleInv => ExitTells
  BY DEF ConsoleInv, FailureCounted, ExitTells
<1> QED BY <1>1, ConsoleInvariant, PTL
=============================================================================
