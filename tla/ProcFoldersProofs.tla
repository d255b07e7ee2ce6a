-------------------------- MODULE ProcFoldersProofs --------------------------
(***************************************************************************)
(* Proofs about ProcFolders for any processes and names, any number of     *)
(* opens, jobs, answers and crashes.                                       *)
(***************************************************************************)
EXTENDS ProcFolders, FiniteSetTheorems, TLAPS

\* An entry of the sweep, at most one at a time.
OneOf(S, T) == S = {} \/ \E e \in T : S = {e}

Keys == Procs \cup {NoKey}
FolderRec == [dir : BOOLEAN, hasDb : BOOLEAN, db : SUBSET Procs, meta : Metas, ev : BOOLEAN,
              old : BOOLEAN]
OpenerRec ==
    {r \in [pc : {"idle", "find", "mkdir", "test", "reinit", "meta", "register"},
            live : BOOLEAN, key : Keys, known : BOOLEAN, over : BOOLEAN, name : Names,
            reuse : BOOLEAN, linked : BOOLEAN] : r.pc = "find" => r.key \in Procs}
ItemRec == [name : Names, live : BOOLEAN, key : Keys, known : BOOLEAN, linked : BOOLEAN]
JobRec == [pc : {"idle", "select", "sweep"}, kind : {"none", "start", "cleanup", "delete"},
           todo : SUBSET Entry, cur : SUBSET Entry]
CountRec == [opens : 0..MaxOpens, jobs : 0..MaxJobs, answers : 0..MaxAnswers,
             crashes : 0..MaxCrashes]
Answer == [name : Names, meta : Metas \ {NoMeta}]

Types ==
    /\ alive \in {0, spawned} /\ spawned \in Procs \cup {0}
    /\ folder \in [Names -> FolderRec]
    /\ \A f \in Names : ~folder[f].dir => folder[f] = Absent
    /\ trash \in [Names -> {"none", "full", "empty"}]
    /\ running \in {"down", "starting", "up"}
    /\ opener \in [Openers -> OpenerRec]
    /\ items \subseteq ItemRec
    /\ job \in JobRec /\ counts \in CountRec
    /\ OneOf(job.cur, Entry) /\ OneOf(answer, Answer)
    /\ overwritten \subseteq Procs /\ raced \subseteq Names

\* Who is linked has the data.db of the folder open.
LinkInv ==
    /\ \A o \in Openers : opener[o].linked => /\ opener[o].pc \in {"meta", "register"}
                                              /\ folder[opener[o].name].hasDb
    /\ \A i \in items : i.linked => folder[i.name].hasDb

\* While the start sweeps nothing else runs, and every <name>.deleting is on
\* its list, or is what it has just renamed.
SweepInv ==
    /\ running # "up" => /\ \A o \in Openers : opener[o].pc = "idle"
                         /\ items = {}
    /\ job.cur \subseteq job.todo
    /\ job.pc # "sweep" => job.cur = {}
    /\ running = "starting" => job.pc = "sweep"
    /\ running = "starting" =>
         \A f \in Names : trash[f] # "none" =>
             \E e \in job.todo : e.name = f /\ (e.pending \/ job.cur = {e})

-----------------------------------------------------------------------------
(* One open at a time.                                                      *)

OneOpener == \E o : Openers = {o}

TheOpener == CHOOSE o \in Openers : TRUE
who == opener[TheOpener]
Saved == who.pc # "idle" /\ ~who.live
Live == who.pc # "idle" /\ who.live
Chosen == who.pc \notin {"idle", "find"}

\* The newest process a folder can know of: that of the open under way, else
\* the last one.
Top == IF Live THEN who.key ELSE spawned

\* No process but k is in the data.db of the folder or writes to it.
OwnedBy(f, k) ==
    /\ folder[f].db \subseteq {k}
    /\ \A i \in items : i.linked /\ i.name = f => i.key = k
    /\ who.linked /\ who.name = f => who.key = k

\* No process older than k is.
OwnedFrom(f, k) ==
    /\ \A d \in folder[f].db : k <= d
    /\ \A i \in items : i.linked /\ i.name = f => k <= i.key
    /\ who.linked /\ who.name = f => k <= who.key

\* The data.db has just been made anew, its meta.xml is the old one.
Fresh(f) == who.pc = "meta" /\ ~who.reuse /\ who.linked /\ who.name = f

\* Where the open is, and what it has at each place.
OpenInv ==
    /\ who.reuse => who.pc \in {"reinit", "meta", "register"}
    /\ Saved => /\ who.pc \in {"reinit", "meta", "register"} /\ who.reuse
                /\ \A i \in items : i.name # who.name
                /\ who.pc = "reinit" /\ folder[who.name].dir => folder[who.name].hasDb
    /\ who.pc = "meta" /\ folder[who.name].hasDb => who.linked
    /\ Live => who.key \in Procs /\ who.key <= spawned
    /\ Live /\ who.over => who.key \in overwritten

\* The folder of unknown starts and the others are kept apart.
PlainInv ==
    /\ folder[Plain].meta \notin Procs
    /\ \A f \in Names \ {Plain} : folder[f].meta # NoKey
    /\ Chosen => (who.known <=> who.name # Plain)
    /\ Chosen /\ who.known => who.key \in Procs
    /\ \A i \in items : i.known <=> i.name # Plain
    /\ \A a \in answer : a.meta = NoKey <=> a.name = Plain

\* No folder knows of a process that is newer than Top.
TopInv ==
    /\ \A f \in Names : folder[f].meta <= Top
    /\ \A f \in Names : \A k \in folder[f].db : k <= Top
    /\ \A i \in items : i.key <= Top
    /\ who.key <= Top

\* What meta.xml tells of the data.db.
MetaInv ==
    \A f \in Names \ {Plain} :
        /\ folder[f].hasDb /\ folder[f].meta \in Procs =>
              \/ OwnedBy(f, folder[f].meta)
              \/ f \in raced /\ folder[f].meta < Top
              \/ Fresh(f)
        /\ Fresh(f) => folder[f].db = {} /\ \A i \in items : ~(i.linked /\ i.name = f)
        /\ ~folder[f].hasDb => folder[f].db = {}

\* What the open has found to be its own still is, or an answer came between.
ReuseInv ==
    who.pc = "reinit" /\ who.reuse /\ who.name # Plain /\ folder[who.name].meta \in Procs =>
        \/ folder[who.name].meta = who.key
        \/ who.name \in raced /\ folder[who.name].meta < Top

\* Who shows the data.db of a folder is the only process in it.
OwnInv ==
    /\ \A i \in items : i.linked /\ i.name # Plain /\ (i.live \/ i.name \notin raced) =>
          OwnedBy(i.name, i.key)
    /\ /\ Chosen /\ who.name # Plain /\ (who.live \/ who.name \notin raced)
       /\ who.linked \/ (who.pc = "reinit" /\ who.reuse /\ folder[who.name].hasDb)
       => OwnedBy(who.name, who.key)

\* An answer read from a meta.xml is not newer than what the folder says, or
\* has when it says nothing.
AnswerInv ==
    /\ \A a \in answer : a.name # Plain =>
        /\ folder[a.name].meta \in Procs => a.meta <= folder[a.name].meta
        /\ folder[a.name].meta = NoMeta => OwnedFrom(a.name, a.meta)
        /\ Saved /\ who.name = a.name => a.meta <= who.key
        /\ a.meta <= Top
    /\ Saved => folder[who.name].meta <= who.key

\* The folders that say they are those of the last process.
Current == {f \in Names \ raced : f # Plain /\ folder[f].hasDb /\ folder[f].meta = spawned}

\* There is one of them at most, and the open of that process has it.
SoleInv ==
    spawned \in Procs \ overwritten =>
        /\ \A f, g \in Current : f = g
        /\ Live /\ Chosen /\ who.pc # "register" /\ who.known /\ who.key = spawned
             /\ who.name \notin raced
             => \A f \in Current : f = who.name

OneInv == /\ OpenInv /\ PlainInv /\ TopInv /\ MetaInv /\ ReuseInv /\ OwnInv /\ AnswerInv /\ SoleInv

-----------------------------------------------------------------------------
(* Types, and the sweep of the start, for any number of opening threads.    *)

LEMMA ConstFacts ==
    /\ Plain \in Names /\ \A k \in Procs : NamesOf[k] \subseteq Names
    /\ Procs \subseteq Nat /\ 0 \notin Procs /\ NoMeta \notin Procs
    /\ NoMeta \notin Procs \cup {NoKey}
    /\ MaxOpens \in Nat /\ MaxJobs \in Nat /\ MaxAnswers \in Nat /\ MaxCrashes \in Nat
    /\ Known \subseteq BOOLEAN /\ Overwrites \subseteq BOOLEAN
<1>1. Cardinality(Procs) \in Nat
  BY FoldersAssumption, FS_CardinalityType
<1>2. \A k \in Procs : k \in Nat /\ k >= 1
  <2> DEFINE n == Cardinality(Procs)
  <2>1. Procs = 1..n /\ n \in Nat
    BY <1>1, FoldersAssumption
  <2> HIDE DEF n
  <2> QED BY <2>1
<1>3. Plain \in Names /\ \A k \in Procs : NamesOf[k] \subseteq Names
  <2>1. ASSUME NEW k \in Procs, NEW f \in NamesOf[k] PROVE f \in Names
    <3>1. NamesOf[k] \in {NamesOf[j] : j \in Procs}
      OBVIOUS
    <3>2. f \in UNION {NamesOf[j] : j \in Procs}
      BY <3>1
    <3> QED BY <3>2 DEF Names
  <2>2. Plain \in Names
    BY DEF Names
  <2> QED BY <2>1, <2>2
<1>4. Procs \subseteq Nat /\ 0 \notin Procs /\ -1 \notin Procs
  BY <1>2
<1> QED BY <1>3, <1>4, FoldersAssumption DEF NoMeta, NoKey

LEMMA RecordTypes ==
    /\ Absent \in FolderRec /\ Idle \in OpenerRec
    /\ \A f \in Names : PendingEntry(f) \in Entry
BY ConstFacts DEF Absent, FolderRec, Idle, OpenerRec, Keys, PendingEntry, Entry, Metas

\* Whose data.db is taken away is told apart by nothing else.
LEMMA UnlinkTypes ==
    ASSUME items \in SUBSET ItemRec, NEW f
    PROVE  Unlink(f, items) \subseteq ItemRec
<1>1. ASSUME NEW i \in ItemRec PROVE [i EXCEPT !.linked = i.linked /\ i.name # f] \in ItemRec
  BY DEF ItemRec
<1> QED BY <1>1 DEF Unlink

LEMMA UnlinkOpenerTypes ==
    ASSUME opener \in [Openers -> OpenerRec], NEW f
    PROVE  UnlinkOpeners(f) \in [Openers -> OpenerRec]
<1>1. ASSUME NEW r \in OpenerRec, NEW g
      PROVE  [r EXCEPT !.linked = @ /\ r.name # g] \in OpenerRec
  BY DEF OpenerRec
<1> QED BY <1>1 DEF UnlinkOpeners

LEMMA EntryTypes ==
    ASSUME folder \in [Names -> FolderRec]
    PROVE  /\ Pending \subseteq Entry /\ Databases \subseteq Entry /\ Expired \subseteq Entry
           /\ \A f \in Names : FolderEntry(f) \in Entry
<1>1. \A f \in Names : FolderEntry(f) \in Entry
  BY DEF FolderEntry, FolderRec, Entry
<1> QED BY <1>1, RecordTypes DEF Pending, Databases, Expired

LEMMA TypesInit == Init => Types
<1> SUFFICES ASSUME Init PROVE Types
  OBVIOUS
<1>1. folder \in [Names -> FolderRec] /\ opener \in [Openers -> OpenerRec]
  BY RecordTypes DEF Init
<1>2. \A f \in Names : ~folder[f].dir => folder[f] = Absent
  BY DEF Init
<1>3. job \in JobRec /\ OneOf(job.cur, Entry)
  BY DEF Init, NoJob, OneOf, JobRec
<1>4. counts \in CountRec
  BY ConstFacts DEF Init, CountRec
<1> QED BY <1>1, <1>2, <1>3, <1>4 DEF Init, Types, OneOf

\* A field of the record of one opener.
LEMMA OpenerSet ==
    ASSUME opener \in [Openers -> OpenerRec], NEW o \in Openers, NEW r \in OpenerRec
    PROVE  [opener EXCEPT ![o] = r] \in [Openers -> OpenerRec]
OBVIOUS

\* The steps that the folders and the openers are left alone in.
LEMMA TypesAside ==
    ASSUME Types, UNCHANGED <<folder, opener>>,
           items' \subseteq items, alive' \in {0, spawned'}, spawned' \in Procs \cup {0},
           trash' \in [Names -> {"none", "full", "empty"}],
           running' \in {"down", "starting", "up"},
           job' \in JobRec, OneOf(job'.cur, Entry), OneOf(answer', Answer), counts' \in CountRec,
           UNCHANGED <<overwritten, raced>>
    PROVE  Types'
<1>1. items' \subseteq ItemRec
  BY DEF Types
<1> QED BY <1>1 DEF Types

\* The steps of an opener that leave the folders and the items alone.
LEMMA TypesOpener ==
    ASSUME Types, UNCHANGED <<pids, disk, running, items, job, raced, answer>>,
           opener' \in [Openers -> OpenerRec], overwritten' \subseteq Procs,
           counts' \in CountRec
    PROVE  Types'
BY DEF Types, pids, disk

\* The steps that write one folder.
LEMMA TypesFolder ==
    ASSUME Types, UNCHANGED <<pids, trash, running, job, counts, overwritten>>,
           NEW f \in Names, NEW r \in FolderRec, folder' = [folder EXCEPT ![f] = r],
           ~r.dir => r = Absent,
           opener' \in [Openers -> OpenerRec], items' \subseteq ItemRec, raced' \subseteq Names,
           OneOf(answer', Answer)
    PROVE  Types'
<1>1. folder' \in [Names -> FolderRec] /\ \A g \in Names : ~folder'[g].dir => folder'[g] = Absent
  BY DEF Types
<1> QED BY <1>1 DEF Types, pids

LEMMA TypesStep == Types /\ LinkInv /\ [Next]_vars => Types'
<1> SUFFICES ASSUME Types, LinkInv, [Next]_vars PROVE Types'
  OBVIOUS
<1>none. OneOf({}, Answer) /\ OneOf({}, Entry) /\ NoJob \in JobRec /\ NoJob.cur = {}
  BY DEF OneOf, NoJob, JobRec
<1>sum. /\ counts.opens < MaxOpens => [counts EXCEPT !.opens = @ + 1] \in CountRec
        /\ counts.jobs < MaxJobs => [counts EXCEPT !.jobs = @ + 1] \in CountRec
        /\ counts.answers < MaxAnswers => [counts EXCEPT !.answers = @ + 1] \in CountRec
        /\ counts.crashes < MaxCrashes => [counts EXCEPT !.crashes = @ + 1] \in CountRec
  BY ConstFacts DEF Types, CountRec
<1>jobs. /\ job \in JobRec /\ OneOf(job.cur, Entry)
         /\ \A S \in SUBSET Entry, k \in {"start", "cleanup", "delete"}, c \in {"select", "sweep"} :
              LET j == [NoJob EXCEPT !.pc = c, !.kind = k, !.todo = S]
              IN  j \in JobRec /\ j.cur = {}
         /\ \A S \in SUBSET Entry :
              LET j == [job EXCEPT !.pc = "sweep", !.todo = S]
              IN  j \in JobRec /\ j.cur = job.cur
         /\ \A S \in SUBSET Entry :
              LET j == [job EXCEPT !.cur = {}, !.todo = S]
              IN  j \in JobRec /\ j.cur = {}
         /\ \A S \in SUBSET Entry :
              LET j == [job EXCEPT !.todo = S]
              IN  j \in JobRec /\ j.cur = job.cur
         /\ [job EXCEPT !.pc = "sweep"] \in JobRec /\ [job EXCEPT !.pc = "sweep"].cur = job.cur
         /\ \A e \in Entry : [job EXCEPT !.cur = {e}] \in JobRec /\ [job EXCEPT !.cur = {e}].cur = {e}
         /\ job.todo \in SUBSET Entry /\ \A e \in Entry : job.todo \ {e} \in SUBSET Entry
  <2>1. job \in JobRec /\ OneOf(job.cur, Entry)
    BY DEF Types
  <2> QED BY <2>1 DEF NoJob, JobRec
<1>list. /\ Pending \subseteq Entry /\ Databases \subseteq Entry /\ Expired \subseteq Entry
         /\ \A f \in Names : FolderEntry(f) \in Entry
  BY EntryTypes DEF Types
<1>recs. /\ \A o \in Openers : opener[o] \in OpenerRec
         /\ \A f \in Names : folder[f] \in FolderRec
         /\ folder \in [Names -> FolderRec] /\ opener \in [Openers -> OpenerRec]
         /\ items \subseteq ItemRec
  BY DEF Types
<1>1. CASE UNCHANGED vars
  BY <1>1 DEF vars, Types
<1>2. CASE Spawn
  BY <1>2, TypesAside DEF Spawn, disk, history, Types
<1>3. CASE Exit
  BY <1>3, TypesAside DEF Exit, disk, history, Types
<1>4. CASE Age
  <2>1. \A f \in Names : [folder[f] EXCEPT !.old = folder[f].dir] \in FolderRec
    BY <1>recs DEF FolderRec
  <2>2. \A f \in Names : ~folder[f].dir =>
          [folder[f] EXCEPT !.old = folder[f].dir] = Absent
    <3>1. \A r \in FolderRec : ~r.old => [r EXCEPT !.old = FALSE] = r
      BY DEF FolderRec
    <3>2. Absent.dir = FALSE /\ Absent.old = FALSE
      BY DEF Absent
    <3>3. [Absent EXCEPT !.old = Absent.dir] = Absent
      BY <3>1, <3>2, RecordTypes
    <3> QED BY <3>3 DEF Types
  <2>3. \A f \in Names : [folder[f] EXCEPT !.old = folder[f].dir].dir = folder[f].dir
    BY <1>recs DEF FolderRec
  <2>4. /\ folder' \in [Names -> FolderRec]
        /\ \A f \in Names : ~folder'[f].dir => folder'[f] = Absent
    BY <1>4, <2>1, <2>2, <2>3 DEF Age
  <2> QED BY <1>4, <2>4 DEF Age, Types, pids, history
<1>5. CASE Crash
  <2>1. opener' \in [Openers -> OpenerRec]
    BY <1>5, RecordTypes DEF Crash
  <2> QED BY <1>5, <1>none, <1>sum, <2>1 DEF Crash, Types, pids, disk, history
<1>6. ASSUME NEW o \in Openers, BeginOpen(o) PROVE Types'
  <2>1. alive \in Procs
    BY <1>6 DEF BeginOpen, Types
  <2>2. \A known \in BOOLEAN, over \in BOOLEAN :
          [Idle EXCEPT !.pc = "find", !.key = alive, !.known = known, !.over = over] \in OpenerRec
    BY <2>1, RecordTypes DEF OpenerRec, Keys
  <2>3. opener' \in [Openers -> OpenerRec]
    <3>1. \E r \in OpenerRec : opener' = [opener EXCEPT ![o] = r]
      BY <1>6, <2>2, ConstFacts, ZenonT(30) DEF BeginOpen
    <3> QED BY <1>recs, <3>1
  <2>4. overwritten' \subseteq Procs
    BY <1>6, <2>1 DEF BeginOpen, Types
  <2>5. counts' \in CountRec /\ UNCHANGED <<pids, disk, running, items, job, raced, answer>>
    BY <1>6, <1>sum DEF BeginOpen
  <2> QED BY <2>3, <2>4, <2>5, TypesOpener
<1>7. ASSUME NEW o \in Openers, Find(o) PROVE Types'
  <2>1. PICK f : opener' = [opener EXCEPT ![o].pc = "mkdir", ![o].name = f] /\ f \in Names
    <3>1. FindProcFolderByStart(opener[o].key) \subseteq Names
      BY DEF FindProcFolderByStart
    <3>2. NamesOf[opener[o].key] \subseteq Names
      BY <1>7, <1>recs, ConstFacts DEF Find, OpenerRec
    <3> QED BY <1>7, <3>1, <3>2, ConstFacts DEF Find
  <2>2. [opener[o] EXCEPT !.pc = "mkdir", !.name = f] \in OpenerRec
    BY <1>recs, <2>1 DEF OpenerRec
  <2>3. opener' \in [Openers -> OpenerRec]
    BY <1>recs, <2>1, <2>2
  <2> QED BY <1>7, <2>3, TypesOpener DEF Find, history, Types
<1>8. ASSUME NEW o \in Openers, Mkdir(o) PROVE Types'
  <2> DEFINE f == opener[o].name
             r == [folder[f] EXCEPT !.dir = TRUE, !.old = FALSE]
  <2>1. f \in Names /\ r \in FolderRec /\ r.dir
    <3>1. f \in Names /\ folder[f] \in FolderRec
      BY <1>recs DEF OpenerRec
    <3> QED BY <3>1 DEF FolderRec
  <2>2. folder' = [folder EXCEPT ![f] = r]
    BY <1>8, <1>recs, <2>1 DEF Mkdir
  <2>3. opener' \in [Openers -> OpenerRec]
    <3>1. [opener[o] EXCEPT !.pc = "test"] \in OpenerRec
      BY <1>recs DEF OpenerRec
    <3> QED BY <1>8, <1>recs, <3>1 DEF Mkdir
  <2>4. /\ UNCHANGED <<pids, trash, running, job, counts, overwritten, raced, items, answer>>
    BY <1>8 DEF Mkdir, history
  <2> HIDE DEF f, r
  <2> QED BY <1>recs, <2>1, <2>2, <2>3, <2>4, TypesFolder DEF Types
<1>9. ASSUME NEW o \in Openers, Test(o) PROVE Types'
  <2> DEFINE f == opener[o].name
             r == [folder[f] EXCEPT !.old = FALSE]
             b == ~opener[o].over /\ opener[o].known /\ folder[f].hasDb
                     /\ folder[f].meta = opener[o].key
  <2>1. f \in Names /\ folder[f] \in FolderRec
    BY <1>recs DEF OpenerRec
  <2>2. r \in FolderRec /\ r.dir = folder[f].dir
    BY <2>1 DEF FolderRec
  <2>3. ~r.dir => r = Absent
    <3>1. \A q \in FolderRec : ~q.old => [q EXCEPT !.old = FALSE] = q
      BY DEF FolderRec
    <3>2. Absent.old = FALSE
      BY DEF Absent
    <3> QED BY <2>1, <2>2, <3>1, <3>2 DEF Types
  <2>4. folder' = [folder EXCEPT ![f] = r]
    BY <1>9, <1>recs, <2>1 DEF Test
  <2>5. opener' \in [Openers -> OpenerRec]
    <3>1. b \in BOOLEAN
      OBVIOUS
    <3>2. opener' = [opener EXCEPT ![o].pc = "reinit", ![o].reuse = b]
      BY <1>9 DEF Test
    <3> HIDE DEF b
    <3>3. [opener[o] EXCEPT !.pc = "reinit", !.reuse = b] \in OpenerRec
      BY <1>recs, <3>1 DEF OpenerRec
    <3> QED BY <1>recs, <3>2, <3>3
  <2>6. /\ UNCHANGED <<pids, trash, running, job, counts, overwritten, raced, items, answer>>
    BY <1>9 DEF Test, history
  <2> HIDE DEF f, r
  <2> QED BY <1>recs, <2>1, <2>2, <2>3, <2>4, <2>5, <2>6, TypesFolder DEF Types
<1>10. ASSUME NEW o \in Openers, Reinit(o) PROVE Types'
  <2> DEFINE f == opener[o].name
             r == [folder[f] EXCEPT !.hasDb = TRUE, !.db = {}, !.old = FALSE]
             U == UnlinkOpeners(f)
  <2>1. f \in Names /\ folder[f] \in FolderRec
    BY <1>recs DEF OpenerRec
  <2>2. U \in [Openers -> OpenerRec]
    BY <1>recs, UnlinkOpenerTypes
  <2>3. /\ \A q \in OpenerRec : [q EXCEPT !.pc = "register"] \in OpenerRec
        /\ \A q \in OpenerRec : [q EXCEPT !.pc = "meta", !.linked = TRUE] \in OpenerRec
    BY DEF OpenerRec
  <2>4. \/ /\ opener' = [opener EXCEPT ![o] = [opener[o] EXCEPT !.pc = "register"]]
           /\ UNCHANGED <<folder, items>>
        \/ opener' = [opener EXCEPT ![o] = Idle] /\ UNCHANGED <<folder, items>>
        \/ /\ opener' = [opener EXCEPT ![o] = [opener[o] EXCEPT !.pc = "meta", !.linked = TRUE]]
           /\ UNCHANGED <<folder, items>>
        \/ /\ opener' = [U EXCEPT ![o] = [U[o] EXCEPT !.pc = "meta", !.linked = TRUE]]
           /\ folder[f].dir /\ folder' = [folder EXCEPT ![f] = r] /\ items' = Unlink(f, items)
    BY <1>10, <1>recs, <2>1, <2>2 DEF Reinit
  <2>5. UNCHANGED <<pids, trash, running, job, counts, overwritten, raced, answer>>
    BY <1>10 DEF Reinit, history
  <2>6. opener' \in [Openers -> OpenerRec]
    <3> HIDE DEF U
    <3>1. \A V \in [Openers -> OpenerRec], q \in OpenerRec :
            [V EXCEPT ![o] = q] \in [Openers -> OpenerRec]
      OBVIOUS
    <3>2. opener[o] \in OpenerRec /\ U[o] \in OpenerRec /\ Idle \in OpenerRec
      BY <1>recs, <2>2, RecordTypes
    <3>3. /\ [opener[o] EXCEPT !.pc = "register"] \in OpenerRec
          /\ [opener[o] EXCEPT !.pc = "meta", !.linked = TRUE] \in OpenerRec
          /\ [U[o] EXCEPT !.pc = "meta", !.linked = TRUE] \in OpenerRec
      BY <2>3, <3>2
    <3> QED BY <1>recs, <2>2, <2>4, <3>1, <3>2, <3>3
  <2>7. items' \subseteq ItemRec
    BY <1>recs, <2>4, UnlinkTypes
  <2>8. CASE UNCHANGED <<folder, items>>
    BY <2>5, <2>6, <2>8, TypesOpener DEF Types, pids, disk
  <2>9. CASE folder[f].dir /\ folder' = [folder EXCEPT ![f] = r]
    <3>1. r \in FolderRec /\ r.dir
      BY <2>1, <2>9 DEF FolderRec
    <3> HIDE DEF f, r
    <3> QED BY <1>recs, <2>1, <2>5, <2>6, <2>7, <2>9, <3>1, TypesFolder DEF Types
  <2> QED BY <2>4, <2>8, <2>9
<1>11. ASSUME NEW o \in Openers, WriteFolderMeta(o) PROVE Types'
  <2> DEFINE f == opener[o].name
             m == IF opener[o].known THEN opener[o].key ELSE NoKey
             r == [folder[f] EXCEPT !.meta = m, !.old = FALSE]
  <2>1. f \in Names /\ folder[f] \in FolderRec /\ m \in Metas
    BY <1>recs DEF OpenerRec, Keys, Metas
  <2>2. \/ /\ opener' = [opener EXCEPT ![o] = [opener[o] EXCEPT !.pc = "register"]]
           /\ UNCHANGED folder
        \/ /\ opener' = [opener EXCEPT ![o] = [opener[o] EXCEPT !.pc = "register"]]
           /\ folder[f].dir /\ folder' = [folder EXCEPT ![f] = r]
        \/ /\ opener' = [opener EXCEPT ![o] = [opener[o] EXCEPT !.pc = "register", !.linked = FALSE]]
           /\ UNCHANGED folder
    BY <1>11, <1>recs, <2>1 DEF WriteFolderMeta
  <2>3. UNCHANGED <<pids, trash, running, job, counts, overwritten, raced, answer, items>>
    BY <1>11 DEF WriteFolderMeta, history
  <2>4. opener' \in [Openers -> OpenerRec]
    <3>1. \A q \in OpenerRec : /\ [q EXCEPT !.pc = "register"] \in OpenerRec
                               /\ [q EXCEPT !.pc = "register", !.linked = FALSE] \in OpenerRec
      BY DEF OpenerRec
    <3>2. /\ [opener[o] EXCEPT !.pc = "register"] \in OpenerRec
          /\ [opener[o] EXCEPT !.pc = "register", !.linked = FALSE] \in OpenerRec
      BY <1>recs, <3>1
    <3> QED BY <1>recs, <2>2, <3>2
  <2>5. CASE UNCHANGED folder
    BY <2>3, <2>4, <2>5, TypesOpener DEF Types, pids, disk
  <2>6. CASE folder[f].dir /\ folder' = [folder EXCEPT ![f] = r]
    <3> HIDE DEF m
    <3>1. r \in FolderRec /\ r.dir
      BY <2>1, <2>6 DEF FolderRec
    <3> HIDE DEF f, r
    <3> QED BY <1>recs, <2>1, <2>3, <2>4, <2>6, <3>1, TypesFolder DEF Types
  <2> QED BY <2>2, <2>5, <2>6
<1>12. ASSUME NEW o \in Openers, Register(o) PROVE Types'
  <2>1. opener' \in [Openers -> OpenerRec]
    BY <1>12, <1>recs, RecordTypes DEF Register
  <2>2. items' \subseteq ItemRec
    <3>1. [name |-> opener[o].name, live |-> opener[o].live, key |-> opener[o].key,
           known |-> opener[o].known, linked |-> opener[o].linked] \in ItemRec
      BY <1>recs DEF OpenerRec, ItemRec
    <3> QED BY <1>12, <1>recs, <3>1 DEF Register
  <2> QED BY <1>12, <2>1, <2>2 DEF Register, Types, pids, disk, history
<1>13. ASSUME NEW o \in Openers, NEW f \in Names, OpenSaved(o, f) PROVE Types'
  <2> DEFINE r == [Idle EXCEPT !.pc = "reinit", !.live = FALSE, !.name = f,
                                 !.key = folder[f].meta, !.known = folder[f].meta # NoKey, !.reuse = TRUE]
  <2>1. folder[f].meta \in Keys
    BY <1>13, <1>recs DEF OpenSaved, FolderRec, Metas, Keys
  <2>2. r \in OpenerRec
    <3>1. \A q \in OpenerRec, k \in Keys, b \in BOOLEAN :
            [q EXCEPT !.pc = "reinit", !.live = FALSE, !.name = f, !.key = k, !.known = b,
                      !.reuse = TRUE] \in OpenerRec
      BY DEF OpenerRec
    <3> QED BY <2>1, <3>1, RecordTypes
  <2>3. opener' = [opener EXCEPT ![o] = r] /\ counts' \in CountRec
        /\ UNCHANGED <<pids, disk, running, items, job, overwritten, raced, answer>>
    BY <1>13, <1>sum DEF OpenSaved, history
  <2> HIDE DEF r
  <2>4. opener' \in [Openers -> OpenerRec]
    BY <1>recs, <2>2, <2>3
  <2> QED BY <2>3, <2>4, TypesOpener DEF Types
<1>14. ASSUME NEW i \in items, Write(i) PROVE Types'
  <2> DEFINE f == i.name
             D == folder[f].db \cup ({i.key} \cap Procs)
             r == [folder[f] EXCEPT !.db = D, !.old = FALSE]
  <2>1. f \in Names /\ folder[f] \in FolderRec /\ i.linked
    BY <1>14, <1>recs DEF ItemRec, Write
  <2>2. folder' = [folder EXCEPT ![f] = r]
    BY <1>14, <1>recs, <2>1 DEF Write
  <2>3. D \subseteq Procs /\ folder[f].dir
    <3>1. Absent.hasDb = FALSE
      BY DEF Absent
    <3> QED BY <2>1, <3>1 DEF FolderRec, LinkInv, Types
  <2>4. UNCHANGED <<pids, trash, running, job, counts, overwritten, raced, items, answer, opener>>
    BY <1>14 DEF Write, history
  <2> HIDE DEF D
  <2>5. r \in FolderRec /\ r.dir
    BY <2>1, <2>3 DEF FolderRec
  <2> HIDE DEF f, r
  <2> QED BY <1>recs, <2>1, <2>2, <2>4, <2>5, TypesFolder DEF Types
<1>15. ASSUME NEW i \in items, SaveEvidence(i) PROVE Types'
  <2> DEFINE f == i.name
             r == [folder[f] EXCEPT !.dir = TRUE, !.ev = TRUE, !.old = FALSE]
  <2>1. f \in Names /\ folder[f] \in FolderRec
    BY <1>15, <1>recs DEF ItemRec
  <2>2. folder' = [folder EXCEPT ![f] = r]
    BY <1>15, <1>recs, <2>1 DEF SaveEvidence
  <2>3. r \in FolderRec /\ r.dir
    BY <2>1 DEF FolderRec
  <2>4. UNCHANGED <<pids, trash, running, job, counts, overwritten, raced, items, answer, opener>>
    BY <1>15 DEF SaveEvidence, history
  <2> HIDE DEF f, r
  <2> QED BY <1>recs, <2>1, <2>2, <2>3, <2>4, TypesFolder DEF Types
<1>16. ASSUME NEW i \in items, AnswerRead(i) PROVE Types'
  <2>1. i.name \in Names /\ folder[i.name].meta \in Metas \ {NoMeta}
    BY <1>16, <1>recs DEF ItemRec, FolderRec, AnswerRead
  <2>2. OneOf(answer', Answer)
    BY <1>16, <2>1 DEF AnswerRead, OneOf, Answer
  <2> QED BY <1>16, <1>sum, <2>2 DEF AnswerRead, Types, pids, disk, history
<1>17. ASSUME NEW i \in items, CloseItem(i) PROVE Types'
  BY <1>17 DEF CloseItem, Types, pids, disk, history
<1>18. ASSUME NEW a \in answer, AnswerWrite(a) PROVE Types'
  <2> DEFINE f == a.name
             r == [folder[f] EXCEPT !.meta = a.meta, !.old = FALSE]
  <2>1. a \in Answer
    BY DEF Types, OneOf
  <2>2. f \in Names /\ folder[f] \in FolderRec /\ a.meta \in Metas
    BY <1>recs, <2>1 DEF Answer
  <2>3. OneOf(answer', Answer) /\ raced' \subseteq Names
    BY <1>18, <2>2 DEF AnswerWrite, OneOf, Types
  <2>4. \/ folder[f].dir /\ folder' = [folder EXCEPT ![f] = r]
        \/ UNCHANGED folder
    BY <1>18, <1>recs, <2>2 DEF AnswerWrite
  <2>5. UNCHANGED <<pids, trash, running, job, counts, overwritten, items, opener>>
    BY <1>18 DEF AnswerWrite
  <2>6. CASE UNCHANGED folder
    BY <2>3, <2>5, <2>6 DEF Types, pids
  <2>7. CASE folder[f].dir /\ folder' = [folder EXCEPT ![f] = r]
    <3>1. r \in FolderRec /\ r.dir
      BY <2>2, <2>7 DEF FolderRec
    <3> HIDE DEF f, r
    <3> QED BY <1>recs, <2>2, <2>3, <2>5, <2>7, <3>1, TypesFolder
  <2> QED BY <2>4, <2>6, <2>7
<1>19. CASE Start
  <2>1. job' \in JobRec /\ job'.cur = {}
    <3>1. job' = [NoJob EXCEPT !.pc = "sweep", !.kind = "start", !.todo = Expired]
      BY <1>19 DEF Start
    <3> QED BY <1>jobs, <1>list, <3>1
  <2> QED BY <1>19, <1>none, <2>1, TypesAside DEF Start, Types, pids, disk, history
<1>20. CASE BeginCleanup
  <2>1. job' \in JobRec /\ job'.cur = {}
    <3> DEFINE S == Pending \cup (Databases \ Evidence)
    <3>1. job' = [NoJob EXCEPT !.pc = "select", !.kind = "cleanup", !.todo = S] /\ S \subseteq Entry
      BY <1>20, <1>list DEF BeginCleanup
    <3> HIDE DEF S
    <3> QED BY <1>jobs, <3>1
  <2> QED BY <1>20, <1>none, <1>sum, <2>1, TypesAside DEF BeginCleanup, Types, pids, disk, history
<1>21. CASE SelectCleanup
  <2>1. \E S : job' = [job EXCEPT !.pc = "sweep", !.todo = S] /\ S \subseteq job.todo
    <3> DEFINE S == {e \in job.todo : \/ e.pending
                                      \/ /\ e.name \notin OpenNames
                                         /\ e.old \/ ProcessState(e) \in {"Gone", "Reused"}}
    <3>1. job' = [job EXCEPT !.pc = "sweep", !.todo = S] /\ S \subseteq job.todo
      BY <1>21 DEF SelectCleanup
    <3> HIDE DEF S
    <3> QED BY <3>1
  <2>2. job' \in JobRec /\ job'.cur = job.cur
    <3>1. PICK S \in SUBSET Entry : job' = [job EXCEPT !.pc = "sweep", !.todo = S]
      BY <1>jobs, <2>1
    <3> QED BY <1>jobs, <3>1
  <2> QED BY <1>21, <1>jobs, <2>2, TypesAside DEF SelectCleanup, Types, pids, disk, history
<1>22. CASE SelectDelete
  <2>1. job' \in JobRec /\ OneOf(job'.cur, Entry)
    BY <1>22, <1>jobs, <1>none DEF SelectDelete
  <2> QED BY <1>22, <2>1, TypesAside DEF SelectDelete, Types, pids, disk, history
<1>23. CASE SweepEnd
  BY <1>23, <1>none, TypesAside DEF SweepEnd, Types, pids, disk, history
<1>24. ASSUME NEW f \in Names, BeginDelete(f) PROVE Types'
  <2>1. job' \in JobRec /\ job'.cur = {}
    <3>1. job' = [NoJob EXCEPT !.pc = "select", !.kind = "delete", !.todo = {FolderEntry(f)}]
      BY <1>24 DEF BeginDelete
    <3>2. {FolderEntry(f)} \subseteq Entry
      BY <1>list
    <3> QED BY <1>jobs, <3>1, <3>2
  <2> QED BY <1>24, <1>none, <1>sum, <2>1, TypesAside DEF BeginDelete, Types, pids, disk, history
<1>25. ASSUME NEW e \in Entry, RemoveAll(e) PROVE Types'
  <2>1. job' \in JobRec /\ OneOf(job'.cur, Entry)
    <3> DEFINE S == job.todo \ {e}
    <3>1. job' = job \/ job' = [job EXCEPT !.cur = {}, !.todo = S]
      BY <1>25 DEF RemoveAll
    <3>2. S \in SUBSET Entry
      BY <1>jobs
    <3> HIDE DEF S
    <3> QED BY <1>jobs, <1>none, <3>1, <3>2
  <2>2. trash' \in [Names -> {"none", "full", "empty"}]
    BY <1>25 DEF RemoveAll, Types
  <2> QED BY <1>25, <2>1, <2>2, TypesAside DEF RemoveAll, Types, pids, history
<1>26. ASSUME NEW e \in Entry, Rename(e) PROVE Types'
  <2> DEFINE f == e.name
  <2>1. f \in Names
    BY DEF Entry
  <2>2. job' \in JobRec /\ OneOf(job'.cur, Entry)
    <3> DEFINE S == job.todo \ {e}
    <3>1. job' = [job EXCEPT !.cur = {e}] \/ job' = [job EXCEPT !.todo = S]
      BY <1>26 DEF Rename
    <3>2. OneOf({e}, Entry) /\ S \in SUBSET Entry
      BY <1>jobs DEF OneOf
    <3> HIDE DEF S
    <3> QED BY <1>jobs, <3>1, <3>2
  <2>3. UNCHANGED <<pids, running, counts, overwritten, raced, answer>>
    BY <1>26 DEF Rename, history
  <2>4. CASE UNCHANGED <<disk, items, opener>>
    BY <2>2, <2>3, <2>4, TypesAside DEF Types, pids, disk
  <2>5. CASE /\ trash' = [trash EXCEPT ![f] = "full"] /\ folder' = [folder EXCEPT ![f] = Absent]
             /\ items' = Unlink(f, items) /\ opener' = UnlinkOpeners(f)
    <3>1. folder' \in [Names -> FolderRec] /\ \A g \in Names : ~folder'[g].dir => folder'[g] = Absent
      BY <2>1, <2>5, RecordTypes DEF Types
    <3>2. items' \subseteq ItemRec /\ opener' \in [Openers -> OpenerRec]
      BY <1>recs, <2>5, UnlinkTypes, UnlinkOpenerTypes
    <3>3. trash' \in [Names -> {"none", "full", "empty"}]
      BY <2>1, <2>5 DEF Types
    <3> QED BY <2>2, <2>3, <3>1, <3>2, <3>3 DEF Types, pids
  <2> QED BY <1>26, <2>4, <2>5 DEF Rename
<1> QED BY <1>1, <1>2, <1>3, <1>4, <1>5, <1>6, <1>7, <1>8, <1>9, <1>10, <1>11, <1>12, <1>13, <1>14,
           <1>15, <1>16, <1>17, <1>18, <1>19, <1>20, <1>21, <1>22, <1>23, <1>24, <1>25, <1>26
        DEF Next

-----------------------------------------------------------------------------
(* What each step does, field by field.                                     *)

\* The opener is for the same target, whatever has become of its database.
SameTarget(r, s) == /\ r.live = s.live /\ r.key = s.key /\ r.known = s.known
                    /\ r.over = s.over /\ r.name = s.name
\* The folder says and has the same.
SameData(r, s) == r.hasDb = s.hasDb /\ r.db = s.db /\ r.meta = s.meta
Others(o) == \A v \in Openers \ {o} : opener'[v] = opener[v]
OtherFolders(f) == \A g \in Names \ {f} : folder'[g] = folder[g]
FoldersSame == \A f \in Names : SameData(folder'[f], folder[f]) /\ folder'[f].dir = folder[f].dir

\* Those who had the data.db of the folder open have it no more.
ItemsUnlinked(f) ==
    \A j \in items' : \E i \in items :
        /\ j.name = i.name /\ j.live = i.live /\ j.key = i.key /\ j.known = i.known
        /\ j.linked <=> i.linked /\ i.name # f
OpenersUnlinked(f) ==
    \A v \in Openers :
        /\ SameTarget(opener'[v], opener[v])
        /\ opener'[v].pc = opener[v].pc /\ opener'[v].reuse = opener[v].reuse
        /\ opener'[v].linked <=> opener[v].linked /\ opener[v].name # f

LEMMA Records ==
    ASSUME Types
    PROVE  /\ \A o \in Openers : opener[o] \in OpenerRec
           /\ \A o \in Openers : opener[o].name \in Names /\ opener[o].key \in Keys
           /\ \A f \in Names : folder[f] \in FolderRec
           /\ \A f \in Names : folder[f].meta \in Metas /\ folder[f].db \subseteq Procs
           /\ folder \in [Names -> FolderRec] /\ opener \in [Openers -> OpenerRec]
           /\ \A i \in items : i \in ItemRec /\ i.name \in Names /\ i.key \in Keys
           /\ \A a \in answer : a \in Answer /\ a.name \in Names /\ a.meta \in Keys
           /\ \A f \in Names : folder[f].hasDb => folder[f].dir
           /\ \A f \in Names : ~folder[f].dir => ~folder[f].hasDb /\ folder[f].db = {}
                                                 /\ folder[f].meta = NoMeta
<1>1. /\ \A o \in Openers : opener[o] \in OpenerRec
      /\ \A f \in Names : folder[f] \in FolderRec
      /\ folder \in [Names -> FolderRec] /\ opener \in [Openers -> OpenerRec]
      /\ \A i \in items : i \in ItemRec
      /\ \A a \in answer : a \in Answer
  BY DEF Types, OneOf
<1>2. /\ \A o \in Openers : opener[o].name \in Names /\ opener[o].key \in Keys
      /\ \A f \in Names : folder[f].meta \in Metas /\ folder[f].db \subseteq Procs
      /\ \A i \in items : i.name \in Names /\ i.key \in Keys
  BY <1>1 DEF OpenerRec, FolderRec, ItemRec
<1>3. \A a \in answer : a.name \in Names /\ a.meta \in Keys
  BY <1>1, ConstFacts DEF Answer, Metas, Keys
<1>4. Absent.hasDb = FALSE /\ Absent.db = {} /\ Absent.meta = NoMeta
  BY DEF Absent
<1>5. \A f \in Names : ~folder[f].dir => ~folder[f].hasDb /\ folder[f].db = {}
                                          /\ folder[f].meta = NoMeta
  BY <1>4 DEF Types
<1> QED BY <1>1, <1>2, <1>3, <1>5

LEMMA UnlinkItemsFacts ==
    ASSUME Types, NEW f, items' = Unlink(f, items)
    PROVE  ItemsUnlinked(f)
<1> SUFFICES ASSUME NEW j \in items'
             PROVE  \E i \in items :
                      /\ j.name = i.name /\ j.live = i.live /\ j.key = i.key /\ j.known = i.known
                      /\ j.linked <=> i.linked /\ i.name # f
  BY DEF ItemsUnlinked
<1>1. PICK i \in items : j = [i EXCEPT !.linked = i.linked /\ i.name # f]
  BY DEF Unlink
<1>2. i \in ItemRec
  BY Records
<1>3. /\ j.name = i.name /\ j.live = i.live /\ j.key = i.key /\ j.known = i.known
      /\ j.linked <=> i.linked /\ i.name # f
  BY <1>1, <1>2 DEF ItemRec
<1> QED BY <1>3

LEMMA UnlinkOpenersFacts ==
    ASSUME Types, NEW f, opener' = UnlinkOpeners(f)
    PROVE  OpenersUnlinked(f)
<1>1. ASSUME NEW v \in Openers
      PROVE  /\ SameTarget(opener'[v], opener[v])
             /\ opener'[v].pc = opener[v].pc /\ opener'[v].reuse = opener[v].reuse
             /\ opener'[v].linked <=> opener[v].linked /\ opener[v].name # f
  <2>1. opener'[v] = [opener[v] EXCEPT !.linked = @ /\ opener[v].name # f]
    BY DEF UnlinkOpeners
  <2>2. opener[v] \in OpenerRec
    BY Records
  <2> QED BY <2>1, <2>2 DEF OpenerRec, SameTarget
<1> QED BY <1>1 DEF OpenersUnlinked

LEMMA AgeFacts ==
    ASSUME Types, Age
    PROVE  FoldersSame /\ UNCHANGED <<alive, spawned, trash, running, opener, items, job, raced,
                                      overwritten, answer>>
<1>1. ASSUME NEW f \in Names PROVE SameData(folder'[f], folder[f]) /\ folder'[f].dir = folder[f].dir
  <2>1. folder'[f] = [folder[f] EXCEPT !.old = folder[f].dir] /\ folder[f] \in FolderRec
    BY Records DEF Age
  <2> QED BY <2>1 DEF FolderRec, SameData
<1> QED BY <1>1 DEF Age, FoldersSame, history, pids

LEMMA BeginOpenFacts ==
    ASSUME Types, NEW o \in Openers, BeginOpen(o)
    PROVE  /\ opener[o].pc = "idle" /\ running = "up" /\ alive = spawned /\ alive \in Procs
           /\ LET q == opener'[o] IN
                /\ q.pc = "find" /\ q.live /\ q.key = alive /\ ~q.reuse /\ ~q.linked /\ q.name = Plain
                /\ q.over => q.key \in overwritten'
           /\ overwritten \subseteq overwritten' /\ Others(o)
           /\ UNCHANGED <<alive, spawned, folder, trash, running, items, job, raced, answer>>
<1>1. alive = spawned /\ alive \in Procs
  BY DEF BeginOpen, Types
<1>2. PICK known \in BOOLEAN, over \in BOOLEAN :
        /\ opener' = [opener EXCEPT ![o] =
                         [Idle EXCEPT !.pc = "find", !.key = alive, !.known = known, !.over = over]]
        /\ overwritten' = IF over THEN overwritten \cup {alive} ELSE overwritten
  BY ConstFacts DEF BeginOpen
<1>3. opener'[o] = [Idle EXCEPT !.pc = "find", !.key = alive, !.known = known, !.over = over]
      /\ Others(o)
  BY <1>2 DEF Types, Others
<1>4. LET q == opener'[o] IN
        /\ q.pc = "find" /\ q.live /\ q.key = alive /\ ~q.reuse /\ ~q.linked /\ q.name = Plain
        /\ q.over = over
  BY <1>3 DEF Idle
<1>5. overwritten \subseteq overwritten' /\ (opener'[o].over => alive \in overwritten')
  BY <1>2, <1>4
<1> QED BY <1>1, <1>3, <1>4, <1>5 DEF BeginOpen, pids, disk

LEMMA FindFacts ==
    ASSUME Types, NEW o \in Openers, Find(o)
    PROVE  /\ opener[o].pc = "find" /\ opener'[o].pc = "mkdir" /\ opener[o].key \in Procs
           /\ LET q == opener[o]
                  r == opener'[o]
              IN  /\ r.live = q.live /\ r.key = q.key /\ r.known = q.known /\ r.over = q.over
                  /\ r.reuse = q.reuse /\ r.linked = q.linked
                  /\ \/ ~q.known /\ r.name = Plain
                     \/ q.known /\ r.name \in FindProcFolderByStart(q.key)
                     \/ /\ q.known /\ r.name \in NamesOf[q.key]
                        /\ q.over \/ FindProcFolderByStart(q.key) = {}
           /\ Others(o)
           /\ UNCHANGED <<alive, spawned, folder, trash, running, items, job, raced, overwritten,
                          answer>>
<1>1. PICK f : /\ opener' = [opener EXCEPT ![o].pc = "mkdir", ![o].name = f]
               /\ f \in IF ~opener[o].known THEN {Plain}
                        ELSE IF ~opener[o].over /\ FindProcFolderByStart(opener[o].key) # {}
                          THEN FindProcFolderByStart(opener[o].key) ELSE NamesOf[opener[o].key]
  BY DEF Find
<1>2. opener[o] \in OpenerRec /\ opener[o].pc = "find"
  BY Records DEF Find
<1>3. opener'[o] = [opener[o] EXCEPT !.pc = "mkdir", !.name = f] /\ Others(o)
  BY <1>1 DEF Types, Others
<1>4. LET q == opener[o]
          r == opener'[o]
      IN  /\ r.live = q.live /\ r.key = q.key /\ r.known = q.known /\ r.over = q.over
          /\ r.reuse = q.reuse /\ r.linked = q.linked /\ r.name = f /\ r.pc = "mkdir"
          /\ q.key \in Procs
  BY <1>2, <1>3 DEF OpenerRec
<1> QED BY <1>1, <1>2, <1>3, <1>4 DEF Find, pids, disk, history

LEMMA MkdirFacts ==
    ASSUME Types, NEW o \in Openers, Mkdir(o)
    PROVE  /\ opener[o].pc = "mkdir" /\ opener'[o].pc = "test"
           /\ SameTarget(opener'[o], opener[o]) /\ opener'[o].reuse = opener[o].reuse
           /\ opener'[o].linked = opener[o].linked /\ Others(o)
           /\ OtherFolders(opener[o].name)
           /\ SameData(folder'[opener[o].name], folder[opener[o].name])
           /\ UNCHANGED <<alive, spawned, trash, running, items, job, raced, overwritten, answer>>
<1> DEFINE f == opener[o].name
<1>1. opener[o] \in OpenerRec /\ f \in Names /\ folder[f] \in FolderRec
  BY Records
<1>2. /\ opener'[o] = [opener[o] EXCEPT !.pc = "test"] /\ Others(o)
      /\ folder'[f] = [folder[f] EXCEPT !.dir = TRUE, !.old = FALSE] /\ OtherFolders(f)
  BY <1>1 DEF Mkdir, Others, OtherFolders, Types
<1>3. /\ opener'[o].pc = "test" /\ SameTarget(opener'[o], opener[o])
      /\ opener'[o].reuse = opener[o].reuse /\ opener'[o].linked = opener[o].linked
  BY <1>1, <1>2 DEF OpenerRec, SameTarget
<1>4. SameData(folder'[f], folder[f])
  BY <1>1, <1>2 DEF FolderRec, SameData
<1> QED BY <1>2, <1>3, <1>4 DEF Mkdir, pids, history

LEMMA TestFacts ==
    ASSUME Types, NEW o \in Openers, Test(o)
    PROVE  /\ opener[o].pc = "test" /\ opener'[o].pc = "reinit"
           /\ SameTarget(opener'[o], opener[o]) /\ opener'[o].linked = opener[o].linked
           /\ opener'[o].reuse =>
                /\ opener[o].known /\ folder[opener[o].name].hasDb
                /\ folder[opener[o].name].meta = opener[o].key
           /\ Others(o) /\ FoldersSame
           /\ UNCHANGED <<alive, spawned, trash, running, items, job, raced, overwritten, answer>>
<1> DEFINE f == opener[o].name
           b == ~opener[o].over /\ opener[o].known /\ folder[f].hasDb
                  /\ folder[f].meta = opener[o].key
<1>1. opener[o] \in OpenerRec /\ f \in Names /\ folder[f] \in FolderRec
  BY Records
<1>2. /\ opener'[o] = [opener[o] EXCEPT !.pc = "reinit", !.reuse = b] /\ Others(o)
      /\ folder'[f] = [folder[f] EXCEPT !.old = FALSE] /\ OtherFolders(f)
  BY <1>1 DEF Test, Others, OtherFolders, Types
<1>3. /\ opener'[o].pc = "reinit" /\ SameTarget(opener'[o], opener[o])
      /\ opener'[o].reuse = b /\ opener'[o].linked = opener[o].linked
  BY <1>1, <1>2 DEF OpenerRec, SameTarget
<1>4. FoldersSame
  <2>1. SameData(folder'[f], folder[f]) /\ folder'[f].dir = folder[f].dir
    BY <1>1, <1>2 DEF FolderRec, SameData
  <2> QED BY <1>2, <2>1 DEF OtherFolders, FoldersSame, SameData
<1> QED BY <1>2, <1>3, <1>4 DEF Test, pids, history

LEMMA ReinitFacts ==
    ASSUME Types, NEW o \in Openers, Reinit(o)
    PROVE  /\ opener[o].pc = "reinit"
           /\ UNCHANGED <<alive, spawned, trash, running, job, raced, overwritten, answer>>
           /\ \/ /\ ~folder[opener[o].name].dir
                 /\ \/ /\ opener[o].live /\ opener'[o].pc = "register"
                       /\ SameTarget(opener'[o], opener[o])
                       /\ opener'[o].reuse = opener[o].reuse /\ opener'[o].linked = opener[o].linked
                    \/ opener'[o] = Idle
                 /\ Others(o) /\ UNCHANGED <<folder, items>>
              \/ /\ folder[opener[o].name].dir /\ opener[o].reuse /\ folder[opener[o].name].hasDb
                 /\ opener'[o].pc = "meta" /\ opener'[o].linked /\ SameTarget(opener'[o], opener[o])
                 /\ opener'[o].reuse = opener[o].reuse
                 /\ Others(o) /\ UNCHANGED <<folder, items>>
              \/ /\ folder[opener[o].name].dir
                 /\ ~(opener[o].reuse /\ folder[opener[o].name].hasDb)
                 /\ opener'[o].pc = "meta" /\ opener'[o].linked /\ SameTarget(opener'[o], opener[o])
                 /\ opener'[o].reuse = opener[o].reuse
                 /\ \A v \in Openers \ {o} :
                      /\ SameTarget(opener'[v], opener[v])
                      /\ opener'[v].pc = opener[v].pc /\ opener'[v].reuse = opener[v].reuse
                      /\ opener'[v].linked <=> opener[v].linked /\ opener[v].name # opener[o].name
                 /\ OtherFolders(opener[o].name)
                 /\ LET d == folder'[opener[o].name] IN
                      /\ d.hasDb /\ d.db = {} /\ d.meta = folder[opener[o].name].meta /\ d.dir
                 /\ ItemsUnlinked(opener[o].name)
<1> DEFINE f == opener[o].name
<1>1. opener[o] \in OpenerRec /\ f \in Names /\ folder[f] \in FolderRec
  BY Records
<1>2. /\ opener[o].pc = "reinit"
      /\ UNCHANGED <<alive, spawned, trash, running, job, raced, overwritten, answer>>
  BY DEF Reinit, pids, history
<1>3. CASE ~folder[f].dir
  <2>1. UNCHANGED <<folder, items>>
        /\ opener' = IF opener[o].live THEN [opener EXCEPT ![o].pc = "register"]
                           ELSE [opener EXCEPT ![o] = Idle]
    BY <1>3 DEF Reinit
  <2>2. Others(o) /\ opener'[o] = IF opener[o].live THEN [opener[o] EXCEPT !.pc = "register"] ELSE Idle
    BY <2>1 DEF Types, Others
  <2>3. \/ /\ opener[o].live /\ opener'[o].pc = "register" /\ SameTarget(opener'[o], opener[o])
           /\ opener'[o].reuse = opener[o].reuse /\ opener'[o].linked = opener[o].linked
        \/ opener'[o] = Idle
    BY <1>1, <2>2 DEF OpenerRec, SameTarget
  <2> QED BY <1>2, <1>3, <2>1, <2>2, <2>3
<1>4. CASE folder[f].dir /\ opener[o].reuse /\ folder[f].hasDb
  <2>1. /\ UNCHANGED <<folder, items>>
        /\ opener' = [opener EXCEPT ![o].pc = "meta", ![o].linked = TRUE]
    BY <1>4 DEF Reinit
  <2>2. Others(o) /\ opener'[o] = [opener[o] EXCEPT !.pc = "meta", !.linked = TRUE]
    BY <2>1 DEF Types, Others
  <2>3. /\ opener'[o].pc = "meta" /\ opener'[o].linked /\ SameTarget(opener'[o], opener[o])
        /\ opener'[o].reuse = opener[o].reuse
    BY <1>1, <2>2 DEF OpenerRec, SameTarget
  <2> QED BY <1>2, <1>4, <2>1, <2>2, <2>3
<1>5. CASE folder[f].dir /\ ~(opener[o].reuse /\ folder[f].hasDb)
  <2> DEFINE U == UnlinkOpeners(f)
  <2>1. /\ folder' = [folder EXCEPT ![f].hasDb = TRUE, ![f].db = {}, ![f].old = FALSE]
        /\ items' = Unlink(f, items)
        /\ opener' = [U EXCEPT ![o].pc = "meta", ![o].linked = TRUE]
    BY <1>5 DEF Reinit
  <2>2. /\ U \in [Openers -> OpenerRec]
        /\ \A v \in Openers : U[v] = [opener[v] EXCEPT !.linked = @ /\ opener[v].name # f]
    BY UnlinkOpenerTypes DEF Types, UnlinkOpeners
  <2> HIDE DEF U
  <2>3. /\ opener'[o] = [U[o] EXCEPT !.pc = "meta", !.linked = TRUE]
        /\ \A v \in Openers \ {o} : opener'[v] = U[v]
    BY <2>1, <2>2
  <2>4. ASSUME NEW v \in Openers
        PROVE  /\ SameTarget(U[v], opener[v]) /\ U[v].reuse = opener[v].reuse
               /\ U[v].pc = opener[v].pc /\ (U[v].linked <=> opener[v].linked /\ opener[v].name # f)
    <3>1. opener[v] \in OpenerRec
      BY Records
    <3> QED BY <2>2, <3>1 DEF OpenerRec, SameTarget
  <2>5. /\ opener'[o].pc = "meta" /\ opener'[o].linked /\ SameTarget(opener'[o], U[o])
        /\ opener'[o].reuse = U[o].reuse
    <3>1. U[o] \in OpenerRec
      BY <2>2
    <3> QED BY <2>3, <3>1 DEF OpenerRec, SameTarget
  <2>6. SameTarget(opener'[o], opener[o]) /\ opener'[o].reuse = opener[o].reuse
    BY <2>4, <2>5 DEF SameTarget
  <2>7. \A v \in Openers \ {o} :
          /\ SameTarget(opener'[v], opener[v])
          /\ opener'[v].pc = opener[v].pc /\ opener'[v].reuse = opener[v].reuse
          /\ opener'[v].linked <=> opener[v].linked /\ opener[v].name # f
    BY <2>3, <2>4
  <2>8. /\ folder'[f] = [folder[f] EXCEPT !.hasDb = TRUE, !.db = {}, !.old = FALSE]
        /\ OtherFolders(f)
    BY <1>1, <2>1 DEF Types, OtherFolders
  <2>9. /\ folder'[f].hasDb /\ folder'[f].db = {} /\ folder'[f].meta = folder[f].meta
        /\ folder'[f].dir
    BY <1>1, <1>5, <2>8 DEF FolderRec
  <2>10. ItemsUnlinked(f)
    BY <2>1, UnlinkItemsFacts
  <2> QED BY <1>2, <1>5, <2>5, <2>6, <2>7, <2>8, <2>9, <2>10
<1> QED BY <1>3, <1>4, <1>5

LEMMA WriteFolderMetaFacts ==
    ASSUME Types, NEW o \in Openers, WriteFolderMeta(o)
    PROVE  /\ opener[o].pc = "meta" /\ opener'[o].pc = "register"
           /\ SameTarget(opener'[o], opener[o]) /\ opener'[o].reuse = opener[o].reuse
           /\ opener'[o].linked => opener[o].linked
           /\ Others(o)
           /\ UNCHANGED <<alive, spawned, trash, running, items, job, raced, overwritten, answer>>
           /\ \/ opener[o].reuse /\ UNCHANGED folder /\ opener'[o].linked = opener[o].linked
              \/ ~folder[opener[o].name].dir /\ UNCHANGED folder
              \/ /\ ~opener[o].reuse /\ folder[opener[o].name].dir
                 /\ opener'[o].linked = opener[o].linked
                 /\ LET d == folder'[opener[o].name] IN
                      /\ d.meta = IF opener[o].known THEN opener[o].key ELSE NoKey
                      /\ d.hasDb = folder[opener[o].name].hasDb
                      /\ d.db = folder[opener[o].name].db /\ d.dir
                 /\ OtherFolders(opener[o].name)
<1> DEFINE f == opener[o].name
           m == IF opener[o].known THEN opener[o].key ELSE NoKey
<1>1. opener[o] \in OpenerRec /\ f \in Names /\ folder[f] \in FolderRec
  BY Records
<1>2. UNCHANGED <<alive, spawned, trash, running, items, job, raced, overwritten, answer>>
      /\ opener[o].pc = "meta"
  BY DEF WriteFolderMeta, pids, history
<1>3. /\ Others(o)
      /\ \/ opener'[o] = [opener[o] EXCEPT !.pc = "register"]
         \/ opener'[o] = [opener[o] EXCEPT !.pc = "register", !.linked = FALSE]
      /\ opener[o].reuse \/ folder[f].dir => opener'[o] = [opener[o] EXCEPT !.pc = "register"]
  BY DEF WriteFolderMeta, Types, Others
<1>4. /\ opener'[o].pc = "register" /\ SameTarget(opener'[o], opener[o])
      /\ opener'[o].reuse = opener[o].reuse /\ (opener'[o].linked => opener[o].linked)
      /\ opener[o].reuse \/ folder[f].dir => opener'[o].linked = opener[o].linked
  BY <1>1, <1>3 DEF OpenerRec, SameTarget
<1>5. CASE opener[o].reuse \/ ~folder[f].dir
  <2>1. UNCHANGED folder
    BY <1>5 DEF WriteFolderMeta
  <2> QED BY <1>2, <1>3, <1>4, <1>5, <2>1
<1>6. CASE ~opener[o].reuse /\ folder[f].dir
  <2>1. folder'[f] = [folder[f] EXCEPT !.meta = m, !.old = FALSE] /\ OtherFolders(f)
    BY <1>1, <1>6 DEF WriteFolderMeta, Types, OtherFolders
  <2> HIDE DEF m
  <2>2. /\ folder'[f].meta = m /\ folder'[f].hasDb = folder[f].hasDb
        /\ folder'[f].db = folder[f].db /\ folder'[f].dir
    BY <1>1, <1>6, <2>1 DEF FolderRec
  <2> QED BY <1>2, <1>3, <1>4, <1>6, <2>1, <2>2 DEF m
<1> QED BY <1>5, <1>6

LEMMA RegisterFacts ==
    ASSUME Types, NEW o \in Openers, Register(o)
    PROVE  /\ opener[o].pc = "register" /\ opener'[o] = Idle /\ Others(o)
           /\ \A j \in items' : \/ j \in items
                                \/ /\ j.name = opener[o].name /\ j.live = opener[o].live
                                   /\ j.key = opener[o].key /\ j.known = opener[o].known
                                   /\ j.linked = opener[o].linked
           /\ UNCHANGED <<alive, spawned, folder, trash, running, job, raced, overwritten, answer>>
BY DEF Register, Types, Others, pids, disk, history

LEMMA OpenSavedFacts ==
    ASSUME Types, NEW o \in Openers, NEW f \in Names, OpenSaved(o, f)
    PROVE  /\ running = "up" /\ opener[o].pc = "idle" /\ Others(o)
           /\ folder[f].dir /\ folder[f].hasDb /\ folder[f].meta # NoMeta
           /\ \A i \in items : i.name # f
           /\ LET q == opener'[o] IN
                /\ q.pc = "reinit" /\ ~q.live /\ q.name = f /\ q.key = folder[f].meta
                /\ q.known <=> folder[f].meta # NoKey
                /\ q.reuse /\ ~q.linked
           /\ UNCHANGED <<alive, spawned, folder, trash, running, items, job, raced, overwritten,
                          answer>>
<1>1. /\ opener'[o] = [Idle EXCEPT !.pc = "reinit", !.live = FALSE, !.name = f,
                                   !.key = folder[f].meta, !.known = folder[f].meta # NoKey,
                                   !.reuse = TRUE]
      /\ Others(o)
  BY DEF OpenSaved, Types, Others
<1>2. LET q == opener'[o] IN
        /\ q.pc = "reinit" /\ ~q.live /\ q.name = f /\ q.key = folder[f].meta
        /\ q.known <=> folder[f].meta # NoKey
        /\ q.reuse /\ ~q.linked
  BY <1>1 DEF Idle
<1> QED BY <1>1, <1>2 DEF OpenSaved, pids, disk, history

LEMMA WriteFacts ==
    ASSUME Types, NEW i \in items, Write(i)
    PROVE  /\ i.linked /\ OtherFolders(i.name)
           /\ LET d == folder'[i.name] IN
                /\ d.hasDb = folder[i.name].hasDb /\ d.meta = folder[i.name].meta
                /\ d.dir = folder[i.name].dir
                /\ d.db = folder[i.name].db \cup ({i.key} \cap Procs)
           /\ UNCHANGED <<alive, spawned, trash, running, opener, items, job, raced, overwritten,
                          answer>>
<1> DEFINE f == i.name
           D == folder[f].db \cup ({i.key} \cap Procs)
<1>1. f \in Names /\ folder[f] \in FolderRec
  BY Records
<1>2. folder'[f] = [folder[f] EXCEPT !.db = D, !.old = FALSE] /\ OtherFolders(f)
  BY <1>1 DEF Write, Types, OtherFolders
<1> HIDE DEF D
<1>3. /\ folder'[f].hasDb = folder[f].hasDb /\ folder'[f].meta = folder[f].meta
      /\ folder'[f].dir = folder[f].dir /\ folder'[f].db = D
  BY <1>1, <1>2 DEF FolderRec
<1> QED BY <1>2, <1>3 DEF Write, D, pids, history

LEMMA SaveEvidenceFacts ==
    ASSUME Types, NEW i \in items, SaveEvidence(i)
    PROVE  /\ i.live /\ OtherFolders(i.name)
           /\ SameData(folder'[i.name], folder[i.name])
           /\ UNCHANGED <<alive, spawned, trash, running, opener, items, job, raced, overwritten,
                          answer>>
<1> DEFINE f == i.name
<1>1. f \in Names /\ folder[f] \in FolderRec
  BY Records
<1>2. /\ folder'[f] = [folder[f] EXCEPT !.dir = TRUE, !.ev = TRUE, !.old = FALSE]
      /\ OtherFolders(f)
  BY <1>1 DEF SaveEvidence, Types, OtherFolders
<1>3. SameData(folder'[f], folder[f])
  BY <1>1, <1>2 DEF FolderRec, SameData
<1> QED BY <1>2, <1>3 DEF SaveEvidence, pids, history

LEMMA AnswerWriteFacts ==
    ASSUME Types, NEW a \in answer, AnswerWrite(a)
    PROVE  /\ a.name \in Names /\ a.meta \in Keys /\ answer' = {}
           /\ UNCHANGED <<alive, spawned, trash, running, opener, items, job, overwritten>>
           /\ \/ UNCHANGED <<folder, raced>>
              \/ /\ folder[a.name].dir /\ OtherFolders(a.name)
                 /\ LET d == folder'[a.name] IN
                      /\ d.hasDb = folder[a.name].hasDb /\ d.meta = a.meta
                      /\ d.dir /\ d.db = folder[a.name].db
                 /\ \/ folder[a.name].meta = a.meta /\ raced' = raced
                    \/ folder[a.name].meta # a.meta /\ raced' = raced \cup {a.name}
<1> DEFINE f == a.name
<1>1. f \in Names /\ folder[f] \in FolderRec /\ a.meta \in Keys
  BY Records
<1>2. /\ answer' = {}
      /\ UNCHANGED <<alive, spawned, trash, running, opener, items, job, overwritten>>
  BY DEF AnswerWrite, pids
<1>3. CASE ~folder[f].dir
  BY <1>1, <1>2, <1>3 DEF AnswerWrite
<1>4. CASE folder[f].dir
  <2>1. /\ folder'[f] = [folder[f] EXCEPT !.meta = a.meta, !.old = FALSE] /\ OtherFolders(f)
        /\ \/ folder[f].meta = a.meta /\ raced' = raced
           \/ folder[f].meta # a.meta /\ raced' = raced \cup {f}
    BY <1>1, <1>4 DEF AnswerWrite, Types, OtherFolders
  <2>2. /\ folder'[f].hasDb = folder[f].hasDb /\ folder'[f].meta = a.meta
        /\ folder'[f].dir /\ folder'[f].db = folder[f].db
    BY <1>1, <1>4, <2>1 DEF FolderRec
  <2> QED BY <1>1, <1>2, <1>4, <2>1, <2>2
<1> QED BY <1>3, <1>4

LEMMA RenameFacts ==
    ASSUME Types, NEW e \in Entry, Rename(e)
    PROVE  /\ UNCHANGED <<alive, spawned, running, raced, overwritten, answer>>
           /\ e.name \in Names
           /\ \/ UNCHANGED <<folder, trash, items, opener>>
              \/ /\ ItemsUnlinked(e.name) /\ OpenersUnlinked(e.name) /\ OtherFolders(e.name)
                 /\ LET d == folder'[e.name] IN
                      ~d.dir /\ ~d.hasDb /\ d.db = {} /\ d.meta = NoMeta
                 /\ trash' = [trash EXCEPT ![e.name] = "full"]
                 /\ items = {} => items' = {}
                 /\ job' = [job EXCEPT !.cur = {e}]
<1>1. e.name \in Names
  BY DEF Entry
<1>2. UNCHANGED <<alive, spawned, running, raced, overwritten, answer>>
  BY DEF Rename, pids, history
<1>3. CASE UNCHANGED <<disk, items, opener>>
  BY <1>1, <1>2, <1>3 DEF disk
<1>4. CASE /\ trash' = [trash EXCEPT ![e.name] = "full"]
           /\ folder' = [folder EXCEPT ![e.name] = Absent]
           /\ items' = Unlink(e.name, items) /\ opener' = UnlinkOpeners(e.name)
           /\ job' = [job EXCEPT !.cur = {e}]
  <2>1. folder'[e.name] = Absent /\ OtherFolders(e.name)
    BY <1>1, <1>4 DEF Types, OtherFolders
  <2>2. LET d == folder'[e.name] IN ~d.dir /\ ~d.hasDb /\ d.db = {} /\ d.meta = NoMeta
    BY <2>1 DEF Absent
  <2>3. items = {} => items' = {}
    BY <1>4 DEF Unlink
  <2> QED BY <1>1, <1>2, <1>4, <2>1, <2>2, <2>3, UnlinkItemsFacts, UnlinkOpenersFacts
<1> QED BY <1>3, <1>4 DEF Rename

-----------------------------------------------------------------------------
(* The database that is open, and the sweep of the start.                   *)

LEMMA LinkStep == Types /\ LinkInv /\ [Next]_vars => LinkInv'
<1> SUFFICES ASSUME Types, LinkInv, [Next]_vars PROVE LinkInv'
  OBVIOUS
<1>0. /\ \A o \in Openers : opener[o].name \in Names
      /\ \A i \in items : i.name \in Names
  BY Records
<1>idle. ~Idle.linked
  BY DEF Idle
<1>1. CASE UNCHANGED <<folder, opener, items>>
  BY <1>1 DEF LinkInv
<1>2. CASE Age
  <2>1. FoldersSame /\ UNCHANGED <<opener, items>>
    BY <1>2, AgeFacts
  <2> QED BY <1>0, <2>1 DEF FoldersSame, SameData, LinkInv
<1>3. CASE Crash
  BY <1>3, <1>idle DEF Crash, LinkInv
<1>4. ASSUME NEW o \in Openers, BeginOpen(o) PROVE LinkInv'
  <2>1. ~opener'[o].linked /\ Others(o) /\ UNCHANGED <<folder, items>>
    BY <1>4, BeginOpenFacts
  <2> QED BY <2>1 DEF Others, LinkInv
<1>5. ASSUME NEW o \in Openers, Find(o) PROVE LinkInv'
  <2>1. /\ opener[o].pc = "find" /\ opener'[o].linked = opener[o].linked /\ Others(o)
        /\ UNCHANGED <<folder, items>>
    BY <1>5, FindFacts
  <2> QED BY <2>1 DEF Others, LinkInv
<1>6. ASSUME NEW o \in Openers, Mkdir(o) PROVE LinkInv'
  <2>1. /\ opener[o].pc = "mkdir" /\ opener'[o].linked = opener[o].linked /\ Others(o)
        /\ OtherFolders(opener[o].name) /\ UNCHANGED items
        /\ SameData(folder'[opener[o].name], folder[opener[o].name])
    BY <1>6, MkdirFacts
  <2>2. \A f \in Names : folder[f].hasDb => folder'[f].hasDb
    BY <2>1 DEF OtherFolders, SameData
  <2> QED BY <1>0, <2>1, <2>2 DEF Others, LinkInv
<1>7. ASSUME NEW o \in Openers, Test(o) PROVE LinkInv'
  <2>1. /\ opener[o].pc = "test" /\ opener'[o].linked = opener[o].linked /\ Others(o)
        /\ FoldersSame /\ UNCHANGED items
    BY <1>7, TestFacts
  <2> QED BY <1>0, <2>1 DEF FoldersSame, SameData, Others, LinkInv
<1>8. ASSUME NEW o \in Openers, Reinit(o) PROVE LinkInv'
  <2> DEFINE f == opener[o].name
  <2>1. \/ /\ opener[o].pc = "reinit" /\ Others(o) /\ UNCHANGED <<folder, items>>
           /\ \/ opener'[o].linked = opener[o].linked \/ opener'[o] = Idle
              \/ opener'[o].pc = "meta" /\ opener'[o].name = f /\ folder[f].hasDb
        \/ /\ opener'[o].pc = "meta" /\ opener'[o].name = f /\ folder'[f].hasDb
           /\ \A v \in Openers \ {o} :
                /\ opener'[v].pc = opener[v].pc /\ opener'[v].name = opener[v].name
                /\ opener'[v].linked <=> opener[v].linked /\ opener[v].name # f
           /\ OtherFolders(f) /\ ItemsUnlinked(f)
    BY <1>8, ReinitFacts DEF SameTarget
  <2> HIDE DEF f
  <2> QED BY <1>0, <1>idle, <2>1 DEF Others, OtherFolders, ItemsUnlinked, LinkInv
<1>9. ASSUME NEW o \in Openers, WriteFolderMeta(o) PROVE LinkInv'
  <2>1. /\ opener'[o].pc = "register" /\ (opener'[o].linked => opener[o].linked)
        /\ opener'[o].name = opener[o].name /\ Others(o) /\ UNCHANGED items
        /\ \A f \in Names : folder[f].hasDb => folder'[f].hasDb
    BY <1>9, WriteFolderMetaFacts DEF SameTarget, OtherFolders
  <2> QED BY <1>0, <2>1 DEF Others, LinkInv
<1>10. ASSUME NEW o \in Openers, Register(o) PROVE LinkInv'
  <2>1. /\ opener'[o] = Idle /\ Others(o) /\ UNCHANGED folder
        /\ \A j \in items' : \/ j \in items
                             \/ j.name = opener[o].name /\ j.linked = opener[o].linked
    BY <1>10, RegisterFacts
  <2> QED BY <1>idle, <2>1 DEF Others, LinkInv
<1>11. ASSUME NEW o \in Openers, NEW f \in Names, OpenSaved(o, f) PROVE LinkInv'
  <2>1. ~opener'[o].linked /\ Others(o) /\ UNCHANGED <<folder, items>>
    BY <1>11, OpenSavedFacts
  <2> QED BY <2>1 DEF Others, LinkInv
<1>12. ASSUME NEW i \in items, Write(i) PROVE LinkInv'
  <2>1. /\ OtherFolders(i.name) /\ folder'[i.name].hasDb = folder[i.name].hasDb
        /\ UNCHANGED <<opener, items>>
    BY <1>12, WriteFacts
  <2>2. \A f \in Names : folder[f].hasDb => folder'[f].hasDb
    BY <2>1 DEF OtherFolders
  <2> QED BY <1>0, <2>1, <2>2 DEF LinkInv
<1>13. ASSUME NEW i \in items, SaveEvidence(i) PROVE LinkInv'
  <2>1. /\ OtherFolders(i.name) /\ SameData(folder'[i.name], folder[i.name])
        /\ UNCHANGED <<opener, items>>
    BY <1>13, SaveEvidenceFacts
  <2>2. \A f \in Names : folder[f].hasDb => folder'[f].hasDb
    BY <2>1 DEF OtherFolders, SameData
  <2> QED BY <1>0, <2>1, <2>2 DEF LinkInv
<1>14. ASSUME NEW i \in items, CloseItem(i) PROVE LinkInv'
  BY <1>14 DEF CloseItem, disk, LinkInv
<1>15. ASSUME NEW a \in answer, AnswerWrite(a) PROVE LinkInv'
  <2>1. UNCHANGED <<opener, items>> /\ \A f \in Names : folder[f].hasDb => folder'[f].hasDb
    BY <1>15, AnswerWriteFacts DEF OtherFolders
  <2> QED BY <1>0, <2>1 DEF LinkInv
<1>16. ASSUME NEW e \in Entry, Rename(e) PROVE LinkInv'
  <2>1. CASE UNCHANGED <<folder, items, opener>>
    BY <2>1 DEF LinkInv
  <2>2. CASE ItemsUnlinked(e.name) /\ OpenersUnlinked(e.name) /\ OtherFolders(e.name)
    BY <1>0, <2>2 DEF ItemsUnlinked, OpenersUnlinked, OtherFolders, SameTarget, LinkInv
  <2> QED BY <1>16, <2>1, <2>2, RenameFacts
<1>17. CASE Spawn \/ Exit \/ Start \/ BeginCleanup \/ SelectCleanup \/ SelectDelete \/ SweepEnd
  BY <1>17, <1>1 DEF Spawn, Exit, Start, BeginCleanup, SelectCleanup, SelectDelete, SweepEnd, disk
<1>18. ASSUME NEW f \in Names, BeginDelete(f) PROVE LinkInv'
  BY <1>18, <1>1 DEF BeginDelete, disk
<1>19. ASSUME NEW e \in Entry, RemoveAll(e) PROVE LinkInv'
  BY <1>19, <1>1 DEF RemoveAll
<1>20. ASSUME NEW i \in items, AnswerRead(i) PROVE LinkInv'
  BY <1>20, <1>1 DEF AnswerRead, disk
<1>21. CASE UNCHANGED vars
  BY <1>1, <1>21 DEF vars
<1> QED BY <1>2, <1>3, <1>4, <1>5, <1>6, <1>7, <1>8, <1>9, <1>10, <1>11, <1>12, <1>13, <1>14, <1>15,
           <1>16, <1>17, <1>18, <1>19, <1>20, <1>21 DEF Next

\* A step of an Orthia that is up leaves it up, with the sweep it has.
LEMMA SweepAside ==
    ASSUME SweepInv, running = "up", UNCHANGED <<running, job>>
    PROVE  SweepInv'
BY DEF SweepInv

\* A step of the pid or of the disk.
LEMMA SweepSame ==
    ASSUME SweepInv, UNCHANGED <<running, job, opener, items, trash>>
    PROVE  SweepInv'
BY DEF SweepInv

LEMMA SweepStep == Types /\ SweepInv /\ [Next]_vars => SweepInv'
<1> SUFFICES ASSUME Types, SweepInv, [Next]_vars PROVE SweepInv'
  OBVIOUS
<1>idle. Idle.pc = "idle" /\ NoJob.cur = {} /\ NoJob.todo = {} /\ NoJob.pc = "idle"
  BY DEF Idle, NoJob
<1>job. job \in JobRec
  BY DEF Types
<1>1. CASE UNCHANGED vars \/ Spawn \/ Exit \/ Age
  <2>1. UNCHANGED <<running, job, opener, items, trash>>
    BY <1>1 DEF vars, Spawn, Exit, Age, disk
  <2> QED BY <2>1, SweepSame
<1>2. CASE Crash
  BY <1>2, <1>idle DEF Crash, SweepInv
<1>3. ASSUME NEW o \in Openers,
             \/ BeginOpen(o) \/ Find(o) \/ Mkdir(o) \/ Test(o) \/ Reinit(o) \/ WriteFolderMeta(o)
             \/ Register(o) \/ \E f \in Names : OpenSaved(o, f)
      PROVE  SweepInv'
  <2>1. UNCHANGED <<running, job>>
    BY <1>3 DEF BeginOpen, Find, Mkdir, Test, Reinit, WriteFolderMeta, Register, OpenSaved
  <2>2. running = "up"
    BY <1>3 DEF BeginOpen, Find, Mkdir, Test, Reinit, WriteFolderMeta, Register, OpenSaved, SweepInv
  <2> QED BY <2>1, <2>2, SweepAside
<1>4. ASSUME NEW i \in items, Write(i) \/ SaveEvidence(i) \/ AnswerRead(i) \/ CloseItem(i)
      PROVE  SweepInv'
  <2>1. UNCHANGED <<running, job>> /\ running = "up"
    BY <1>4 DEF Write, SaveEvidence, AnswerRead, CloseItem, SweepInv
  <2> QED BY <2>1, SweepAside
<1>5. ASSUME NEW a \in answer, AnswerWrite(a) PROVE SweepInv'
  <2>1. UNCHANGED <<running, job, opener, items, trash>>
    BY <1>5 DEF AnswerWrite
  <2> QED BY <2>1, SweepSame
<1>6. CASE Start
  <2>1. /\ job' = [NoJob EXCEPT !.pc = "sweep", !.kind = "start", !.todo = Expired]
        /\ running = "down" /\ UNCHANGED <<opener, items, trash>>
    BY <1>6 DEF Start, disk
  <2>2. job'.cur = {} /\ job'.todo = Expired
    BY <2>1 DEF NoJob
  <2>3. ASSUME NEW f \in Names, trash[f] # "none"
        PROVE  \E e \in Expired : e.name = f /\ e.pending
    <3>1. PendingEntry(f) \in Expired
      BY <2>3 DEF Expired, Pending
    <3>2. PendingEntry(f).name = f /\ PendingEntry(f).pending
      BY DEF PendingEntry
    <3> QED BY <3>1, <3>2
  <2> QED BY <2>1, <2>2, <2>3 DEF SweepInv
<1>7. CASE BeginCleanup \/ SelectCleanup \/ SelectDelete \/ \E f \in Names : BeginDelete(f)
  <2>1. UNCHANGED <<running, opener, items>>
    BY <1>7 DEF BeginCleanup, SelectCleanup, SelectDelete, BeginDelete
  <2>2. running # "starting"
    BY <1>7 DEF BeginCleanup, SelectCleanup, SelectDelete, BeginDelete, SweepInv
  <2>3. job'.cur = {}
    <3>1. /\ \A S, k : [NoJob EXCEPT !.pc = "select", !.kind = k, !.todo = S].cur = {}
          /\ \A S : [job EXCEPT !.pc = "sweep", !.todo = S].cur = job.cur
          /\ [job EXCEPT !.pc = "sweep"].cur = job.cur
      BY <1>job DEF NoJob, JobRec
    <3>2. job.pc = "select" => job.cur = {}
      BY DEF SweepInv
    <3>3. CASE BeginCleanup \/ \E f \in Names : BeginDelete(f)
      <4>1. \E S, k : job' = [NoJob EXCEPT !.pc = "select", !.kind = k, !.todo = S]
        BY <3>3, Zenon DEF BeginCleanup, BeginDelete
      <4> QED BY <3>1, <4>1
    <3>4. CASE SelectCleanup
      <4>1. (\E S : job' = [job EXCEPT !.pc = "sweep", !.todo = S]) /\ job.pc = "select"
        BY <3>4, Zenon DEF SelectCleanup
      <4> QED BY <3>1, <3>2, <4>1
    <3>5. CASE SelectDelete
      BY <1>idle, <3>1, <3>2, <3>5 DEF SelectDelete
    <3> QED BY <1>7, <3>3, <3>4, <3>5
  <2> QED BY <2>1, <2>2, <2>3 DEF SweepInv
<1>8. CASE SweepEnd
  BY <1>8, <1>idle DEF SweepEnd, SweepInv
<1>9. ASSUME NEW e \in Entry, Rename(e) PROVE SweepInv'
  <2>1. /\ job.pc = "sweep" /\ job.cur = {} /\ e \in job.todo /\ running' = running
        /\ e.name \in Names
    BY <1>9 DEF Rename, Entry
  <2>2. /\ items = {} => items' = {}
        /\ \A o \in Openers : opener'[o].pc = opener[o].pc
    BY <1>9, RenameFacts DEF OpenersUnlinked
  <2>3. \/ /\ job' = [job EXCEPT !.cur = {e}]
           /\ \/ trash' = trash
              \/ trash' = [trash EXCEPT ![e.name] = "full"]
        \/ job' = [job EXCEPT !.todo = job.todo \ {e}] /\ ~e.pending /\ trash' = trash
    BY <1>9 DEF Rename, disk
  <2>4. \/ /\ job'.pc = "sweep" /\ job'.cur = {e} /\ job'.todo = job.todo
           /\ \A f \in Names : f # e.name => trash'[f] = trash[f]
        \/ /\ job'.pc = "sweep" /\ job'.cur = {} /\ job'.todo = job.todo \ {e} /\ ~e.pending
           /\ trash' = trash
    BY <1>job, <2>1, <2>3 DEF JobRec, Types
  <2> QED BY <2>1, <2>2, <2>4 DEF SweepInv
<1>10. ASSUME NEW e \in Entry, RemoveAll(e) PROVE SweepInv'
  <2>1. UNCHANGED <<running, opener, items>> /\ job.cur = {e} /\ e.name \in Names
    BY <1>10 DEF RemoveAll, Entry
  <2>2. job.pc = "sweep"
    BY <2>1 DEF SweepInv
  <2>3. \/ /\ job' = job /\ trash[e.name] # "none"
           /\ \A f \in Names : f # e.name => trash'[f] = trash[f]
        \/ /\ job' = [job EXCEPT !.cur = {}, !.todo = job.todo \ {e}]
           /\ trash'[e.name] = "none" /\ \A f \in Names : f # e.name => trash'[f] = trash[f]
    BY <1>10, <2>1 DEF RemoveAll, Types
  <2>4. \/ job' = job /\ trash[e.name] # "none"
        \/ /\ job'.cur = {} /\ job'.todo = job.todo \ {e} /\ job'.pc = "sweep"
           /\ trash'[e.name] = "none" /\ \A f \in Names : f # e.name => trash'[f] = trash[f]
    BY <1>job, <2>2, <2>3 DEF JobRec
  <2>5. CASE job' = job /\ trash[e.name] # "none"
    BY <2>1, <2>3, <2>5 DEF SweepInv
  <2>6. CASE /\ job'.cur = {} /\ job'.todo = job.todo \ {e} /\ job'.pc = "sweep"
             /\ trash'[e.name] = "none" /\ \A f \in Names : f # e.name => trash'[f] = trash[f]
    BY <2>1, <2>6 DEF SweepInv
  <2> QED BY <2>4, <2>5, <2>6
<1> QED BY <1>1, <1>2, <1>3, <1>4, <1>5, <1>6, <1>7, <1>8, <1>9, <1>10 DEF Next

-----------------------------------------------------------------------------
FoldersInv == Types /\ LinkInv /\ SweepInv

\* The types, who has which database open and the list of the start's sweep,
\* for any number of opening threads.
THEOREM FoldersInvariant == Spec => []FoldersInv
<1>1. Init => FoldersInv
  <2>1. Init => LinkInv /\ SweepInv
    BY DEF Init, LinkInv, SweepInv, Idle, NoJob
  <2> QED BY <2>1, TypesInit DEF FoldersInv
<1>2. FoldersInv /\ [Next]_vars => FoldersInv'
  BY TypesStep, LinkStep, SweepStep DEF FoldersInv
<1> QED BY <1>1, <1>2, PTL DEF Spec

\* The state has its types: no opener is between two places, a folder that is
\* not there has nothing, the sweep has one folder at a time.
THEOREM FoldersTypes == Spec => []TypeOK
<1>1. FoldersInv => TypeOK
  <2> SUFFICES ASSUME FoldersInv PROVE TypeOK
    OBVIOUS
  <2>1. \A S, T : OneOf(S, T) => S \subseteq T /\ Cardinality(S) <= 1
    <3>1. Cardinality({}) = 0 /\ \A e : Cardinality({e}) = 1
      BY FS_EmptySet, FS_Singleton
    <3>2. ASSUME NEW S, NEW T, S = {} PROVE S \subseteq T /\ Cardinality(S) <= 1
      BY <3>1, <3>2
    <3>3. ASSUME NEW S, NEW T, NEW e \in T, S = {e} PROVE S \subseteq T /\ Cardinality(S) <= 1
      <4>1. Cardinality(S) = 1
        BY <3>3, FS_Singleton, Zenon
      <4> QED BY <3>3, <4>1
    <3> QED BY <3>2, <3>3 DEF OneOf
  <2>2. Cardinality(job.cur) <= 1 /\ Cardinality(answer) <= 1 /\ answer \subseteq Answer
    BY <2>1 DEF FoldersInv, Types
  <2>3. \A o \in Openers :
         /\ opener[o].pc \in {"idle", "find", "mkdir", "test", "reinit", "meta", "register"}
         /\ opener[o].key \in Procs \cup {NoKey} /\ opener[o].name \in Names
    BY DEF FoldersInv, Types, OpenerRec, Keys
  <2>4. /\ job.pc \in {"idle", "select", "sweep"} /\ job.kind \in {"none", "start", "cleanup", "delete"}
        /\ job.todo \subseteq Entry /\ job.cur \subseteq Entry
    BY DEF FoldersInv, Types, JobRec
  <2> QED BY <2>2, <2>3, <2>4
          DEF FoldersInv, Types, TypeOK, FolderRec, ItemRec, Keys, Answer, CountRec
<1> QED BY <1>1, FoldersInvariant, PTL

\* CleanupExpiredProcFolders: when the start is over no delete is half way,
\* whatever was left by however many crashes.
THEOREM StartFinishesDeletes == Spec => StartClears
<1>1. FoldersInv /\ [Next]_vars =>
        [running = "starting" /\ running' = "up" => \A f \in Names : trash[f] = "none"]_vars
  <2> SUFFICES ASSUME FoldersInv, Next, running = "starting", running' = "up"
               PROVE  \A f \in Names : trash[f] = "none"
    OBVIOUS
  <2>1. job.todo = {}
    <3>1. CASE SweepEnd
      BY <3>1 DEF SweepEnd
    <3>2. CASE ~SweepEnd
      BY <3>2 DEF Next, Spawn, Exit, Age, Crash, BeginOpen, Find, Mkdir, Test, Reinit, WriteFolderMeta,
                  Register, OpenSaved, Write, SaveEvidence, AnswerRead, CloseItem, AnswerWrite, Start,
                  BeginCleanup, SelectCleanup, SelectDelete, BeginDelete, Rename, RemoveAll
    <3> QED BY <3>1, <3>2
  <2> QED BY <2>1 DEF FoldersInv, SweepInv
<1> QED BY <1>1, FoldersInvariant, PTL DEF Spec, StartClears

-----------------------------------------------------------------------------
(* One open at a time.                                                      *)

LEMMA TheOne ==
    ASSUME OneOpener
    PROVE  /\ TheOpener \in Openers /\ who = opener[TheOpener]
           /\ \A o \in Openers : o = TheOpener
<1>1. PICK o : Openers = {o}
  BY DEF OneOpener
<1>2. TheOpener \in Openers
  BY <1>1, Zenon DEF TheOpener
<1> QED BY <1>1, <1>2 DEF who

\* What is a number, and what it can be.
LEMMA Numbers ==
    ASSUME Types, OneOpener
    PROVE  /\ spawned \in Nat /\ who.key \in Nat /\ Top \in Nat /\ who.name \in Names
           /\ who.pc \in {"idle", "find", "mkdir", "test", "reinit", "meta", "register"}
           /\ who.key \in Keys
           /\ \A f \in Names : /\ folder[f].meta \in Int /\ folder[f].db \subseteq Procs
                               /\ folder[f].meta \in Procs \cup {NoMeta, NoKey}
           /\ \A i \in items : i.name \in Names /\ i.key \in Nat /\ i.key \in Keys
           /\ \A a \in answer : a.name \in Names /\ a.meta \in Nat /\ a.meta \in Keys
           /\ \A k \in Procs : k \in Nat /\ k > 0
           /\ NoMeta = -1 /\ NoKey = 0 /\ NoMeta \notin Procs /\ NoKey \notin Procs
<1>1. /\ \A k \in Procs : k \in Nat /\ k > 0
      /\ NoMeta = -1 /\ NoKey = 0 /\ NoMeta \notin Procs /\ NoKey \notin Procs
  BY ConstFacts DEF NoMeta, NoKey
<1>2. /\ who.name \in Names /\ who.key \in Keys
      /\ who.pc \in {"idle", "find", "mkdir", "test", "reinit", "meta", "register"}
  BY TheOne, Records DEF OpenerRec
<1>3. \A k \in Keys : k \in Nat
  BY <1>1 DEF Keys
<1>4. spawned \in Nat
  BY <1>1 DEF Types
<1>5. \A f \in Names : /\ folder[f].meta \in Int /\ folder[f].db \subseteq Procs
                       /\ folder[f].meta \in Procs \cup {NoMeta, NoKey}
  BY <1>1, Records DEF Metas
<1>6. Top \in Nat
  BY <1>2, <1>3, <1>4 DEF Top
<1> QED BY <1>1, <1>2, <1>3, <1>4, <1>5, <1>6, Records

LEMMA OneInit == ASSUME Init, OneOpener PROVE OneInv
<1>0. Types
  BY TypesInit
<1>1. who = Idle
  BY TheOne DEF Init
<1>2. who.pc = "idle" /\ ~who.linked /\ ~who.reuse /\ who.key = 0 /\ who.live
  BY <1>1 DEF Idle, NoKey
<1>3. \A f \in Names : ~folder[f].hasDb /\ folder[f].db = {} /\ folder[f].meta = NoMeta
  BY DEF Init, Absent
<1>4. items = {} /\ answer = {} /\ spawned = 0 /\ Plain \in Names
  BY ConstFacts DEF Init
<1>5. OpenInv /\ PlainInv
  BY <1>0, <1>2, <1>3, <1>4, Numbers DEF OpenInv, PlainInv, Saved, Live, Chosen
<1>6. TopInv /\ MetaInv
  BY <1>0, <1>2, <1>3, <1>4, Numbers DEF TopInv, MetaInv, Top, Live, Fresh
<1>8. ReuseInv
  BY <1>2 DEF ReuseInv
<1>7. OwnInv /\ AnswerInv /\ SoleInv
  BY <1>0, <1>2, <1>3, <1>4, Numbers DEF OwnInv, AnswerInv, SoleInv, Saved, Live, Chosen, Current
<1> QED BY <1>5, <1>6, <1>7, <1>8 DEF OneInv

\* A step that leaves what the folders say and have, the items and the open
\* alone.
LEMMA OneQuiet ==
    ASSUME Types, OneOpener, OneInv, \A f \in Names : SameData(folder'[f], folder[f]),
           Saved => (folder'[who.name].dir <=> folder[who.name].dir),
           UNCHANGED <<items, opener, raced, overwritten>>, answer' \subseteq answer,
           spawned' \in {spawned, spawned + 1}
    PROVE  OneInv'
<1> USE DEF OneInv
<1>1. who' = who
  BY DEF who
<1>2. Live' = Live /\ Saved' = Saved /\ Chosen' = Chosen /\ \A f : Fresh(f)' = Fresh(f)
  BY <1>1 DEF Live, Saved, Chosen, Fresh
<1>3. Top' >= Top /\ Top' \in Nat /\ spawned' >= spawned /\ spawned' \in Nat
  BY <1>1, Numbers DEF Top, Live
<1>4. \A f \in Names : \A k : /\ OwnedBy(f, k)' <=> OwnedBy(f, k)
                              /\ OwnedFrom(f, k)' <=> OwnedFrom(f, k)
  BY <1>1 DEF OwnedBy, OwnedFrom, SameData
<1>5. \A f \in Names : /\ folder'[f].hasDb = folder[f].hasDb /\ folder'[f].db = folder[f].db
                       /\ folder'[f].meta = folder[f].meta
  BY DEF SameData
<1>6. OpenInv'
  BY <1>1, <1>2, <1>3, <1>5, Numbers DEF OpenInv
<1>7. PlainInv'
  BY <1>1, <1>2, <1>5, ConstFacts DEF PlainInv
<1>8. TopInv'
  BY <1>1, <1>3, <1>5, Numbers DEF TopInv
<1>9. MetaInv'
  BY <1>1, <1>2, <1>3, <1>4, <1>5, Numbers DEF MetaInv
<1>re. ReuseInv'
  BY <1>1, <1>3, <1>5, Numbers DEF ReuseInv
<1>10. OwnInv'
  BY <1>1, <1>2, <1>4, <1>5, Numbers DEF OwnInv
<1>11. AnswerInv'
  BY <1>1, <1>2, <1>3, <1>4, <1>5, Numbers DEF AnswerInv
<1>12. SoleInv'
  <2>1. CASE spawned' = spawned
    <3>1. Current' = Current
      BY <1>5, <2>1 DEF Current
    <3> QED BY <1>1, <1>2, <2>1, <3>1 DEF SoleInv
  <2>2. CASE spawned' = spawned + 1
    <3>1. Top <= spawned
      BY Numbers DEF Top, OpenInv
    <3>2. \A f \in Names : folder[f].meta # spawned'
      BY <2>2, <3>1, Numbers DEF TopInv
    <3>3. Current' = {}
      BY <1>5, <3>2 DEF Current
    <3> QED BY <3>3 DEF SoleInv
  <2> QED BY <2>1, <2>2
<1> QED BY <1>6, <1>7, <1>8, <1>9, <1>re, <1>10, <1>11, <1>12

\* The steps of an open that has no database, before or after: the folders say
\* and have the same, and what is left to show is about the open itself.
LEMMA OneMoves ==
    ASSUME Types, OneOpener, OneInv, \A f \in Names : SameData(folder'[f], folder[f]),
           UNCHANGED <<items, answer, raced, spawned>>, overwritten \subseteq overwritten',
           ~who.linked, ~who'.linked, Top' >= Top, Top' \in Nat, who'.key <= Top',
           who'.name \in Names, OpenInv', PlainInv', ReuseInv',
           /\ (Chosen /\ who.name # Plain /\ (who.live \/ who.name \notin raced))'
           /\ who'.pc = "reinit" /\ who'.reuse /\ folder'[who'.name].hasDb
           => OwnedBy(who'.name, who'.key),
           Saved' => /\ \A a \in answer : who'.name = a.name /\ a.name # Plain => a.meta <= who'.key
                     /\ folder'[who'.name].meta <= who'.key,
           /\ spawned \in Procs \ overwritten' /\ Live' /\ Chosen' /\ who'.pc # "register"
           /\ who'.known /\ who'.key = spawned /\ who'.name \notin raced
           => \A f \in Current : f = who'.name
    PROVE  OneInv'
<1> USE DEF OneInv
<1>1. \A f \in Names : /\ folder'[f].hasDb = folder[f].hasDb /\ folder'[f].db = folder[f].db
                       /\ folder'[f].meta = folder[f].meta
  BY DEF SameData
<1>2. \A f \in Names : \A k : /\ OwnedBy(f, k)' <=> OwnedBy(f, k)
                              /\ OwnedFrom(f, k)' <=> OwnedFrom(f, k)
  BY <1>1 DEF OwnedBy, OwnedFrom
<1>3. \A f : ~Fresh(f) /\ ~Fresh(f)'
  BY DEF Fresh
<1>4. TopInv'
  BY <1>1, Numbers DEF TopInv
<1>5. MetaInv'
  BY <1>1, <1>2, <1>3, Numbers DEF MetaInv
<1>6. OwnInv'
  <2>1. OwnedBy(who'.name, who'.key) => OwnedBy(who.name, who.key)'
    BY <1>1 DEF OwnedBy
  <2>2. \A i \in items : OwnedBy(i.name, i.key)' <=> OwnedBy(i.name, i.key)
    BY <1>2, Numbers
  <2> QED BY <2>1, <2>2 DEF OwnInv
<1>7. AnswerInv'
  BY <1>1, <1>2, Numbers DEF AnswerInv
<1>8. Current' = Current
  BY <1>1 DEF Current
<1>9. SoleInv'
  BY <1>8 DEF SoleInv
<1> QED BY <1>4, <1>5, <1>6, <1>7, <1>9

\* The open that is under way is the one that moves.
LEMMA TheOneMoves ==
    ASSUME OneOpener, NEW o \in Openers
    PROVE  who = opener[o] /\ who' = opener'[o]
<1>1. o = TheOpener
  BY TheOne
<1> QED BY <1>1 DEF who

LEMMA OneBeginOpen ==
    ASSUME FoldersInv, OneOpener, OneInv, NEW o \in Openers, BeginOpen(o)
    PROVE  OneInv'
<1> USE DEF OneInv, FoldersInv
<1>1. /\ who.pc = "idle" /\ alive = spawned /\ alive \in Procs
      /\ who'.pc = "find" /\ who'.live /\ who'.key = spawned /\ ~who'.reuse /\ ~who'.linked
      /\ who'.name = Plain /\ (who'.over => who'.key \in overwritten')
      /\ overwritten \subseteq overwritten'
      /\ UNCHANGED <<alive, spawned, folder, trash, running, items, job, raced, answer>>
  BY BeginOpenFacts, TheOneMoves
<1>2. ~who.linked
  BY <1>1, TheOne DEF LinkInv
<1>3. ~Live /\ Live' /\ ~Saved' /\ ~Chosen' /\ Top = spawned /\ Top' = spawned
  BY <1>1 DEF Live, Saved, Chosen, Top
<1>4. \A f \in Names : SameData(folder'[f], folder[f])
  BY <1>1 DEF SameData
<1>5. OpenInv'
  BY <1>1, <1>3, Numbers DEF OpenInv
<1>6. PlainInv'
  BY <1>1, <1>3 DEF PlainInv
<1>re. ReuseInv'
  BY <1>1 DEF ReuseInv
<1> QED BY <1>1, <1>re, <1>2, <1>3, <1>4, <1>5, <1>6, OneMoves, Numbers, ConstFacts

LEMMA OneFind ==
    ASSUME FoldersInv, OneOpener, OneInv, NEW o \in Openers, Find(o)
    PROVE  OneInv'
<1> USE DEF OneInv, FoldersInv
<1>1. /\ who.pc = "find" /\ who'.pc = "mkdir" /\ who.key \in Procs
      /\ who'.live = who.live /\ who'.key = who.key /\ who'.known = who.known
      /\ who'.over = who.over /\ who'.reuse = who.reuse /\ who'.linked = who.linked
      /\ \/ ~who.known /\ who'.name = Plain
         \/ who.known /\ who'.name \in FindProcFolderByStart(who.key)
         \/ /\ who.known /\ who'.name \in NamesOf[who.key]
            /\ who.over \/ FindProcFolderByStart(who.key) = {}
      /\ UNCHANGED <<alive, spawned, folder, trash, running, items, job, raced, overwritten, answer>>
  BY FindFacts, TheOneMoves
<1>2. ~who.linked /\ ~who.reuse /\ who.live
  BY <1>1, TheOne DEF LinkInv, OpenInv, Saved
<1>3. Live /\ Live' /\ ~Saved' /\ Chosen' /\ Top' = Top /\ Top = who.key
  BY <1>1, <1>2 DEF Live, Saved, Chosen, Top
<1>4. \A f \in Names : SameData(folder'[f], folder[f])
  BY <1>1 DEF SameData
<1>5. who'.name \in Names /\ (who'.known <=> who'.name # Plain)
  <2>1. \A f \in FindProcFolderByStart(who.key) : f \in Names /\ f # Plain
    BY <1>1 DEF FindProcFolderByStart, PlainInv
  <2>2. \A f \in NamesOf[who.key] : f \in Names /\ f # Plain
    BY <1>1, FoldersAssumption, ConstFacts
  <2> QED BY <1>1, <2>1, <2>2, ConstFacts
<1>6. OpenInv'
  BY <1>1, <1>2, <1>3 DEF OpenInv
<1>7. PlainInv'
  BY <1>1, <1>3, <1>5 DEF PlainInv
<1>8. ASSUME spawned \in Procs \ overwritten, who'.known, who'.key = spawned, who'.name \notin raced
      PROVE  \A f \in Current : f = who'.name
  <2>1. ~who.over
    BY <1>1, <1>3, <1>8 DEF OpenInv
  <2>2. Current \subseteq FindProcFolderByStart(spawned)
    BY Records DEF Current, FindProcFolderByStart
  <2>3. CASE who'.name \in FindProcFolderByStart(who.key)
    <3>1. who'.name \in Current
      BY <1>1, <1>5, <1>8, <2>3 DEF Current, FindProcFolderByStart
    <3> QED BY <1>8, <3>1 DEF SoleInv
  <2> QED BY <1>1, <1>8, <2>1, <2>2, <2>3
<1>re. ReuseInv'
  BY <1>1 DEF ReuseInv
<1> QED BY <1>1, <1>re, <1>2, <1>3, <1>4, <1>5, <1>6, <1>7, <1>8, OneMoves, Numbers

LEMMA OneMkdir ==
    ASSUME FoldersInv, OneOpener, OneInv, NEW o \in Openers, Mkdir(o)
    PROVE  OneInv'
<1> USE DEF OneInv, FoldersInv
<1>1. /\ who.pc = "mkdir" /\ who'.pc = "test" /\ SameTarget(who', who) /\ who'.reuse = who.reuse
      /\ who'.linked = who.linked /\ OtherFolders(who.name)
      /\ SameData(folder'[who.name], folder[who.name])
      /\ UNCHANGED <<alive, spawned, trash, running, items, job, raced, overwritten, answer>>
  BY MkdirFacts, TheOneMoves
<1>2. ~who.linked /\ ~who.reuse /\ who.live
  BY <1>1, TheOne DEF LinkInv, OpenInv, Saved
<1>3. Live /\ Live' /\ ~Saved' /\ Chosen /\ Chosen' /\ Top' = Top
  BY <1>1, <1>2 DEF Live, Saved, Chosen, Top, SameTarget
<1>4. \A f \in Names : SameData(folder'[f], folder[f])
  BY <1>1 DEF SameData, OtherFolders
<1>5. OpenInv'
  BY <1>1, <1>2, <1>3 DEF OpenInv, SameTarget
<1>6. PlainInv'
  BY <1>1, <1>3, <1>4, ConstFacts DEF PlainInv, SameTarget, SameData
<1>7. /\ who'.name = who.name /\ who'.key = who.key /\ who'.known = who.known
      /\ who'.pc # "reinit"
  BY <1>1 DEF SameTarget
<1>8. ASSUME spawned \in Procs \ overwritten, who'.known, who'.key = spawned, who'.name \notin raced
      PROVE  \A f \in Current : f = who'.name
  BY <1>1, <1>3, <1>7, <1>8 DEF SoleInv
<1>9. ~who'.linked /\ who'.key <= Top' /\ Top' \in Nat /\ Top' >= Top /\ who'.name \in Names
  BY <1>1, <1>2, <1>3, <1>7, Numbers DEF TopInv
<1>re. ReuseInv'
  BY <1>1 DEF ReuseInv
<1> QED BY <1>1, <1>re, <1>2, <1>3, <1>4, <1>5, <1>6, <1>7, <1>8, <1>9, OneMoves

LEMMA OneTest ==
    ASSUME FoldersInv, OneOpener, OneInv, NEW o \in Openers, Test(o)
    PROVE  OneInv'
<1> USE DEF OneInv, FoldersInv
<1>1. /\ who.pc = "test" /\ who'.pc = "reinit" /\ SameTarget(who', who)
      /\ who'.linked = who.linked
      /\ who'.reuse => /\ who.known /\ folder[who.name].hasDb /\ folder[who.name].meta = who.key
      /\ FoldersSame
      /\ UNCHANGED <<alive, spawned, trash, running, items, job, raced, overwritten, answer>>
  BY TestFacts, TheOneMoves
<1>2. ~who.linked /\ ~who.reuse /\ who.live
  BY <1>1, TheOne DEF LinkInv, OpenInv, Saved
<1>3. Live /\ Live' /\ ~Saved' /\ Chosen /\ Chosen' /\ Top' = Top /\ Top = who.key
  BY <1>1, <1>2 DEF Live, Saved, Chosen, Top, SameTarget
<1>4. \A f \in Names : SameData(folder'[f], folder[f])
  BY <1>1 DEF SameData, FoldersSame
<1>5. OpenInv'
  BY <1>1, <1>2, <1>3 DEF OpenInv, SameTarget
<1>6. PlainInv'
  BY <1>1, <1>3, <1>4, ConstFacts DEF PlainInv, SameTarget, SameData
<1>7. /\ who'.name = who.name /\ who'.key = who.key /\ who'.known = who.known
  BY <1>1 DEF SameTarget
<1>8. ASSUME spawned \in Procs \ overwritten, who'.known, who'.key = spawned, who'.name \notin raced
      PROVE  \A f \in Current : f = who'.name
  BY <1>1, <1>3, <1>7, <1>8 DEF SoleInv
<1>9. ~who'.linked /\ who'.key <= Top' /\ Top' \in Nat /\ Top' >= Top /\ who'.name \in Names
  BY <1>1, <1>2, <1>3, <1>7, Numbers DEF TopInv
<1>10. ASSUME who'.reuse, who.name # Plain PROVE OwnedBy(who'.name, who'.key)
  <2>1. folder[who.name].hasDb /\ folder[who.name].meta = Top /\ Top \in Procs
    BY <1>1, <1>3, <1>10 DEF OpenInv
  <2>2. ~Fresh(who.name)
    BY <1>1 DEF Fresh
  <2>3. OwnedBy(who.name, Top)
    BY <1>10, <2>1, <2>2, Numbers DEF MetaInv
  <2> QED BY <1>3, <1>7, <2>3
<1>re. ReuseInv'
  BY <1>1, <1>4, Numbers DEF ReuseInv, SameTarget, SameData
<1> QED BY <1>1, <1>re, <1>2, <1>3, <1>4, <1>5, <1>6, <1>7, <1>8, <1>9, <1>10, OneMoves

LEMMA OneOpenSaved ==
    ASSUME FoldersInv, OneOpener, OneInv, NEW o \in Openers, NEW f \in Names, OpenSaved(o, f)
    PROVE  OneInv'
<1> USE DEF OneInv, FoldersInv
<1>1. /\ who.pc = "idle" /\ folder[f].dir /\ folder[f].hasDb /\ folder[f].meta # NoMeta
      /\ \A i \in items : i.name # f
      /\ who'.pc = "reinit" /\ ~who'.live /\ who'.name = f /\ who'.key = folder[f].meta
      /\ (who'.known <=> folder[f].meta # NoKey) /\ who'.reuse /\ ~who'.linked
      /\ UNCHANGED <<alive, spawned, folder, trash, running, items, job, raced, overwritten, answer>>
  BY OpenSavedFacts, TheOneMoves
<1>2. ~who.linked
  BY <1>1, TheOne DEF LinkInv
<1>3. ~Live /\ ~Live' /\ Saved' /\ Chosen' /\ Top = spawned /\ Top' = spawned
  BY <1>1 DEF Live, Saved, Chosen, Top
<1>4. \A g \in Names : SameData(folder'[g], folder[g])
  BY <1>1 DEF SameData
<1>5. OpenInv'
  BY <1>1, <1>3 DEF OpenInv
<1>6. PlainInv'
  BY <1>1, <1>3, Numbers DEF PlainInv
<1>7. who'.key <= Top' /\ Top' \in Nat /\ Top' >= Top /\ who'.name \in Names
  BY <1>1, <1>3, Numbers DEF TopInv
<1>8. ASSUME f # Plain, f \notin raced PROVE OwnedBy(f, folder[f].meta)
  <2>1. folder[f].meta \in Procs
    BY <1>1, <1>8, Numbers DEF PlainInv
  <2>2. ~Fresh(f)
    BY <1>1 DEF Fresh
  <2> QED BY <1>1, <1>8, <2>1, <2>2 DEF MetaInv
<1>9. \A a \in answer : who'.name = a.name /\ a.name # Plain => a.meta <= who'.key
  <2>1. f # Plain => folder[f].meta \in Procs
    BY <1>1, Numbers DEF PlainInv
  <2> QED BY <1>1, <2>1 DEF AnswerInv
<1>10. folder'[who'.name].meta <= who'.key
  BY <1>1, Numbers
<1>re. ReuseInv'
  BY <1>1 DEF ReuseInv
<1> QED BY <1>1, <1>re, <1>2, <1>3, <1>4, <1>5, <1>6, <1>7, <1>8, <1>9, <1>10, OneMoves

\* The steps of the pid, of the sweep and of Orthia as a whole.
LEMMA OneAside ==
    ASSUME Types, OneOpener, OneInv, spawned' \in {spawned, spawned + 1},
           UNCHANGED <<folder, items, opener, answer, raced, overwritten>>
    PROVE  OneInv'
<1>1. \A f \in Names : SameData(folder'[f], folder[f])
  BY DEF SameData
<1> QED BY <1>1, OneQuiet

LEMMA OneCloseItem ==
    ASSUME Types, OneOpener, OneInv, NEW i \in items, CloseItem(i)
    PROVE  OneInv'
<1> USE DEF OneInv
<1>1. items' \subseteq items /\ UNCHANGED <<folder, opener, answer, raced, overwritten, spawned>>
  BY DEF CloseItem, pids, disk, history
<1>2. who' = who
  BY <1>1 DEF who
<1>3. /\ Live' = Live /\ Saved' = Saved /\ Chosen' = Chosen /\ \A f : Fresh(f)' = Fresh(f)
      /\ Top' = Top /\ Current' = Current
  BY <1>1, <1>2 DEF Live, Saved, Chosen, Fresh, Top, Current
<1>4. \A f, k : /\ OwnedBy(f, k) => OwnedBy(f, k)'
                /\ OwnedFrom(f, k) => OwnedFrom(f, k)'
  BY <1>1, <1>2 DEF OwnedBy, OwnedFrom
<1>5. OpenInv' /\ PlainInv' /\ TopInv'
  BY <1>1, <1>2, <1>3 DEF OpenInv, PlainInv, TopInv
<1>6. MetaInv'
  BY <1>1, <1>2, <1>3, <1>4 DEF MetaInv
<1>7. ReuseInv' /\ AnswerInv' /\ SoleInv'
  BY <1>1, <1>2, <1>3, <1>4 DEF ReuseInv, AnswerInv, SoleInv
<1>8. OwnInv'
  BY <1>1, <1>2, <1>3, <1>4 DEF OwnInv
<1> QED BY <1>5, <1>6, <1>7, <1>8

\* A crash leaves a data.db whose meta.xml is the old one empty.
LEMMA OneCrash ==
    ASSUME Types, OneOpener, OneInv, Crash
    PROVE  OneInv'
<1> USE DEF OneInv
<1>1. items' = {} /\ answer' = {} /\ UNCHANGED <<folder, raced, overwritten, spawned>>
  BY DEF Crash, pids, disk, history
<1>2. who' = Idle
  BY TheOne, TheOneMoves DEF Crash
<1>3. who'.pc = "idle" /\ ~who'.linked /\ ~who'.reuse /\ who'.key = 0 /\ who'.live
  BY <1>2 DEF Idle, NoKey
<1>4. ~Live' /\ ~Saved' /\ ~Chosen' /\ (\A f : ~Fresh(f)') /\ Top' = spawned
  BY <1>1, <1>3 DEF Live, Saved, Chosen, Fresh, Top
<1>5. Top <= Top'
  BY <1>4, Numbers DEF Top, OpenInv
<1>6. \A f, k : folder[f].db \subseteq {k} => OwnedBy(f, k)'
  BY <1>1, <1>3 DEF OwnedBy
<1>7. OpenInv' /\ PlainInv'
  BY <1>1, <1>3, <1>4 DEF OpenInv, PlainInv
<1>8. TopInv'
  BY <1>1, <1>3, <1>4, <1>5, Numbers DEF TopInv
<1>9. MetaInv'
  <2>1. \A f \in Names \ {Plain} : folder[f].hasDb /\ folder[f].meta \in Procs =>
          folder[f].db \subseteq {folder[f].meta} \/ (f \in raced /\ folder[f].meta < Top')
    BY <1>4, <1>5, Numbers DEF MetaInv, OwnedBy
  <2> QED BY <1>1, <1>4, <1>6, <2>1 DEF MetaInv
<1>10. ReuseInv' /\ OwnInv' /\ AnswerInv' /\ SoleInv'
  <2>1. Current' = Current
    BY <1>1 DEF Current
  <2> QED BY <1>1, <1>3, <1>4, <2>1 DEF ReuseInv, OwnInv, AnswerInv, SoleInv
<1> QED BY <1>7, <1>8, <1>9, <1>10

LEMMA OneSaveEvidence ==
    ASSUME Types, OneOpener, OneInv, NEW i \in items, SaveEvidence(i)
    PROVE  OneInv'
<1>1. /\ OtherFolders(i.name) /\ SameData(folder'[i.name], folder[i.name])
      /\ UNCHANGED <<alive, spawned, trash, running, opener, items, job, raced, overwritten, answer>>
  BY SaveEvidenceFacts
<1>2. \A f \in Names : SameData(folder'[f], folder[f])
  BY <1>1 DEF OtherFolders, SameData
<1>3. Saved => who.name # i.name
  BY DEF OneInv, OpenInv
<1>4. Saved => (folder'[who.name].dir <=> folder[who.name].dir)
  BY <1>1, <1>3, Numbers DEF OtherFolders
<1> QED BY <1>1, <1>2, <1>4, OneQuiet

LEMMA OneAnswerRead ==
    ASSUME Types, OneOpener, OneInv, NEW i \in items, AnswerRead(i)
    PROVE  OneInv'
<1> USE DEF OneInv
<1>1. /\ folder[i.name].meta # NoMeta /\ i.name \in Names
      /\ answer' = {[name |-> i.name, meta |-> folder[i.name].meta]}
      /\ UNCHANGED <<folder, items, opener, raced, overwritten, spawned>>
  BY Records DEF AnswerRead, pids, disk, history
<1>2. who' = who
  BY <1>1 DEF who
<1>3. /\ Live' = Live /\ Saved' = Saved /\ Chosen' = Chosen /\ (\A f : Fresh(f)' = Fresh(f))
      /\ Top' = Top /\ Current' = Current
  BY <1>1, <1>2 DEF Live, Saved, Chosen, Fresh, Top, Current
<1>4. \A f, k : OwnedBy(f, k)' <=> OwnedBy(f, k)
  BY <1>1, <1>2 DEF OwnedBy
<1>5. \A a \in answer' : a.name = i.name /\ a.meta = folder[i.name].meta
  BY <1>1
<1>6. i.name # Plain => folder[i.name].meta \in Procs
  BY <1>1, Numbers DEF PlainInv
<1>7. OpenInv' /\ TopInv' /\ ReuseInv' /\ SoleInv'
  BY <1>1, <1>2, <1>3 DEF OpenInv, TopInv, ReuseInv, SoleInv
<1>8. PlainInv'
  <2>1. i.name = Plain => folder[i.name].meta = NoKey
    BY <1>1, Numbers DEF PlainInv
  <2> QED BY <1>1, <1>2, <1>3, <1>5, <1>6, <2>1, Numbers DEF PlainInv
<1>9. MetaInv' /\ OwnInv'
  BY <1>1, <1>2, <1>3, <1>4 DEF MetaInv, OwnInv
<1>10. AnswerInv'
  <2>1. Saved => who.name # i.name
    BY DEF OpenInv
  <2>2. folder[i.name].meta <= Top /\ folder[i.name].meta <= folder[i.name].meta
    BY <1>1, Numbers DEF TopInv
  <2> QED BY <1>1, <1>2, <1>3, <1>5, <1>6, <2>1, <2>2, Numbers DEF AnswerInv
<1> QED BY <1>7, <1>8, <1>9, <1>10

LEMMA OneWrite ==
    ASSUME Types, LinkInv, OneOpener, OneInv, NEW i \in items, Write(i)
    PROVE  OneInv'
<1> USE DEF OneInv
<1> DEFINE f == i.name
<1>1. /\ i.linked /\ OtherFolders(f) /\ folder'[f].hasDb = folder[f].hasDb
      /\ folder'[f].meta = folder[f].meta /\ folder'[f].dir = folder[f].dir
      /\ folder'[f].db = folder[f].db \cup ({i.key} \cap Procs)
      /\ UNCHANGED <<spawned, opener, items, raced, overwritten, answer>>
  BY WriteFacts
<1>f. f \in Names /\ i.key \in Nat /\ i.key <= Top /\ folder[f].hasDb
  BY <1>1, Numbers DEF TopInv, LinkInv
<1> HIDE DEF f
<1>i. i.name = f
  BY DEF f
<1>2. who' = who
  BY <1>1 DEF who
<1>3. \A g \in Names : /\ folder'[g].hasDb = folder[g].hasDb /\ folder'[g].meta = folder[g].meta
                       /\ folder'[g].dir = folder[g].dir
                       /\ g # f => folder'[g].db = folder[g].db
  BY <1>1 DEF OtherFolders
<1>4. /\ Live' = Live /\ Saved' = Saved /\ Chosen' = Chosen /\ (\A g : Fresh(g)' = Fresh(g))
      /\ Top' = Top /\ Current' = Current
  BY <1>1, <1>2, <1>3 DEF Live, Saved, Chosen, Fresh, Top, Current
<1>5. \A g \in Names : \A k : /\ OwnedBy(g, k) => OwnedBy(g, k)'
                              /\ OwnedFrom(g, k) => OwnedFrom(g, k)'
  <2>1. \A k : /\ OwnedBy(f, k) => folder'[f].db \subseteq {k}
               /\ OwnedFrom(f, k) => \A d \in folder'[f].db : k <= d
    BY <1>1, <1>i DEF OwnedBy, OwnedFrom
  <2> QED BY <1>1, <1>2, <1>3, <2>1 DEF OwnedBy, OwnedFrom
<1>6. OpenInv' /\ PlainInv' /\ SoleInv'
  BY <1>1, <1>2, <1>3, <1>4, Numbers, ConstFacts DEF OpenInv, PlainInv, SoleInv
<1>7. TopInv'
  BY <1>1, <1>2, <1>3, <1>4, <1>f DEF TopInv
<1>8. MetaInv'
  <2>1. ~Fresh(f) \/ f = Plain
    BY <1>1, <1>i, <1>f DEF MetaInv
  <2> QED BY <1>1, <1>2, <1>3, <1>4, <1>5, <1>f, <2>1 DEF MetaInv
<1>9. ReuseInv'
  BY <1>1, <1>2, <1>3, <1>4, Numbers DEF ReuseInv
<1>10. OwnInv'
  BY <1>1, <1>2, <1>3, <1>4, <1>5, Numbers DEF OwnInv
<1>11. AnswerInv'
  BY <1>1, <1>2, <1>3, <1>4, <1>5, Numbers DEF AnswerInv
<1> QED BY <1>6, <1>7, <1>8, <1>9, <1>10, <1>11

\* The item takes the place of the open that made it.
LEMMA OneRegister ==
    ASSUME Types, OneOpener, OneInv, NEW o \in Openers, Register(o)
    PROVE  OneInv'
<1> USE DEF OneInv
<1>1. /\ who.pc = "register" /\ who' = Idle
      /\ \A j \in items' : \/ j \in items
                           \/ /\ j.name = who.name /\ j.live = who.live /\ j.key = who.key
                              /\ j.known = who.known /\ j.linked = who.linked
      /\ UNCHANGED <<spawned, folder, raced, overwritten, answer>>
  BY RegisterFacts, TheOneMoves
<1>2. who'.pc = "idle" /\ ~who'.linked /\ ~who'.reuse /\ who'.key = 0 /\ who'.live
  BY <1>1 DEF Idle, NoKey
<1>3. /\ ~Live' /\ ~Saved' /\ ~Chosen' /\ Chosen /\ (\A f : ~Fresh(f)' /\ ~Fresh(f))
      /\ Top' = spawned /\ Current' = Current
  BY <1>1, <1>2 DEF Live, Saved, Chosen, Fresh, Top, Current
<1>4. Top <= Top' /\ Top' \in Nat
  BY <1>3, Numbers DEF Top, OpenInv
<1>5. \A f, k : /\ OwnedBy(f, k) => OwnedBy(f, k)'
                /\ OwnedFrom(f, k) => OwnedFrom(f, k)'
  BY <1>1, <1>2 DEF OwnedBy, OwnedFrom
<1>6. OpenInv' /\ PlainInv' /\ ReuseInv' /\ SoleInv'
  BY <1>1, <1>2, <1>3 DEF OpenInv, PlainInv, ReuseInv, SoleInv
<1>7. TopInv'
  <2>1. \A j \in items' : j.key <= Top /\ j.key \in Nat
    BY <1>1, Numbers DEF TopInv
  <2> QED BY <1>1, <1>2, <1>4, <2>1, Numbers DEF TopInv
<1>8. MetaInv'
  BY <1>1, <1>2, <1>3, <1>4, <1>5, Numbers DEF MetaInv
<1>9. OwnInv'
  <2>1. ASSUME NEW j \in items', j.linked, j.name # Plain, j.live \/ j.name \notin raced
        PROVE  OwnedBy(j.name, j.key)
    BY <1>1, <1>3, <2>1 DEF OwnInv
  <2> QED BY <1>1, <1>2, <1>3, <1>5, <2>1 DEF OwnInv
<1>10. AnswerInv'
  BY <1>1, <1>2, <1>3, <1>4, <1>5, Numbers DEF AnswerInv
<1> QED BY <1>6, <1>7, <1>8, <1>9, <1>10

\* A folder that is taken away has nothing and nobody.
LEMMA OneRename ==
    ASSUME Types, OneOpener, OneInv, NEW e \in Entry, Rename(e)
    PROVE  OneInv'
<1> USE DEF OneInv
<1> DEFINE f == e.name
<1>1. CASE UNCHANGED <<folder, trash, items, opener>>
  BY <1>1, RenameFacts, OneAside
<1>2. CASE /\ ItemsUnlinked(f) /\ OpenersUnlinked(f) /\ OtherFolders(f)
           /\ ~folder'[f].dir /\ ~folder'[f].hasDb /\ folder'[f].db = {} /\ folder'[f].meta = NoMeta
  <2>1. UNCHANGED <<spawned, raced, overwritten, answer>> /\ f \in Names
    BY RenameFacts
  <2> HIDE DEF f
  <2>2. /\ who'.name = who.name /\ who'.key = who.key /\ who'.known = who.known
        /\ who'.live = who.live /\ who'.over = who.over /\ who'.pc = who.pc
        /\ who'.reuse = who.reuse /\ (who'.linked <=> who.linked /\ who.name # f)
    BY <1>2, TheOne, TheOneMoves DEF OpenersUnlinked, SameTarget
  <2>3. \A j \in items' : \E i \in items :
          /\ j.name = i.name /\ j.live = i.live /\ j.key = i.key /\ j.known = i.known
          /\ j.linked <=> i.linked /\ i.name # f
    BY <1>2 DEF ItemsUnlinked
  <2>4. \A g \in Names : g # f => folder'[g] = folder[g]
    BY <1>2 DEF OtherFolders
  <2>5. /\ (Live' <=> Live) /\ (Saved' <=> Saved) /\ (Chosen' <=> Chosen)
        /\ (\A g : Fresh(g)' <=> Fresh(g) /\ g # f) /\ Top' = Top
    BY <2>1, <2>2 DEF Live, Saved, Chosen, Fresh, Top
  <2>6. Current' \subseteq Current
    BY <1>2, <2>1, <2>4 DEF Current
  <2>7. \A g \in Names : \A k : /\ OwnedBy(g, k) \/ g = f => OwnedBy(g, k)'
                                /\ OwnedFrom(g, k) \/ g = f => OwnedFrom(g, k)'
    BY <1>2, <2>2, <2>3, <2>4 DEF OwnedBy, OwnedFrom
  <2>8. OpenInv'
    BY <1>2, <2>1, <2>2, <2>3, <2>4, <2>5, Numbers DEF OpenInv
  <2>9. PlainInv'
    BY <1>2, <2>1, <2>2, <2>3, <2>4, <2>5, Numbers, ConstFacts DEF PlainInv
  <2>10. TopInv'
    BY <1>2, <2>1, <2>2, <2>3, <2>4, <2>5, Numbers DEF TopInv
  <2>11. MetaInv'
    <3>1. ASSUME NEW g \in Names \ {Plain}, g # f, Fresh(g)'
          PROVE  folder'[g].db = {} /\ \A i \in items' : ~(i.linked /\ i.name = g)
      BY <2>3, <2>4, <2>5, <3>1 DEF MetaInv
    <3> QED BY <1>2, <2>1, <2>4, <2>5, <2>7, <3>1, Numbers DEF MetaInv
  <2>12. ReuseInv' /\ SoleInv'
    BY <1>2, <2>1, <2>2, <2>4, <2>5, <2>6, Numbers DEF ReuseInv, SoleInv
  <2>13. OwnInv'
    <3>1. ASSUME NEW j \in items', j.linked, j.name # Plain, j.live \/ j.name \notin raced
          PROVE  OwnedBy(j.name, j.key) /\ j.name \in Names
      BY <2>3, <3>1, Numbers DEF OwnInv
    <3>2. ASSUME (/\ Chosen /\ who.name # Plain /\ (who.live \/ who.name \notin raced)
                  /\ who.linked \/ (who.pc = "reinit" /\ who.reuse /\ folder[who.name].hasDb))'
          PROVE  OwnedBy(who.name, who.key)
      BY <1>2, <2>1, <2>2, <2>4, <2>5, <3>2, Numbers DEF OwnInv
    <3> QED BY <2>1, <2>2, <2>7, <3>1, <3>2, Numbers DEF OwnInv
  <2>14. AnswerInv'
    BY <1>2, <2>1, <2>2, <2>4, <2>5, <2>7, Numbers DEF AnswerInv
  <2> QED BY <2>8, <2>9, <2>10, <2>11, <2>12, <2>13, <2>14
<1> QED BY <1>1, <1>2, RenameFacts

\* The database is opened again, or made anew: then it is empty, and meta.xml
\* is still the old one.
LEMMA OneReinit ==
    ASSUME FoldersInv, OneOpener, OneInv, NEW o \in Openers, Reinit(o)
    PROVE  OneInv'
<1> USE DEF OneInv, FoldersInv
<1>f. PICK f : f = who.name
  OBVIOUS
<1>0. who.pc = "reinit" /\ UNCHANGED <<spawned, raced, overwritten, answer>>
  BY ReinitFacts, TheOneMoves
<1>n. ~who.linked /\ f \in Names /\ Chosen /\ \A g : ~Fresh(g)
  BY <1>0, <1>f, TheOne, Numbers DEF LinkInv, Chosen, Fresh
<1>1. CASE /\ ~folder[f].dir
           /\ \/ /\ who.live /\ who'.pc = "register" /\ SameTarget(who', who)
                 /\ who'.reuse = who.reuse /\ who'.linked = who.linked
              \/ who' = Idle
           /\ UNCHANGED <<folder, items>>
  <2>1. \A g \in Names : SameData(folder'[g], folder[g])
    BY <1>1 DEF SameData
  <2>2. CASE who' = Idle
    <3>1. who'.pc = "idle" /\ ~who'.linked /\ ~who'.reuse /\ who'.key = 0 /\ who'.name = Plain
      BY <2>2 DEF Idle, NoKey
    <3>2. ~Live' /\ ~Saved' /\ ~Chosen' /\ Top' = spawned
      BY <1>0, <3>1 DEF Live, Saved, Chosen, Top
    <3>3. Top <= Top' /\ Top' \in Nat /\ who'.key <= Top'
      BY <3>1, <3>2, Numbers DEF Top, OpenInv
    <3>4. OpenInv' /\ PlainInv' /\ ReuseInv'
      BY <1>0, <1>1, <3>1, <3>2 DEF OpenInv, PlainInv, ReuseInv
    <3> QED BY <1>0, <1>1, <1>n, <2>1, <3>1, <3>2, <3>3, <3>4, OneMoves, ConstFacts
  <2>3. CASE /\ who.live /\ who'.pc = "register" /\ SameTarget(who', who)
             /\ who'.reuse = who.reuse /\ who'.linked = who.linked
    <3>1. Live /\ Live' /\ ~Saved' /\ Chosen' /\ Top' = Top
      BY <1>0, <2>3 DEF Live, Saved, Chosen, Top, SameTarget
    <3>2. OpenInv'
      BY <1>0, <1>1, <2>3, <3>1 DEF OpenInv, SameTarget
    <3>3. PlainInv' /\ ReuseInv'
      BY <1>0, <1>1, <1>n, <2>3, <3>1 DEF PlainInv, ReuseInv, SameTarget
    <3>4. who'.key <= Top' /\ Top' \in Nat /\ Top' >= Top /\ who'.name \in Names /\ ~who'.linked
      BY <1>n, <1>f, <2>3, <3>1, Numbers DEF SameTarget, TopInv
    <3> QED BY <1>0, <1>1, <1>n, <2>1, <2>3, <3>1, <3>2, <3>3, <3>4, OneMoves
  <2> QED BY <1>1, <2>2, <2>3
<1>2. CASE /\ who.reuse /\ folder[f].hasDb
           /\ who'.pc = "meta" /\ who'.linked /\ SameTarget(who', who) /\ who'.reuse = who.reuse
           /\ UNCHANGED <<folder, items>>
  <2>1. /\ who'.name = f /\ who'.key = who.key /\ who'.known = who.known
        /\ who'.live = who.live /\ who'.over = who.over
    BY <1>2, <1>f DEF SameTarget
  <2>2. /\ (Live' <=> Live) /\ (Saved' <=> Saved) /\ Chosen' /\ (\A g : ~Fresh(g)')
        /\ Top' = Top /\ Current' = Current /\ (Live <=> who.live) /\ (Saved <=> ~who.live)
    BY <1>0, <1>2, <2>1, <1>f DEF Live, Saved, Chosen, Fresh, Top, Current
  <2>3. \A g \in Names : \A k :
          /\ OwnedBy(g, k) /\ (g = f => k = who.key) => OwnedBy(g, k)'
          /\ OwnedFrom(g, k) /\ (g = f => k <= who.key) => OwnedFrom(g, k)'
    BY <1>2, <2>1, <1>f DEF OwnedBy, OwnedFrom
  <2>4. OpenInv'
    BY <1>0, <1>2, <2>1, <2>2, <1>f DEF OpenInv
  <2>5. PlainInv' /\ TopInv' /\ ReuseInv'
    BY <1>0, <1>2, <1>n, <2>1, <2>2, <1>f DEF PlainInv, TopInv, ReuseInv
  <2>6. MetaInv'
    <3>1. ASSUME f # Plain, folder[f].meta \in Procs
          PROVE  OwnedBy(f, folder[f].meta)' \/ (f \in raced /\ folder[f].meta < Top)
      BY <1>0, <1>2, <1>n, <2>3, <1>f, <3>1 DEF MetaInv, ReuseInv
    <3> QED BY <1>0, <1>2, <1>n, <2>2, <2>3, <3>1 DEF MetaInv
  <2>7. OwnInv'
    <3>1. ASSUME NEW i \in items, i.linked, i.name = f, f # Plain, i.live \/ f \notin raced
          PROVE  i.key = who.key
      <4>1. who.live
        BY <2>2, <1>f, <3>1 DEF OpenInv
      <4>2. OwnedBy(f, who.key)
        BY <1>0, <1>2, <1>n, <1>f, <3>1, <4>1 DEF OwnInv
      <4> QED BY <3>1, <4>2 DEF OwnedBy
    <3>2. ASSUME NEW i \in items, i.linked, i.name # Plain, i.live \/ i.name \notin raced
          PROVE  OwnedBy(i.name, i.key)'
      BY <2>3, <3>1, <3>2, Numbers DEF OwnInv
    <3>3. ASSUME f # Plain, who.live \/ f \notin raced PROVE OwnedBy(f, who.key)'
      BY <1>0, <1>2, <1>n, <2>1, <2>3, <1>f, <3>3 DEF OwnInv
    <3>4. OwnedBy(f, who.key)' <=> OwnedBy(who.name, who.key)'
      BY <2>1
    <3> QED BY <1>0, <1>2, <2>1, <3>2, <3>3, <3>4 DEF OwnInv
  <2>8. AnswerInv'
    <3>1. ASSUME NEW a \in answer, a.name = f, f # Plain PROVE a.meta <= who.key
      BY <2>2, <1>f, <3>1 DEF AnswerInv, Top
    <3> QED BY <1>0, <1>2, <1>f, <2>1, <2>2, <2>3, <3>1, Numbers DEF AnswerInv
  <2>9. SoleInv'
    BY <1>0, <1>n, <2>1, <2>2, <1>f DEF SoleInv
  <2> QED BY <2>4, <2>5, <2>6, <2>7, <2>8, <2>9
<1>3. CASE /\ folder[f].dir /\ ~(who.reuse /\ folder[f].hasDb)
           /\ who'.pc = "meta" /\ who'.linked /\ SameTarget(who', who) /\ who'.reuse = who.reuse
           /\ OtherFolders(f) /\ ItemsUnlinked(f)
           /\ folder'[f].hasDb /\ folder'[f].db = {} /\ folder'[f].meta = folder[f].meta
           /\ folder'[f].dir
  <2>1. /\ who'.name = f /\ who'.key = who.key /\ who'.known = who.known
        /\ who'.live = who.live /\ who'.over = who.over
    BY <1>3, <1>f DEF SameTarget
  <2>2. who.live
    BY <1>0, <1>3, <1>f DEF OpenInv, Saved
  <2>3. /\ Live /\ Live' /\ ~Saved' /\ Chosen' /\ Top' = who.key /\ Top = who.key
        /\ (\A g : Fresh(g)' <=> ~who.reuse /\ g = f)
    BY <1>0, <1>3, <2>1, <2>2, <1>f DEF Live, Saved, Chosen, Fresh, Top
  <2>4. \A j \in items' : \E i \in items :
          /\ j.name = i.name /\ j.live = i.live /\ j.key = i.key /\ j.known = i.known
          /\ j.linked <=> i.linked /\ i.name # f
    BY <1>3 DEF ItemsUnlinked
  <2>5. \A g \in Names : /\ g # f => folder'[g] = folder[g]
                         /\ folder'[g].meta = folder[g].meta
    BY <1>3 DEF OtherFolders
  <2>6. \A g \in Names : \A k :
          /\ g # f /\ OwnedBy(g, k) => OwnedBy(g, k)'
          /\ g # f /\ OwnedFrom(g, k) => OwnedFrom(g, k)'
          /\ k <= who.key => OwnedFrom(f, k)'
    BY <1>3, <1>n, <2>1, <2>4, <2>5 DEF OwnedBy, OwnedFrom
  <2>7. OwnedBy(f, who.key)' /\ OwnedBy(who.name, who.key)' /\ \A k : k = who.key => OwnedBy(f, k)'
    BY <1>3, <2>1, <2>4 DEF OwnedBy
  <2>8. OpenInv'
    BY <1>0, <1>3, <2>1, <2>2, <2>3 DEF OpenInv
  <2>9. PlainInv'
    BY <1>0, <1>n, <2>1, <2>3, <2>4, <2>5, <1>f, ConstFacts DEF PlainInv
  <2>10. TopInv' /\ ReuseInv'
    BY <1>3, <2>1, <2>3, <2>4, <2>5, Numbers DEF TopInv, ReuseInv
  <2>11. MetaInv'
    <3>1. ASSUME f # Plain, folder[f].meta \in Procs, who.reuse
          PROVE  OwnedBy(f, folder[f].meta)' \/ (f \in raced /\ folder[f].meta < Top)
      BY <1>0, <1>3, <2>7, <1>f, <3>1 DEF ReuseInv
    <3>2. \A j \in items' : ~(j.linked /\ j.name = f)
      BY <2>4
    <3> QED BY <1>0, <1>3, <1>n, <2>3, <2>5, <2>6, <3>1, <3>2 DEF MetaInv
  <2>12. OwnInv'
    <3>1. ASSUME NEW j \in items', j.linked, j.name # Plain, j.live \/ j.name \notin raced
          PROVE  OwnedBy(j.name, j.key)'
      BY <2>4, <2>6, <3>1, Numbers DEF OwnInv
    <3> QED BY <1>0, <2>7, <3>1 DEF OwnInv
  <2>13. AnswerInv'
    BY <1>0, <2>3, <2>5, <2>6, Numbers DEF AnswerInv
  <2>14. SoleInv'
    <3> SUFFICES ASSUME spawned \in Procs \ overwritten
                 PROVE  /\ \A g, h \in Current' : g = h
                        /\ who.known /\ who.key = spawned /\ f \notin raced =>
                             \A g \in Current' : g = f
      BY <1>0, <2>1 DEF SoleInv
    <3>1. Current' \subseteq Current \cup {f}
      BY <1>0, <2>5 DEF Current
    <3>2. who.known /\ who.key = spawned /\ f \notin raced => \A g \in Current : g = f
      BY <1>0, <1>n, <2>3, <1>f DEF SoleInv
    <3>3. f \in Current' => who.known /\ who.key = spawned /\ f \notin raced
      <4>1. f \in Current' => f \notin raced /\ f # Plain /\ folder[f].meta = spawned
        BY <1>0, <2>5 DEF Current
      <4>2. folder[f].meta <= who.key /\ who.key <= spawned
        BY <1>n, <2>3 DEF TopInv, OpenInv
      <4> QED BY <1>n, <1>f, <4>1, <4>2, Numbers DEF PlainInv
    <3> QED BY <3>1, <3>2, <3>3 DEF SoleInv
  <2> QED BY <2>8, <2>9, <2>10, <2>11, <2>12, <2>13, <2>14
<1> QED BY <1>f, <1>1, <1>2, <1>3, ReinitFacts, TheOneMoves

\* meta.xml is written for a data.db that is new: nobody else is in it.
LEMMA OneWriteFolderMeta ==
    ASSUME FoldersInv, OneOpener, OneInv, NEW o \in Openers, WriteFolderMeta(o)
    PROVE  OneInv'
<1> USE DEF OneInv, FoldersInv
<1>f. PICK f : f = who.name
  OBVIOUS
<1>0. /\ who.pc = "meta" /\ who'.pc = "register" /\ who'.reuse = who.reuse
      /\ who'.linked => who.linked
      /\ who'.name = f /\ who'.key = who.key /\ who'.known = who.known
      /\ who'.live = who.live /\ who'.over = who.over
      /\ UNCHANGED <<spawned, items, raced, overwritten, answer>>
  BY <1>f, WriteFolderMetaFacts, TheOneMoves DEF SameTarget
<1>n. /\ f \in Names /\ Chosen /\ Chosen' /\ (Live' <=> Live) /\ (Saved' <=> Saved) /\ Top' = Top
      /\ \A g : ~Fresh(g)'
  BY <1>0, <1>f, Numbers DEF Chosen, Fresh, Live, Saved, Top
<1>re. ReuseInv'
  BY <1>0 DEF ReuseInv
<1>1. CASE who.reuse /\ UNCHANGED folder /\ who'.linked = who.linked
  <2>1. (\A g : ~Fresh(g)) /\ Current' = Current
    BY <1>0, <1>1 DEF Fresh, Current
  <2>2. \A g, k : (OwnedBy(g, k)' <=> OwnedBy(g, k)) /\ (OwnedFrom(g, k)' <=> OwnedFrom(g, k))
    BY <1>0, <1>1, <1>f DEF OwnedBy, OwnedFrom
  <2>3. OpenInv' /\ PlainInv' /\ TopInv'
    BY <1>0, <1>1, <1>f, <1>n DEF OpenInv, PlainInv, TopInv
  <2>4. MetaInv'
    BY <1>0, <1>1, <1>n, <2>1, <2>2 DEF MetaInv
  <2>5. OwnInv'
    BY <1>0, <1>1, <1>f, <1>n, <2>2 DEF OwnInv
  <2>6. AnswerInv' /\ SoleInv'
    BY <1>0, <1>1, <1>f, <1>n, <2>1, <2>2 DEF AnswerInv, SoleInv
  <2> QED BY <1>re, <2>3, <2>4, <2>5, <2>6
<1>2. CASE ~folder[f].dir /\ UNCHANGED folder
  <2>1. ~who.linked /\ ~who'.linked
    BY <1>0, <1>2, <1>f, <1>n, TheOne, Records DEF LinkInv
  <2>2. \A g \in Names : SameData(folder'[g], folder[g])
    BY <1>2 DEF SameData
  <2>3. OpenInv' /\ PlainInv'
    BY <1>0, <1>2, <1>f, <1>n DEF OpenInv, PlainInv
  <2>4. who'.key <= Top' /\ Top' \in Nat /\ Top' >= Top /\ who'.name \in Names
    BY <1>0, <1>n, Numbers DEF TopInv
  <2>5. Saved' => /\ \A a \in answer : who'.name = a.name /\ a.name # Plain => a.meta <= who'.key
                  /\ folder'[who'.name].meta <= who'.key
    BY <1>0, <1>2, <1>f, <1>n DEF AnswerInv
  <2> QED BY <1>0, <1>n, <1>re, <2>1, <2>2, <2>3, <2>4, <2>5, OneMoves
<1>3. CASE /\ ~who.reuse /\ folder[f].dir /\ who'.linked = who.linked
           /\ folder'[f].meta = IF who.known THEN who.key ELSE NoKey
           /\ folder'[f].hasDb = folder[f].hasDb /\ folder'[f].db = folder[f].db
           /\ OtherFolders(f)
  <2>1. Live /\ Top = who.key /\ who.key \in Procs /\ who.live
    BY <1>0, <1>3 DEF OpenInv, Live, Saved, Top
  <2>2. /\ (who.known <=> f # Plain)
        /\ folder'[f].meta = IF f # Plain THEN who.key ELSE NoKey
    BY <1>3, <1>f, <1>n DEF PlainInv
  <2>3. \A g \in Names : /\ g # f => folder'[g] = folder[g]
                         /\ folder'[g].hasDb = folder[g].hasDb /\ folder'[g].db = folder[g].db
    BY <1>3 DEF OtherFolders
  <2>4. \A g \in Names : \A k : /\ OwnedBy(g, k)' <=> OwnedBy(g, k)
                                /\ OwnedFrom(g, k)' <=> OwnedFrom(g, k)
    BY <1>0, <1>3, <1>f, <2>3 DEF OwnedBy, OwnedFrom
  <2>5. \A g \in Names : Fresh(g) => g = f
    BY <1>f DEF Fresh
  <2>6. OpenInv'
    <3>1. ~Saved'
      BY <1>n, <2>1 DEF Saved
    <3> QED BY <1>0, <1>n, <2>1, <3>1 DEF OpenInv
  <2>7. PlainInv'
    BY <1>0, <1>f, <1>n, <2>1, <2>2, <2>3, Numbers, ConstFacts DEF PlainInv
  <2>8. TopInv'
    <3>1. folder'[f].meta <= Top
      BY <2>1, <2>2, Numbers
    <3> QED BY <1>0, <1>n, <2>3, <3>1 DEF TopInv
  <2>9. MetaInv'
    <3>1. ASSUME f # Plain, folder[f].hasDb PROVE OwnedBy(f, who.key)
      <4>1. Fresh(f)
        BY <1>0, <1>3, <1>f, <3>1 DEF Fresh, OpenInv
      <4> QED BY <1>n, <3>1, <4>1 DEF MetaInv, OwnedBy
    <3>2. ASSUME f # Plain, folder[f].hasDb PROVE OwnedBy(f, folder[f].meta)'
      BY <1>0, <1>n, <2>2, <2>4, <3>1, <3>2
    <3> QED BY <1>0, <1>n, <2>3, <2>4, <2>5, <3>2 DEF MetaInv
  <2>10. OwnInv'
    BY <1>0, <1>3, <1>f, <1>n, <2>3, <2>4, Numbers DEF OwnInv
  <2>11. AnswerInv'
    <3>1. \A a \in answer : a.name = f /\ f # Plain => a.meta <= folder'[f].meta
      BY <2>1, <2>2 DEF AnswerInv
    <3>2. f # Plain => folder'[f].meta # NoMeta
      BY <2>1, <2>2, Numbers
    <3>3. ~Saved'
      BY <1>n, <2>1 DEF Saved
    <3> QED BY <1>0, <1>n, <2>3, <2>4, <3>1, <3>2, <3>3, Numbers DEF AnswerInv
  <2>12. SoleInv'
    <3> SUFFICES ASSUME spawned \in Procs \ overwritten
                 PROVE  \A g, h \in Current' : g = h
      BY <1>0 DEF SoleInv
    <3>1. Current' \subseteq Current \cup {f}
      BY <1>0, <2>3 DEF Current
    <3>2. who.known /\ who.key = spawned /\ f \notin raced => \A g \in Current : g = f
      BY <1>0, <1>f, <1>n, <2>1 DEF SoleInv
    <3>3. f \in Current' => who.known /\ who.key = spawned /\ f \notin raced
      BY <1>0, <2>2 DEF Current
    <3> QED BY <3>1, <3>2, <3>3 DEF SoleInv
  <2> QED BY <1>re, <2>6, <2>7, <2>8, <2>9, <2>10, <2>11, <2>12
<1> QED BY <1>f, <1>1, <1>2, <1>3, WriteFolderMetaFacts, TheOneMoves

\* An answer that undoes another's meta.xml puts an older process there, or the
\* only one that is in the data.db.
LEMMA OneAnswerWrite ==
    ASSUME Types, OneOpener, OneInv, NEW a \in answer, AnswerWrite(a)
    PROVE  OneInv'
<1> USE DEF OneInv
<1> DEFINE f == a.name
<1>0. /\ f \in Names /\ answer' = {} /\ UNCHANGED <<spawned, opener, items, overwritten>>
  BY AnswerWriteFacts
<1>w. who' = who
  BY <1>0 DEF who
<1>1. CASE UNCHANGED <<folder, raced>>
  <2>1. \A g \in Names : SameData(folder'[g], folder[g])
    BY <1>1 DEF SameData
  <2> QED BY <1>0, <1>1, <2>1, OneQuiet
<1>2. CASE /\ folder[f].dir /\ OtherFolders(f) /\ folder'[f].hasDb = folder[f].hasDb
           /\ folder'[f].dir /\ folder'[f].db = folder[f].db
           /\ folder'[f].meta = a.meta /\ folder[f].meta = a.meta /\ raced' = raced
  <2>1. \A g \in Names : SameData(folder'[g], folder[g])
    BY <1>2 DEF SameData, OtherFolders
  <2>2. folder'[who.name].dir <=> folder[who.name].dir
    BY <1>2, Numbers DEF OtherFolders
  <2> QED BY <1>0, <1>2, <2>1, <2>2, OneQuiet
<1>3. CASE /\ folder[f].dir /\ OtherFolders(f) /\ folder'[f].hasDb = folder[f].hasDb
           /\ folder'[f].dir /\ folder'[f].db = folder[f].db /\ folder'[f].meta = a.meta
           /\ folder[f].meta # a.meta /\ raced' = raced \cup {f}
  <2> HIDE DEF f
  <2>f. f = a.name
    BY DEF f
  <2>1. /\ Live' = Live /\ Saved' = Saved /\ Chosen' = Chosen /\ (\A g : Fresh(g)' = Fresh(g))
        /\ Top' = Top
    BY <1>0, <1>w DEF Live, Saved, Chosen, Fresh, Top
  <2>2. \A g \in Names : /\ g # f => folder'[g] = folder[g]
                         /\ folder'[g].hasDb = folder[g].hasDb /\ folder'[g].db = folder[g].db
                         /\ folder[g].dir => folder'[g].dir
                         /\ folder'[g].dir => folder[g].dir
    BY <1>3 DEF OtherFolders
  <2>3. \A g \in Names : \A k : /\ OwnedBy(g, k)' <=> OwnedBy(g, k)
                                /\ OwnedFrom(g, k)' <=> OwnedFrom(g, k)
    BY <1>0, <1>w, <2>2 DEF OwnedBy, OwnedFrom
  <2>4. /\ f = Plain <=> a.meta = NoKey
        /\ a.meta <= Top /\ a.meta \in Nat /\ a.meta \in Keys
        /\ f # Plain => a.meta \in Procs
    BY <2>f, Numbers DEF PlainInv, AnswerInv, Keys
  <2>5. OpenInv'
    BY <1>0, <1>w, <2>1, <2>2, Numbers DEF OpenInv
  <2>6. PlainInv'
    BY <1>0, <1>3, <1>w, <2>1, <2>2, <2>4, Numbers, ConstFacts DEF PlainInv
  <2>7. TopInv'
    BY <1>0, <1>3, <1>w, <2>1, <2>2, <2>4 DEF TopInv
  <2>8. MetaInv'
    <3>1. ASSUME f # Plain, ~(a.meta < Top) PROVE OwnedBy(f, a.meta)
      <4>1. a.meta = Top
        BY <2>4, <3>1, Numbers
      <4>2. folder[f].meta = NoMeta
        BY <1>0, <1>3, <2>f, <3>1, <4>1, Numbers DEF AnswerInv, TopInv, PlainInv
      <4>3. OwnedFrom(f, Top)
        BY <2>f, <3>1, <4>1, <4>2 DEF AnswerInv
      <4> QED BY <1>0, <4>1, <4>3, Numbers DEF OwnedFrom, OwnedBy, TopInv
    <3> QED BY <1>0, <1>3, <1>w, <2>1, <2>2, <2>3, <2>4, <3>1 DEF MetaInv
  <2>9. ReuseInv'
    <3>1. ASSUME who.pc = "reinit", who.name = f, f # Plain, ~(a.meta < Top) PROVE a.meta = who.key
      <4>1. a.meta = Top /\ who.key <= Top
        BY <2>4, <3>1, Numbers DEF TopInv
      <4>2. CASE Live
        BY <4>1, <4>2 DEF Top
      <4>3. CASE Saved
        BY <2>f, <3>1, <4>1, <4>3, Numbers DEF AnswerInv
      <4> QED BY <3>1, <4>2, <4>3 DEF Live, Saved
    <3> QED BY <1>0, <1>3, <1>w, <2>1, <2>2, <3>1, Numbers DEF ReuseInv
  <2>10. OwnInv'
    BY <1>0, <1>3, <1>w, <2>1, <2>2, <2>3, Numbers DEF OwnInv
  <2>11. AnswerInv'
    BY <1>0, <1>3, <1>w, <2>1, <2>2, <2>4, <2>f, Numbers DEF AnswerInv
  <2>12. SoleInv'
    <3>1. Current' \subseteq Current
      BY <1>0, <1>3, <2>2 DEF Current
    <3> QED BY <1>0, <1>3, <1>w, <2>1, <3>1 DEF SoleInv
  <2> QED BY <2>5, <2>6, <2>7, <2>8, <2>9, <2>10, <2>11, <2>12
<1> QED BY <1>1, <1>2, <1>3, AnswerWriteFacts

LEMMA OneStep ==
    ASSUME FoldersInv, OneOpener, OneInv, [Next]_vars
    PROVE  OneInv'
<1>0. Types /\ LinkInv
  BY DEF FoldersInv
<1>1. CASE UNCHANGED vars \/ Spawn \/ Exit \/ Start \/ BeginCleanup \/ SelectCleanup \/ SelectDelete
           \/ SweepEnd \/ (\E f \in Names : BeginDelete(f)) \/ (\E e \in Entry : RemoveAll(e))
  <2>1. /\ UNCHANGED <<folder, items, opener, answer, raced, overwritten>>
        /\ spawned' \in {spawned, spawned + 1}
    BY <1>1 DEF vars, Spawn, Exit, Start, BeginCleanup, SelectCleanup, SelectDelete, SweepEnd,
                BeginDelete, RemoveAll, pids, disk, history
  <2> QED BY <1>0, <2>1, OneAside
<1>2. CASE Age
  <2>1. /\ \A f \in Names : SameData(folder'[f], folder[f]) /\ folder'[f].dir = folder[f].dir
        /\ UNCHANGED <<items, opener, answer, raced, overwritten, spawned>>
    BY <1>0, <1>2, AgeFacts DEF FoldersSame
  <2>2. who.name \in Names
    BY <1>0, Numbers
  <2> QED BY <1>0, <2>1, <2>2, OneQuiet
<1>3. CASE Crash
  BY <1>0, <1>3, OneCrash
<1>4. ASSUME NEW o \in Openers,
             \/ BeginOpen(o) \/ Find(o) \/ Mkdir(o) \/ Test(o) \/ Reinit(o) \/ WriteFolderMeta(o)
             \/ Register(o) \/ \E f \in Names : OpenSaved(o, f)
      PROVE  OneInv'
  BY <1>0, <1>4, OneBeginOpen, OneFind, OneMkdir, OneTest, OneReinit, OneWriteFolderMeta, OneRegister,
     OneOpenSaved
<1>5. ASSUME NEW i \in items, Write(i) \/ SaveEvidence(i) \/ AnswerRead(i) \/ CloseItem(i)
      PROVE  OneInv'
  BY <1>0, <1>5, OneWrite, OneSaveEvidence, OneAnswerRead, OneCloseItem
<1>6. ASSUME NEW a \in answer, AnswerWrite(a) PROVE OneInv'
  BY <1>0, <1>6, OneAnswerWrite
<1>7. ASSUME NEW e \in Entry, Rename(e) PROVE OneInv'
  BY <1>0, <1>7, OneRename
<1> QED BY <1>1, <1>2, <1>3, <1>4, <1>5, <1>6, <1>7 DEF Next

\* With one opening thread: what each folder says of itself and has, and where
\* the open is that may change it.
THEOREM OneOpenInvariant == OneOpener /\ Spec => [](FoldersInv /\ OneInv)
<1> SUFFICES ASSUME OneOpener PROVE Spec => [](FoldersInv /\ OneInv)
  OBVIOUS
<1>1. Init => OneInv
  BY OneInit
<1>2. FoldersInv /\ OneInv /\ [Next]_vars => OneInv'
  BY OneStep
<1> QED BY <1>1, <1>2, FoldersInvariant, PTL DEF Spec

\* "The database of an earlier open is reused only for the same process": an
\* item shows nothing of another process, whatever the folder of the pid and of
\* the program went through, with one open at a time.
THEOREM DataIsOwn == OneOpener /\ Spec => []OwnData
<1>1. FoldersInv /\ OneInv => OwnData
  BY DEF OneInv, OwnInv, OwnedBy, PlainInv, OwnData
<1> QED BY <1>1, OneOpenInvariant, PTL

\* After a crash at any moment, the data.db beside a meta.xml has nothing of a
\* process but the one meta.xml tells of, with one open at a time.
THEOREM MetaIsTrue == OneOpener /\ Spec => []MetaTells
<1>1. FoldersInv /\ OneInv => MetaTells
  BY DEF OneInv, MetaInv, PlainInv, OwnedBy, MetaTells
<1> QED BY <1>1, OneOpenInvariant, PTL

\* "Opening the same process again reuses its database": the process that has
\* the pid has one folder that says so, with one open at a time.
THEOREM ReopenFindsIt == OneOpener /\ Spec => []ReopenFinds
<1>1. FoldersInv /\ OneInv => ReopenFinds
  <2> SUFFICES ASSUME FoldersInv, OneInv, alive \in Procs \ overwritten PROVE ReopenFinds
    BY DEF ReopenFinds
  <2>1. alive = spawned
    BY ConstFacts DEF FoldersInv, Types
  <2>2. {h \in Names \ (raced \cup {Plain}) : folder[h].hasDb /\ folder[h].meta = alive}
          \subseteq Current
    BY <2>1 DEF Current
  <2> QED BY <2>1, <2>2 DEF OneInv, SoleInv, ReopenFinds
<1> QED BY <1>1, OneOpenInvariant, PTL
=============================================================================
