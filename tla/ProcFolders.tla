----------------------------- MODULE ProcFolders -----------------------------
(***************************************************************************)
(* The process databases: the folders proc/[pid] name <start> of the data  *)
(* folder (orthia_databases.cpp), how an open creates or reuses one        *)
(* (CProgramModel::CreateProcItemFS, AddSavedProcess) and what removes     *)
(* them: the start of Orthia, .database cleanup and .database delete.      *)
(*                                                                         *)
(* One pid is modelled.  The processes that have it one after the other    *)
(* run the same program, so that their folders differ by the start in the  *)
(* name only, which has seconds and may move between two opens.  One       *)
(* Orthia runs: its opening threads, its command thread and its analyzer   *)
(* interleave, and it may crash between any two steps.  File operations    *)
(* are those of POSIX: an open data.db does not keep its folder in place.  *)
(* meta.xml is replaced by a rename, so a crash leaves the old or the new  *)
(* one; a new data.db is empty until the item is registered.               *)
(***************************************************************************)
EXTENDS Integers, FiniteSets

CONSTANTS
    Procs,       \* bound: the processes that get the pid, 1..n in this order
    NamesOf,     \* [Procs -> sets of folder names]: what MakeProcFolderName may give
    Plain,       \* the folder name of an unknown start: "[pid] name"
    Openers,     \* opening threads
    Known,       \* whether the start of a process can be asked: sets of BOOLEAN
    MaxOpens,    \* bound: opens
    MaxJobs,     \* bound: .database commands
    MaxAnswers,  \* bound: answers to the question about automatic tasks
    MaxCrashes,  \* bound: crashes, each followed by a start
    Overwrites   \* the values of --overwrite-db

Names == (UNION {NamesOf[k] : k \in Procs}) \cup {Plain}

ASSUME FoldersAssumption ==
    /\ IsFiniteSet(Procs) /\ Procs = 1..Cardinality(Procs)
    /\ \A k \in Procs : NamesOf[k] # {} /\ Plain \notin NamesOf[k]
    /\ MaxOpens \in Nat /\ MaxJobs \in Nat /\ MaxAnswers \in Nat /\ MaxCrashes \in Nat
    /\ Overwrites \subseteq BOOLEAN /\ Known \subseteq BOOLEAN

VARIABLES
    alive,       \* the process that has the pid, 0 for none
    spawned,     \* how many have had it
    folder,      \* the folders of proc/
    trash,       \* the folders <name>.deleting
    running,     \* Orthia is down, starting or up
    opener,      \* the opening threads
    items,       \* the opened items
    job,         \* the sweep of the start or of a .database command
    answer,      \* the UI thread in StartAutoTasks: what it read of a meta.xml
    counts,      \* opens, jobs, answers and crashes so far
    overwritten, \* history: the processes once opened with --overwrite-db
    raced        \* history: the folders where an answer undid another's meta.xml

vars == <<alive, spawned, folder, trash, running, opener, items, job, answer, counts,
          overwritten, raced>>

pids == <<alive, spawned>>
disk == <<folder, trash>>
history == <<overwritten, raced>>

\* The meta.xml of a folder: none, one without a start key, or a process.
NoMeta == -1
NoKey == 0
Absent == [dir |-> FALSE, hasDb |-> FALSE, db |-> {}, meta |-> NoMeta, ev |-> FALSE, old |-> FALSE]
Metas == Procs \cup {NoMeta, NoKey}
Idle == [pc |-> "idle", live |-> TRUE, key |-> NoKey, known |-> FALSE, over |-> FALSE,
         name |-> Plain, reuse |-> FALSE, linked |-> FALSE]
\* DatabaseInfo: what the enumeration saw of a folder.
Entry == [name : Names, pending : BOOLEAN, meta : Metas, old : BOOLEAN]
NoJob == [pc |-> "idle", kind |-> "none", todo |-> {}, cur |-> {}]

TypeOK ==
    /\ alive \in Procs \cup {0} /\ spawned \in Procs \cup {0}
    /\ folder \in [Names -> [dir : BOOLEAN, hasDb : BOOLEAN, db : SUBSET Procs,
                             meta : Metas, ev : BOOLEAN, old : BOOLEAN]]
    /\ \A f \in Names : ~folder[f].dir => folder[f] = Absent
    /\ trash \in [Names -> {"none", "full", "empty"}]
    /\ running \in {"down", "starting", "up"}
    /\ \A o \in Openers :
         /\ opener[o].pc \in {"idle", "find", "mkdir", "test", "reinit", "meta", "register"}
         /\ opener[o].key \in Procs \cup {NoKey} /\ opener[o].name \in Names
    /\ items \subseteq [name : Names, live : BOOLEAN, key : Procs \cup {NoKey}, known : BOOLEAN,
                        linked : BOOLEAN]
    /\ job.pc \in {"idle", "select", "sweep"} /\ job.kind \in {"none", "start", "cleanup", "delete"}
    /\ job.todo \subseteq Entry /\ job.cur \subseteq Entry /\ Cardinality(job.cur) <= 1
    /\ answer \subseteq [name : Names, meta : Metas \ {NoMeta}] /\ Cardinality(answer) <= 1
    /\ counts \in [opens : 0..MaxOpens, jobs : 0..MaxJobs, answers : 0..MaxAnswers,
                   crashes : 0..MaxCrashes]
    /\ overwritten \subseteq Procs /\ raced \subseteq Names

Init ==
    /\ alive = 0 /\ spawned = 0
    /\ folder = [f \in Names |-> Absent] /\ trash = [f \in Names |-> "none"]
    /\ running = "up"
    /\ opener = [o \in Openers |-> Idle] /\ items = {} /\ job = NoJob
    /\ answer = {} /\ counts = [opens |-> 0, jobs |-> 0, answers |-> 0, crashes |-> 0]
    /\ overwritten = {} /\ raced = {}

-----------------------------------------------------------------------------
(* The system around Orthia.                                                *)

Spawn ==
    /\ alive = 0 /\ spawned + 1 \in Procs
    /\ alive' = spawned + 1 /\ spawned' = spawned + 1
    /\ UNCHANGED <<disk, running, opener, items, job, counts, history, answer>>

Exit ==
    /\ alive # 0
    /\ alive' = 0
    /\ UNCHANGED <<spawned, disk, running, opener, items, job, counts, history, answer>>

\* 48 hours pass in which nothing is written.
Age ==
    /\ \E f \in Names : folder[f].dir /\ ~folder[f].old
    /\ \A o \in Openers : opener[o].pc = "idle"
    /\ folder' = [f \in Names |-> [folder[f] EXCEPT !.old = folder[f].dir]]
    /\ UNCHANGED <<pids, trash, running, opener, items, job, counts, history, answer>>

Crash ==
    /\ running # "down" /\ counts.crashes < MaxCrashes
    /\ counts' = [counts EXCEPT !.crashes = @ + 1]
    /\ running' = "down"
    /\ opener' = [o \in Openers |-> Idle] /\ items' = {} /\ job' = NoJob /\ answer' = {}
    /\ UNCHANGED <<pids, disk, history>>

-----------------------------------------------------------------------------
(* Opening a process: CreateProcItemFS.                                     *)

BeginOpen(o) ==
    /\ running = "up" /\ opener[o].pc = "idle" /\ alive # 0 /\ counts.opens < MaxOpens
    /\ counts' = [counts EXCEPT !.opens = @ + 1]
    /\ \E known \in Known, over \in Overwrites :
         /\ opener' = [opener EXCEPT ![o] =
                         [Idle EXCEPT !.pc = "find", !.key = alive, !.known = known, !.over = over]]
         /\ overwritten' = IF over THEN overwritten \cup {alive} ELSE overwritten
    /\ UNCHANGED <<pids, disk, running, items, job, raced, answer>>

\* Mutant: the folder is known by the name alone, as if the start it has were
\* always the same.
FindProcFolderNever(k) == {}

\* FindProcFolderByStart (the first in the order of the names; any here).
FindProcFolderByStart(k) ==
    {f \in Names : folder[f].dir /\ folder[f].hasDb /\ folder[f].meta = k}

\* The folder of an earlier open of this process, else the one named after
\* the start.
Find(o) ==
    LET p == opener[o]
        existing == FindProcFolderByStart(p.key)
    IN  /\ p.pc = "find"
        /\ \E f \in IF ~p.known THEN {Plain}
                    ELSE IF ~p.over /\ existing # {} THEN existing ELSE NamesOf[p.key] :
             opener' = [opener EXCEPT ![o].pc = "mkdir", ![o].name = f]
        /\ UNCHANGED <<pids, disk, running, items, job, counts, history, answer>>

\* CreateAllDirectoriesForFile, and SetProcFolder writes modules.xml.
Mkdir(o) ==
    /\ opener[o].pc = "mkdir"
    /\ folder' = [folder EXCEPT ![opener[o].name].dir = TRUE, ![opener[o].name].old = FALSE]
    /\ opener' = [opener EXCEPT ![o].pc = "test"]
    /\ UNCHANGED <<pids, trash, running, items, job, counts, history, answer>>

\* Mutant: a folder of that name is the folder of the process.
TestByName(o) ==
    LET p == opener[o]
        d == folder[p.name]
    IN  /\ p.pc = "test"
        /\ opener' = [opener EXCEPT ![o].pc = "reinit",
                                    ![o].reuse = ~p.over /\ p.known /\ d.hasDb]
        /\ UNCHANGED <<pids, disk, running, items, job, counts, history, answer>>

\* The database is reused only for the same process: meta.xml has the start
\* exactly.  DIRINFO is written, if the folder is still there.
Test(o) ==
    LET p == opener[o]
        d == folder[p.name]
    IN  /\ p.pc = "test"
        /\ opener' = [opener EXCEPT
                        ![o].pc = "reinit",
                        ![o].reuse = ~p.over /\ p.known /\ d.hasDb /\ d.meta = p.key]
        /\ folder' = [folder EXCEPT ![p.name].old = FALSE]
        /\ UNCHANGED <<pids, trash, running, items, job, counts, history, answer>>

\* Who has the data.db of the folder open keeps a file that is in no folder
\* any more.
Unlink(f, itemSet) == {[i EXCEPT !.linked = i.linked /\ i.name # f] : i \in itemSet}
UnlinkOpeners(f) ==
    [o \in Openers |-> [opener[o] EXCEPT !.linked = @ /\ opener[o].name # f]]

\* CModuleManager::Reinit: CreateNew deletes the file first.  An exception (the
\* folder is gone) leaves a process without a database and ends the open of a
\* saved one.
Reinit(o) ==
    LET p == opener[o]
        f == p.name
        open == p.reuse /\ folder[f].hasDb
    IN  /\ p.pc = "reinit"
        /\ \/ /\ ~folder[f].dir
              /\ opener' = IF p.live THEN [opener EXCEPT ![o].pc = "register"]
                           ELSE [opener EXCEPT ![o] = Idle]
              /\ UNCHANGED <<folder, items>>
           \/ /\ folder[f].dir /\ open
              /\ opener' = [opener EXCEPT ![o].pc = "meta", ![o].linked = TRUE]
              /\ UNCHANGED <<folder, items>>
           \/ /\ folder[f].dir /\ ~open
              /\ folder' = [folder EXCEPT ![f].hasDb = TRUE, ![f].db = {}, ![f].old = FALSE]
              /\ items' = Unlink(f, items)
              /\ opener' = [UnlinkOpeners(f) EXCEPT ![o].pc = "meta", ![o].linked = TRUE]
        /\ UNCHANGED <<pids, trash, running, job, counts, history, answer>>

\* Mutant: a meta.xml that is there is left alone, as in AddExecutable.
WriteFolderMetaOnce(o) ==
    LET p == opener[o]
        f == p.name
    IN  /\ p.pc = "meta"
        /\ opener' = [opener EXCEPT ![o].pc = "register"]
        /\ folder' = [folder EXCEPT ![f].meta = IF p.reuse \/ @ # NoMeta \/ ~folder[f].dir THEN @
                                                ELSE IF p.known THEN p.key ELSE NoKey]
        /\ UNCHANGED <<pids, trash, running, items, job, counts, history, answer>>

\* WriteFolderMeta: the file is replaced in one step.  An exception closes the
\* database again.
WriteFolderMeta(o) ==
    LET p == opener[o]
        f == p.name
    IN  /\ p.pc = "meta"
        /\ \/ /\ p.reuse
              /\ opener' = [opener EXCEPT ![o].pc = "register"]
              /\ UNCHANGED folder
           \/ /\ ~p.reuse /\ folder[f].dir
              /\ folder' = [folder EXCEPT ![f].meta = IF p.known THEN p.key ELSE NoKey,
                                          ![f].old = FALSE]
              /\ opener' = [opener EXCEPT ![o].pc = "register"]
           \/ /\ ~p.reuse /\ ~folder[f].dir
              /\ opener' = [opener EXCEPT ![o].pc = "register", ![o].linked = FALSE]
              /\ UNCHANGED folder
        /\ UNCHANGED <<pids, trash, running, items, job, counts, history, answer>>

\* FinishProcessOpen: the item is registered, with or without a database.
Register(o) ==
    LET p == opener[o] IN
    /\ p.pc = "register"
    /\ items' = items \cup {[name |-> p.name, live |-> p.live, key |-> p.key, known |-> p.known,
                             linked |-> p.linked]}
    /\ opener' = [opener EXCEPT ![o] = Idle]
    /\ UNCHANGED <<pids, disk, running, job, counts, history, answer>>

\* Mutant: a folder whose meta.xml is missing is opened as well.
OpenSavedAny(o, f) ==
    /\ running = "up" /\ opener[o].pc = "idle" /\ counts.opens < MaxOpens
    /\ counts' = [counts EXCEPT !.opens = @ + 1]
    /\ folder[f].dir /\ folder[f].hasDb
    /\ \A i \in items : i.name # f
    /\ opener' = [opener EXCEPT ![o] =
                    [Idle EXCEPT !.pc = "reinit", !.live = FALSE, !.name = f,
                                 !.key = folder[f].meta, !.known = folder[f].meta # NoKey, !.reuse = TRUE]]
    /\ UNCHANGED <<pids, disk, running, items, job, history, answer>>

\* OpenSavedProcessFolder and AddSavedProcess: a folder that no item has open
\* and that has a meta.xml and a data.db.  Nothing is created.
OpenSaved(o, f) ==
    /\ running = "up" /\ opener[o].pc = "idle" /\ counts.opens < MaxOpens
    /\ counts' = [counts EXCEPT !.opens = @ + 1]
    /\ folder[f].dir /\ folder[f].hasDb /\ folder[f].meta # NoMeta
    /\ \A i \in items : i.name # f
    /\ opener' = [opener EXCEPT ![o] =
                    [Idle EXCEPT !.pc = "reinit", !.live = FALSE, !.name = f,
                                 !.key = folder[f].meta, !.known = folder[f].meta # NoKey, !.reuse = TRUE]]
    /\ UNCHANGED <<pids, disk, running, items, job, history, answer>>

-----------------------------------------------------------------------------
(* What an item does to its folder.                                         *)

\* A comment or the analysis goes into data.db.
Write(i) ==
    /\ i.linked /\ (folder[i.name].old \/ i.key \in Procs \ folder[i.name].db)
    /\ folder' = [folder EXCEPT ![i.name].db = @ \cup ({i.key} \cap Procs), ![i.name].old = FALSE]
    /\ UNCHANGED <<pids, trash, running, opener, items, job, counts, history, answer>>

\* SaveFloatingSnapshot and the capture of a live process: evidence, written
\* by path; create_directories makes the folder again when it is gone.
SaveEvidence(i) ==
    /\ i.live /\ i.key = alive /\ ~folder[i.name].ev
    /\ folder' = [folder EXCEPT ![i.name].dir = TRUE, ![i.name].ev = TRUE, ![i.name].old = FALSE]
    /\ UNCHANGED <<pids, trash, running, opener, items, job, counts, history, answer>>

\* StartAutoTasks on the UI thread reads meta.xml and writes it back with the
\* answer; nothing keeps others from writing it in between.
AnswerRead(i) ==
    /\ answer = {} /\ counts.answers < MaxAnswers
    /\ i.live /\ folder[i.name].meta # NoMeta
    /\ counts' = [counts EXCEPT !.answers = @ + 1]
    /\ answer' = {[name |-> i.name, meta |-> folder[i.name].meta]}
    /\ UNCHANGED <<pids, disk, running, opener, items, job, history>>

AnswerWrite(a) ==
    LET f == a.name IN
    /\ answer' = {}
    /\ IF folder[f].dir
         THEN /\ folder' = [folder EXCEPT ![f].meta = a.meta, ![f].old = FALSE]
              /\ raced' = IF folder[f].meta # a.meta THEN raced \cup {f} ELSE raced
         ELSE UNCHANGED <<folder, raced>>
    /\ UNCHANGED <<pids, trash, running, opener, items, job, counts, overwritten>>

\* ~CProcessWorkplaceItem: the folder stays.
CloseItem(i) ==
    /\ items' = items \ {i}
    /\ UNCHANGED <<pids, disk, running, opener, job, counts, history, answer>>

-----------------------------------------------------------------------------
(* What removes folders.                                                    *)

PendingEntry(f) == [name |-> f, pending |-> TRUE, meta |-> NoMeta, old |-> FALSE]
FolderEntry(f) == [name |-> f, pending |-> FALSE, meta |-> folder[f].meta, old |-> folder[f].old]
Pending == {PendingEntry(f) : f \in {g \in Names : trash[g] # "none"}}
Databases == {FolderEntry(f) : f \in {g \in Names : folder[g].dir}}
\* Folders with evidence: only .database delete removes them.
Evidence == {e \in Databases : folder[e.name].ev}

\* Mutant: what a delete left half way is not looked for.
ExpiredOnly == {e \in Databases \ Evidence : e.old}

\* CleanupExpiredProcFolders: unfinished deletes, and the folders not written
\* for 48 hours that hold no evidence.
Expired == Pending \cup {e \in Databases \ Evidence : e.old}

Start ==
    /\ running = "down"
    /\ running' = "starting"
    /\ job' = [NoJob EXCEPT !.pc = "sweep", !.kind = "start", !.todo = Expired]
    /\ UNCHANGED <<pids, disk, opener, items, counts, history, answer>>

\* QueryProcessState: by the start key that meta.xml had, else by the name.
ProcessState(e) ==
    IF alive = 0 THEN "Gone"
    ELSE IF e.meta \in Procs
           THEN IF e.meta = alive THEN "Alive" ELSE "Reused"
           ELSE IF e.name = Plain THEN "Alive" ELSE "Reused"

\* .database cleanup: EnumerateDatabases.  The later steps use what the
\* folders were then.
BeginCleanup ==
    /\ running = "up" /\ job.pc = "idle" /\ counts.jobs < MaxJobs
    /\ counts' = [counts EXCEPT !.jobs = @ + 1]
    /\ job' = [NoJob EXCEPT !.pc = "select", !.kind = "cleanup",
                            !.todo = Pending \cup (Databases \ Evidence)]
    /\ UNCHANGED <<pids, disk, running, opener, items, history, answer>>

OpenNames == {i.name : i \in items}

\* QueryOpenDatabaseFolders and SelectDatabasesForCleanup.
SelectCleanup ==
    /\ job.pc = "select" /\ job.kind = "cleanup"
    /\ job' = [job EXCEPT !.pc = "sweep",
                 !.todo = {e \in @ : \/ e.pending
                                     \/ /\ e.name \notin OpenNames
                                        /\ e.old \/ ProcessState(e) \in {"Gone", "Reused"}}]
    /\ UNCHANGED <<pids, disk, running, opener, items, counts, history, answer>>

\* .database delete <pid>: the pid has to match exactly one folder
\* (ResolveDatabaseSelectors), and that one must not be open.
BeginDelete(f) ==
    /\ running = "up" /\ job.pc = "idle" /\ counts.jobs < MaxJobs
    /\ {g \in Names : folder[g].dir} = {f}
    /\ counts' = [counts EXCEPT !.jobs = @ + 1]
    /\ job' = [NoJob EXCEPT !.pc = "select", !.kind = "delete", !.todo = {FolderEntry(f)}]
    /\ UNCHANGED <<pids, disk, running, opener, items, history, answer>>

SelectDelete ==
    /\ job.pc = "select" /\ job.kind = "delete"
    /\ job' = IF \E e \in job.todo : e.name \in OpenNames THEN NoJob ELSE [job EXCEPT !.pc = "sweep"]
    /\ UNCHANGED <<pids, disk, running, opener, items, counts, history, answer>>

\* DeleteDatabaseFolder: the rename fails when the folder is gone or an
\* unfinished delete of the same name is in the way; the sweep goes on with
\* the next folder then.  In the order of the names a folder comes before its
\* <name>.deleting.
Rename(e) ==
    LET f == e.name IN
    /\ job.pc = "sweep" /\ job.cur = {} /\ e \in job.todo
    /\ e.pending => \A d \in job.todo : d.name = f => d.pending
    /\ \/ /\ e.pending
          /\ job' = [job EXCEPT !.cur = {e}]
          /\ UNCHANGED <<disk, items, opener>>
       \/ /\ ~e.pending /\ folder[f].dir /\ trash[f] # "full"
          /\ trash' = [trash EXCEPT ![f] = "full"]
          /\ folder' = [folder EXCEPT ![f] = Absent]
          /\ items' = Unlink(f, items)
          /\ opener' = UnlinkOpeners(f)
          /\ job' = [job EXCEPT !.cur = {e}]
       \/ /\ ~e.pending /\ (~folder[f].dir \/ trash[f] = "full")
          /\ job' = [job EXCEPT !.todo = @ \ {e}]
          /\ UNCHANGED <<disk, items, opener>>
    /\ UNCHANGED <<pids, running, counts, history, answer>>

\* fs::remove_all: first what is inside, then the folder.
RemoveAll(e) ==
    /\ job.cur = {e}
    /\ \/ /\ trash[e.name] = "full"
          /\ trash' = [trash EXCEPT ![e.name] = "empty"]
          /\ UNCHANGED job
       \/ /\ trash[e.name] # "full"
          /\ trash' = [trash EXCEPT ![e.name] = "none"]
          /\ job' = [job EXCEPT !.cur = {}, !.todo = @ \ {e}]
    /\ UNCHANGED <<pids, folder, running, opener, items, counts, history, answer>>

SweepEnd ==
    /\ job.pc = "sweep" /\ job.todo = {}
    /\ job' = NoJob
    /\ running' = "up"
    /\ UNCHANGED <<pids, disk, opener, items, counts, history, answer>>

-----------------------------------------------------------------------------
Next ==
    \/ Spawn \/ Exit \/ Age \/ Crash
    \/ \E o \in Openers : \/ BeginOpen(o) \/ Find(o) \/ Mkdir(o) \/ Test(o) \/ Reinit(o)
                          \/ WriteFolderMeta(o) \/ Register(o)
                          \/ \E f \in Names : OpenSaved(o, f)
    \/ \E i \in items : Write(i) \/ SaveEvidence(i) \/ AnswerRead(i) \/ CloseItem(i)
    \/ \E a \in answer : AnswerWrite(a)
    \/ Start \/ BeginCleanup \/ SelectCleanup \/ SelectDelete \/ SweepEnd
    \/ \E f \in Names : BeginDelete(f)
    \/ \E e \in Entry : Rename(e) \/ RemoveAll(e)

Spec == Init /\ [][Next]_vars

-----------------------------------------------------------------------------
(* Properties.                                                              *)

\* CreateProcItemFS: "the database of an earlier open is reused only for the
\* same process": an item shows nothing of another process, although the pid,
\* the program and even the name of the folder may be the same.  A saved one is
\* shown as what meta.xml says, see MetaTells.
OwnData ==
    \A i \in items : i.linked /\ i.known /\ (i.live \/ i.name \notin raced) =>
        folder[i.name].db \subseteq {i.key}

\* --proc-folder opens what meta.xml says: after a crash at any moment, the
\* data.db beside it has nothing of another process.  One thing undoes it: the
\* UI thread saves an answer from a meta.xml read before another process took
\* the folder.
MetaTells ==
    \A f \in Names \ raced : folder[f].hasDb /\ folder[f].meta \in Procs =>
        folder[f].db \subseteq {folder[f].meta}

\* "Opening the same process again reuses its database": the process that has
\* the pid has one folder that says so, although the name of the folder may
\* come out differently the second time, so that the next open finds all that
\* was saved for it; unless --overwrite-db asked for a new one.
ReopenFinds ==
    alive \in Procs \ overwritten =>
        \A f, g \in {h \in Names \ (raced \cup {Plain}) : folder[h].hasDb /\ folder[h].meta = alive} :
            f = g

\* CleanupExpiredProcFolders: after a start no delete is left half way, and no
\* folder that was expired: one whose place in the trash was taken when the
\* sweep came to it waits for the next start.
StartClears ==
    [][running = "starting" /\ running' = "up" => \A f \in Names : trash[f] = "none"]_vars

\* databases.md: "neither the start nor .database cleanup removes" a folder
\* with evidence.
EvidenceKept ==
    [][\A f \in Names : folder[f].ev /\ ~folder'[f].ev => job.kind = "delete"]_vars
=============================================================================
