----------------------------- MODULE ProcessItem -----------------------------
(* CProcessWorkplaceItem: the modules of a process, their analysis flags and *)
(* the rows of data.db that follow the module list.  Two threads work on an  *)
(* open item: the analyzer's (one task at a time: .analyze, .analyze /f, the  *)
(* analysis with private symbols, loading symbols) and the UI's (F5 reloads   *)
(* the modules, ; writes a comment).  The process loads and unloads modules   *)
(* meanwhile, and Orthia may end at any moment and open the process, or after *)
(* its exit the saved folder, again.                                          *)
EXTENDS ClassicDatabase

CONSTANTS
  Builds,     \* the module files the process may load; each has an identity
  Main,       \* the image of the process, loaded as long as it runs
  Targets,    \* the modules that are analyzed
  BaseOf,     \* where each is loaded
  SizeOf,     \* its size in addresses
  FileOf,     \* its path: builds of one file share it
  Comments,   \* the comments the user may write
  NoBuild,    \* no module
  MaxCrashes, \* bound on the ends of Orthia
  MaxLoads,   \* bound on the modules the process loads after its start
  MaxTasks,   \* bound on the tasks of the analyzer
  MaxReloads  \* bound on the reloads the user asks for

Flags == {"analyzeDone", "privateDone", "symbolsLoaded"}
(* g_savedProcessModuleFlags *)
SavedFlags == {"analyzeDone", "privateDone"}
Tasks == {"analyze", "force", "private", "symbols"}

RangeOf(b) == BaseOf[b]..(BaseOf[b] + SizeOf[b] - 1)
Infos == [build : Builds \cup {NoBuild}, flags : SUBSET SavedFlags, ident : Builds \cup {NoBuild}]

ASSUME ItemAssumption ==
  /\ Addrs \subseteq Nat
  /\ BaseOf \in [Builds -> Addrs] /\ SizeOf \in [Builds -> Nat \ {0}]
  /\ \A b \in Builds : RangeOf(b) \subseteq Addrs
  /\ NoBuild \notin Builds /\ Main \in Builds /\ NoInfo \notin Infos
  /\ MaxCrashes \in Nat /\ MaxLoads \in Nat /\ MaxTasks \in Nat /\ MaxReloads \in Nat

VARIABLES
  loaded,   \* the modules of the process now
  alive,    \* the process runs
  listed,   \* m_osModules, with the identities of m_savedModules
  xml,      \* modules.xml
  flags,    \* m_moduleFlags
  view,     \* "closed", "live" or "saved"
  opened,   \* the item is shown: the analyzer and the user reach it
  upc, ulist, urows, udrop, urestore,  \* the UI thread
  apc, atask, amod, abuild, ainfo,     \* the analyzer thread
  spoilt,   \* the addresses where a step met one of the windows named below
  loads, crashes, tasks, reloads

uiVars == <<upc, ulist, urows, udrop, urestore>>
anVars == <<apc, atask, amod, abuild, ainfo>>
procVars == <<loaded, alive, loads>>
itemVars == <<listed, xml, flags, view, opened, crashes, tasks, reloads>>
piVars == <<dbVars, procVars, itemVars, uiVars, anVars, spoilt>>

Overlap(b, c) == RangeOf(b) \cap RangeOf(c) # {}
BuildAt(list, a) == IF \E b \in list : BaseOf[b] = a
                    THEN CHOOSE b \in list : BaseOf[b] = a ELSE NoBuild

(* What the analysis of a build finds, by the address it is made from; its   *)
(* private symbols lead to more.                                             *)
Found(b, kind) == [build : {b}, from : RangeOf(b), kind : {kind}]
Wanted(b, task) == IF task = "private" THEN Found(b, "code") \cup Found(b, "private")
                                       ELSE Found(b, "code")
(* The part saved before the saver first gives the lock away.                *)
FirstPart(b, task) == {r \in Wanted(b, task) : r.from = BaseOf[b]}

(* The analyzer is inside a save: m_writeLock is taken.                      *)
Saving == apc = "save"
Busy == apc # "idle"

ItemInit ==
  /\ DbInit
  /\ \E b \in Builds : (b # Main => ~Overlap(b, Main)) /\ loaded = {Main, b}
  /\ alive = TRUE /\ loads = 0
  /\ listed = {} /\ xml = {} /\ flags = [a \in Addrs |-> {}]
  /\ view = "closed" /\ opened = FALSE
  /\ upc = "idle" /\ ulist = {} /\ urows = EmptyDb.rows /\ udrop = {}
  /\ urestore = [a \in Addrs |-> {}]
  /\ apc = "idle" /\ atask = "analyze" /\ amod = NoBuild /\ abuild = NoBuild /\ ainfo = NoInfo
  /\ spoilt = {} /\ crashes = 0 /\ tasks = 0 /\ reloads = 0

------------------------------------------------------------------------------
(* The process.                                                              *)

(* Window: a module goes or comes at the place of the one under analysis.    *)
RaceAt(b) == IF Busy /\ Overlap(b, amod) THEN RangeOf(b) \cup RangeOf(amod) ELSE {}

OsLoad(b) ==
  /\ alive /\ loads < MaxLoads
  /\ \A c \in loaded : ~Overlap(b, c)
  /\ loaded' = loaded \cup {b} /\ loads' = loads + 1
  /\ spoilt' = spoilt \cup RaceAt(b)
  /\ UNCHANGED <<dbVars, alive, itemVars, uiVars, anVars>>

OsUnload(b) ==
  /\ alive /\ b \in loaded \ {Main}
  /\ loaded' = loaded \ {b}
  /\ spoilt' = spoilt \cup RaceAt(b)
  /\ UNCHANGED <<dbVars, alive, loads, itemVars, uiVars, anVars>>

OsExit ==
  /\ alive
  /\ alive' = FALSE /\ loaded' = {}
  /\ spoilt' = spoilt \cup UNION {RaceAt(b) : b \in loaded}
  /\ UNCHANGED <<dbVars, loads, itemVars, uiVars, anVars>>

------------------------------------------------------------------------------
(* Opening and reloading: ReloadModules.                                     *)

(* QueryModules: what the OS reports, nothing once the process has exited; a *)
(* saved process has the list of modules.xml.                                *)
QueryModules(v) == IF v = "saved" THEN xml ELSE loaded

(* The item is made with the list of a running process, or of modules.xml.   *)
Open(v) ==
  /\ view = "closed" /\ upc = "idle"
  /\ v = IF alive THEN "live" ELSE "saved"
  /\ view' = v
  /\ upc' = "apply" /\ ulist' = QueryModules(v)
  /\ UNCHANGED <<dbVars, procVars, listed, xml, flags, opened, crashes, tasks, reloads,
                 urows, udrop, urestore, anVars, spoilt>>

(* F5 in the modules window.                                                 *)
ReloadModules ==
  /\ opened /\ upc = "idle" /\ reloads < MaxReloads
  /\ reloads' = reloads + 1
  /\ upc' = "apply" /\ ulist' = QueryModules(view)
  /\ UNCHANGED <<dbVars, procVars, listed, xml, flags, view, opened, crashes, tasks,
                 urows, udrop, urestore, anVars, spoilt>>

(* The module is the one the flags were kept for: its place, size and path.  *)
Stays(old, list) == \E b \in list : /\ BaseOf[b] = BaseOf[old]
                                    /\ SizeOf[b] = SizeOf[old]
                                    /\ FileOf[b] = FileOf[old]

(* Under m_lock: the flags of the modules that went go with them.            *)
ApplyList ==
  /\ upc = "apply"
  /\ listed' = ulist
  /\ flags' = [a \in Addrs |-> IF \E old \in listed : BaseOf[old] = a /\ ~Stays(old, ulist)
                               THEN {} ELSE flags[a]]
  /\ spoilt' = spoilt \cup UNION {RaceAt(b) : b \in (listed \ ulist) \cup (ulist \ listed)}
  /\ upc' = IF view = "saved" THEN "rows" ELSE "xml"
  /\ UNCHANGED <<dbVars, procVars, xml, view, opened, crashes, tasks, reloads,
                 ulist, urows, udrop, urestore, anVars>>

(* SaveModuleList: modules.xml is replaced whole.                            *)
SaveModuleList ==
  /\ upc = "xml"
  /\ xml' = listed
  /\ upc' = "rows"
  /\ UNCHANGED <<dbVars, procVars, listed, flags, view, opened, crashes, tasks, reloads,
                 ulist, urows, udrop, urestore, anVars, spoilt>>

------------------------------------------------------------------------------
(* SyncDatabaseModules.                                                      *)

QueryRows ==
  /\ upc = "rows"
  /\ urows' = conn.rows
  /\ upc' = "meta"
  /\ UNCHANGED <<dbVars, procVars, itemVars, ulist, udrop, urestore, anVars, spoilt>>

RowRange(rows, a) == a..(a + rows[a] - 1)
Over(rows, a) == {b \in listed : RangeOf(b) \cap RowRange(rows, a) # {}}

\* Mutant: another build of the same file at the same place is taken for it.
SameFile(a, b, info) == info # NoInfo => /\ SizeOf[info.build] = SizeOf[b]
                                         /\ FileOf[info.build] = FileOf[b]

(* The row's module is listed at its address; when a record tells more, its  *)
(* size, path and build are the listed module's.                             *)
Same(a, b, info) ==
  info # NoInfo => /\ SizeOf[info.build] = SizeOf[b]
                   /\ FileOf[info.build] = FileOf[b]
                   /\ info.ident \in {NoBuild, b}

RowIsSame(rows, a) == \E b \in Over(rows, a) : BaseOf[b] = a /\ Same(a, b, conn.meta[a])

\* Mutant: a row that no listed module overlaps is dropped as well.
MustDropUnloaded(rows, a) == view # "saved" /\ ~RowIsSame(rows, a)

(* Another module is listed at the place of the row.                         *)
Replaced(rows, a) == Over(rows, a) # {} /\ ~RowIsSame(rows, a)
MustDrop(rows, a) == view # "saved" /\ Replaced(rows, a)

(* QueryMetaInfo and what follows from it for every row read before.         *)
QueryMeta ==
  /\ upc = "meta"
  /\ udrop' = {a \in Addrs : urows[a] # 0 /\ MustDrop(urows, a)}
  /\ urestore' = [a \in Addrs |->
       IF urows[a] # 0 /\ RowIsSame(urows, a) /\ conn.meta[a] # NoInfo
       THEN conn.meta[a].flags \cap SavedFlags ELSE {}]
  /\ upc' = "drop"
  /\ UNCHANGED <<dbVars, procVars, itemVars, ulist, urows, anVars, spoilt>>

(* The rows still to drop, in the order of the query.                        *)
Pending == {a \in udrop : urows[a] # 0}
NextDrop == CHOOSE a \in Pending : \A c \in Pending : a <= c

\* Mutant: the comments in the module go with it.
DeleteModuleComments(tables, a) ==
  [DeleteRow(DeleteRefs(tables, a), a) EXCEPT !.comments = {}]

(* UnloadModule: two statements under m_lock, outside of any transaction.    *)
DeleteModule(tables, a) == DeleteRow(DeleteRefs(tables, a), a)

(* m_writeLock is waited for; a row that went meanwhile is an error that is  *)
(* caught.                                                                   *)
UnloadModule ==
  /\ upc = "drop" /\ Pending # {} /\ ~Saving
  /\ IF IsModuleExists(NextDrop) THEN Execute(DeleteModule(conn, NextDrop)) ELSE UNCHANGED dbVars
  /\ urows' = [urows EXCEPT ![NextDrop] = 0]
  /\ UNCHANGED <<procVars, itemVars, upc, ulist, udrop, urestore, anVars, spoilt>>

(* Window: flags read before an analysis changed them, put back after it.    *)
StaleFlags == UNION {RowRange(conn.rows, a) : a \in {a \in Addrs : urestore[a] # {} /\
                       \/ Busy /\ BaseOf[amod] = a
                       \/ conn.meta[a] = NoInfo \/ conn.meta[a].flags # urestore[a]}}

(* Under m_lock: the flags of what was dropped go, the saved ones come back. *)
RestoreFlags ==
  /\ upc = "drop" /\ Pending = {}
  /\ flags' = [a \in Addrs |-> (IF a \in udrop THEN {} ELSE flags[a]) \cup urestore[a]]
  /\ upc' = "idle" /\ opened' = TRUE
  /\ ulist' = {} /\ urows' = EmptyDb.rows /\ udrop' = {} /\ urestore' = [a \in Addrs |-> {}]
  /\ spoilt' = spoilt \cup StaleFlags
  /\ UNCHANGED <<dbVars, procVars, listed, xml, view, crashes, tasks, reloads, anVars>>

(* SyncWriteComment: one statement, which joins the transaction of a save    *)
(* that has given the lock away.                                             *)
WriteComment(c) ==
  /\ opened /\ upc = "idle" /\ c \notin conn.comments
  /\ Execute([conn EXCEPT !.comments = @ \cup {c}])
  /\ UNCHANGED <<procVars, itemVars, uiVars, anVars, spoilt>>

------------------------------------------------------------------------------
(* The analyzer thread.                                                      *)

(* UpdateModuleFlags under m_lock: the flags of the address, and the module  *)
(* that is listed there now.                                                 *)
SetFlags(base, set, remove) ==
  /\ flags' = [flags EXCEPT ![base] = (@ \cup set) \ remove]
  /\ ainfo' = [build |-> BuildAt(listed, base), flags |-> flags'[base] \cap SavedFlags,
               ident |-> NoBuild]

(* Rows of other modules at its place: still to be dropped by the reload     *)
(* that listed it, kept because this is a saved process, or left without a   *)
(* description.                                                              *)
Misfits(b) ==
  {a \in Addrs : /\ RowRange(conn.rows, a) \cap RangeOf(b) # {}
                 /\ ~(a = BaseOf[b] /\ conn.rows[a] = SizeOf[b] /\ Same(a, b, conn.meta[a]))}

(* The task starts with a copy of the module and its flags.  Windows: the    *)
(* process has another module there since the list was read; it is saved     *)
(* into or beside the row of another one.                                    *)
StartTask(task, b) ==
  /\ opened /\ ~Busy /\ b \in listed \cap Targets /\ tasks < MaxTasks
  /\ tasks' = tasks + 1
  /\ \/ task = "analyze" /\ "analyzeDone" \notin flags[BaseOf[b]] /\ apc' = "begin"
     \/ task = "force" /\ apc' = IF "analyzeDone" \in flags[BaseOf[b]] THEN "clear" ELSE "begin"
     \/ task = "private" /\ apc' = "begin"
        /\ "privateDone" \notin flags[BaseOf[b]] /\ "symbolsLoaded" \in flags[BaseOf[b]]
  /\ atask' = task /\ amod' = b /\ abuild' = NoBuild /\ ainfo' = NoInfo
  /\ spoilt' = spoilt
       \cup (IF b \in loaded \/ view = "saved" THEN {}
             ELSE RangeOf(b) \cup UNION {RangeOf(c) : c \in loaded})
       \cup (IF BaseOf[b] \in udrop \/ Misfits(b) # {} THEN RangeOf(b) ELSE {})
       \cup UNION {RowRange(conn.rows, a) : a \in Misfits(b)}
  /\ UNCHANGED <<dbVars, procVars, listed, xml, flags, view, opened, crashes, reloads, uiVars>>

(* OnModuleSymbolsLoaded: the symbols of a process stay in memory.           *)
LoadSymbols(b) ==
  /\ opened /\ ~Busy /\ b \in listed \cap Targets /\ "symbolsLoaded" \notin flags[BaseOf[b]]
  /\ flags' = [flags EXCEPT ![BaseOf[b]] = @ \cup {"symbolsLoaded"}]
  /\ UNCHANGED <<dbVars, procVars, listed, xml, view, opened, crashes, tasks, reloads,
                 uiVars, anVars, spoilt>>

(* .analyze /f: ClearModuleReferences, one statement on its own.             *)
ClearReferences ==
  /\ apc = "clear"
  /\ Execute(IF IsModuleExists(BaseOf[amod]) THEN DeleteRefs(conn, BaseOf[amod]) ELSE conn)
  /\ apc' = "unflag"
  /\ UNCHANGED <<procVars, itemVars, uiVars, atask, amod, abuild, ainfo, spoilt>>

ClearFlag ==
  /\ apc = "unflag"
  /\ SetFlags(BaseOf[amod], {}, {"analyzeDone"})
  /\ apc' = "ident0"
  /\ UNCHANGED <<dbVars, procVars, listed, xml, view, opened, crashes, tasks, reloads, uiVars,
                 atask, amod, abuild, spoilt>>

Idle == apc' = "idle" /\ amod' = NoBuild /\ abuild' = NoBuild /\ ainfo' = NoInfo

(* CDianaModule::Init reads whatever is at the address now; the analysis and *)
(* the save follow under m_writeLock.  Only an analysis makes a missing row; *)
(* window: the references of the private symbols without one.                *)
BeginSave(b) ==
  /\ apc = "begin"
  /\ b = IF view = "saved" THEN amod ELSE BuildAt(loaded, BaseOf[amod])
  /\ b # NoBuild
  /\ LET start == IF atask # "private" /\ ~IsModuleExists(BaseOf[b])
                  THEN InsertModule(conn, BaseOf[b], SizeOf[b]) ELSE conn
     IN BeginTransaction([start EXCEPT !.refs = @ \cup FirstPart(b, atask)])
  /\ abuild' = b
  /\ apc' = "save"
  /\ spoilt' = IF atask = "private" /\ ~IsModuleExists(BaseOf[b])
               THEN spoilt \cup RangeOf(b) ELSE spoilt
  /\ UNCHANGED <<procVars, itemVars, uiVars, atask, amod, ainfo>>

\* Mutant: the analysis is called done when the save has begun.
CommitHalf ==
  /\ apc = "save"
  /\ CommitTransaction(conn)
  /\ apc' = "flag"
  /\ UNCHANGED <<procVars, itemVars, uiVars, atask, amod, abuild, ainfo, spoilt>>

CommitSave ==
  /\ apc = "save"
  /\ CommitTransaction([conn EXCEPT !.refs = @ \cup Wanted(abuild, atask)])
  /\ apc' = "flag"
  /\ UNCHANGED <<procVars, itemVars, uiVars, atask, amod, abuild, ainfo, spoilt>>

(* Memory that can't be read, a file that isn't there: nothing was begun.    *)
FailAnalysis ==
  /\ apc = "begin"
  /\ Idle
  /\ UNCHANGED <<dbVars, procVars, itemVars, uiVars, atask, spoilt>>

(* A failed statement: the whole transaction goes.                           *)
FailSave ==
  /\ apc = "save"
  /\ RollbackTransaction
  /\ Idle
  /\ UNCHANGED <<procVars, itemVars, uiVars, atask, spoilt>>

DoneFlag == IF atask = "private" THEN "privateDone" ELSE "analyzeDone"

SetDone ==
  /\ apc = "flag"
  /\ SetFlags(BaseOf[amod], {DoneFlag}, {})
  /\ apc' = "ident"
  /\ UNCHANGED <<dbVars, procVars, listed, xml, view, opened, crashes, tasks, reloads, uiVars,
                 atask, amod, abuild, spoilt>>

(* QuerySavedIdentity, in its own section of m_lock.                         *)
QueryIdentity ==
  /\ apc \in {"ident0", "ident"}
  /\ ainfo' = [ainfo EXCEPT !.ident = BuildAt(listed, BaseOf[amod])]
  /\ apc' = IF apc = "ident0" THEN "info0" ELSE "info"
  /\ UNCHANGED <<dbVars, procVars, itemVars, uiVars, atask, amod, abuild, spoilt>>

(* SaveModuleFlags: nothing without a listed module or without its row.      *)
SaveFlags ==
  /\ apc \in {"info0", "info"}
  /\ IF ainfo.build = NoBuild THEN UNCHANGED dbVars
     ELSE Execute(InsertMetaInfo(conn, BaseOf[amod], ainfo))
  /\ IF apc = "info0" THEN apc' = "begin" /\ UNCHANGED <<amod, abuild, ainfo>> ELSE Idle
  /\ UNCHANGED <<procVars, itemVars, uiVars, atask, spoilt>>

------------------------------------------------------------------------------
(* Orthia ends; what it had in memory is gone.                               *)
Forget ==
  /\ crashes < MaxCrashes /\ crashes' = crashes + 1
  /\ listed' = {} /\ flags' = [a \in Addrs |-> {}] /\ view' = "closed" /\ opened' = FALSE
  /\ upc' = "idle" /\ ulist' = {} /\ urows' = EmptyDb.rows /\ udrop' = {}
  /\ urestore' = [a \in Addrs |-> {}]
  /\ Idle /\ atask' = "analyze"
  /\ UNCHANGED <<procVars, xml, tasks, reloads>>

(* Window: the analyzer is between the statements that clear the references and the  *)
(* flag, or that save a new row and its description.                         *)
Between == \/ apc \in {"unflag", "ident0", "info0"}
           \/ apc \in {"flag", "ident", "info"} /\ conn.meta[BaseOf[amod]] = NoInfo
HalfDone == IF Between THEN RangeOf(amod) ELSE {}

End ==
  /\ view # "closed"
  /\ Forget
  /\ Reconnect
  /\ spoilt' = spoilt \cup HalfDone

(* Between the two statements of UnloadModule.                               *)
EndInUnload ==
  /\ upc = "drop" /\ Pending # {} /\ ~Saving /\ IsModuleExists(NextDrop)
  /\ Forget
  /\ conn' = DeleteRefs(conn, NextDrop) /\ disk' = conn' /\ tx' = FALSE
  /\ spoilt' = spoilt \cup RowRange(conn.rows, NextDrop) \cup HalfDone

ItemNext ==
  \/ \E b \in Builds : OsLoad(b) \/ OsUnload(b) \/ LoadSymbols(b) \/ BeginSave(b)
  \/ OsExit
  \/ \E v \in {"live", "saved"} : Open(v)
  \/ ReloadModules \/ ApplyList \/ SaveModuleList \/ QueryRows \/ QueryMeta
  \/ UnloadModule \/ RestoreFlags
  \/ \E c \in Comments : WriteComment(c)
  \/ \E task \in Tasks \ {"symbols"}, b \in Builds : StartTask(task, b)
  \/ ClearReferences \/ ClearFlag \/ CommitSave \/ FailAnalysis \/ FailSave
  \/ SetDone \/ QueryIdentity \/ SaveFlags
  \/ End \/ EndInUnload

ItemSpec == ItemInit /\ [][ItemNext]_piVars

------------------------------------------------------------------------------
References == UNION {Found(b, k) : b \in Builds, k \in {"code", "private"}}
TablesOK(t) ==
  /\ \A a \in Addrs : t.rows[a] \in Nat /\ t.meta[a] \in Infos \cup {NoInfo}
  /\ t.refs \subseteq References /\ t.comments \subseteq Comments

(* Every variable keeps its type, and metainfo belongs to a row of           *)
(* tbl_modules (its foreign key).                                            *)
ItemTypeOK ==
  /\ TablesOK(conn) /\ TablesOK(disk) /\ tx \in BOOLEAN
  /\ \A a \in Addrs : conn.rows[a] = 0 => conn.meta[a] = NoInfo
  /\ loaded \subseteq Builds /\ listed \subseteq Builds /\ xml \subseteq Builds
  /\ alive \in BOOLEAN /\ opened \in BOOLEAN /\ view \in {"closed", "live", "saved"}
  /\ flags \in [Addrs -> SUBSET Flags]
  /\ upc \in {"idle", "apply", "xml", "rows", "meta", "drop"}
  /\ ulist \subseteq Builds /\ urows \in [Addrs -> Nat] /\ udrop \subseteq Addrs
  /\ urestore \in [Addrs -> SUBSET SavedFlags]
  /\ apc \in {"idle", "clear", "unflag", "ident0", "info0", "begin", "save", "flag", "ident", "info"}
  /\ atask \in Tasks /\ amod \in Builds \cup {NoBuild} /\ abuild \in Builds \cup {NoBuild}
  /\ ainfo \in Infos \cup {NoInfo}
  /\ spoilt \subseteq Addrs
  /\ tx <=> apc = "save"

Clean(b) == RangeOf(b) \cap spoilt = {}

(* The metainfo on the disk says "analyzed" only of a build whose references *)
(* are all on the disk (the analysis, COMMIT, then the flag): what a reopen  *)
(* restores is true, also after an end in the middle of a save.  Not where a *)
(* window was met, and not while .analyze /f clears references and flag.     *)
DiskTells ==
  \A a \in Addrs :
    LET info == disk.meta[a]
    IN (/\ info # NoInfo /\ "analyzeDone" \in info.flags /\ Clean(info.build)
        /\ ~(apc \in {"unflag", "ident0", "info0"} /\ BaseOf[amod] = a))
       => info.ident = info.build /\ Found(info.build, "code") \subseteq disk.refs

Quiet == opened /\ upc = "idle" /\ ~Busy

(* What the user sees as analyzed has all its references, and none that      *)
(* another module at its place left behind (SyncDatabaseModules).            *)
AnalyzedIsOwn ==
  Quiet => \A b \in listed :
    "analyzeDone" \in flags[BaseOf[b]] /\ Clean(b)
    => /\ Found(b, "code") \subseteq conn.refs
       /\ \A r \in conn.refs : r.from \in RangeOf(b) => r.build = b

(* The flags of a listed module are the ones its record has, so a reopen     *)
(* shows the module as it was (docs: "gets it back (its flags too)").        *)
FlagsFollow ==
  Quiet => \A b \in listed : Clean(b) =>
    LET info == conn.meta[BaseOf[b]]
    IN IF info # NoInfo /\ info.ident = b
       THEN flags[BaseOf[b]] \cap SavedFlags = info.flags
       ELSE flags[BaseOf[b]] \cap SavedFlags = {}

(* When nothing is under way, the item shows what its database has.          *)
ItemTells == AnalyzedIsOwn /\ FlagsFollow

(* Comments belong to addresses: none that was committed ever goes, and one  *)
(* that was not goes only with the transaction it was written into.          *)
CommentsStay ==
  [][/\ disk.comments \subseteq disk'.comments
     /\ conn.comments \subseteq conn'.comments \/ tx]_piVars

(* docs/databases.md: modules.xml is what the OS reported as the modules of  *)
(* the process, to open the folder after the process exited.  The list of an *)
(* exited process is never replaced by one without its image.                *)
SavedKeepsModules == [][~alive /\ Main \in xml => Main \in xml']_piVars

(* The references of a module that unloaded are evidence: they go only when  *)
(* the live process has another module at their place, or with .analyze /f;  *)
(* a saved process keeps them all.                                           *)
EvidenceStays ==
  [][\A r \in disk.refs \ disk'.refs :
       \/ apc = "clear" /\ r.from \in RangeOf(amod)
       \/ view = "live" /\ \E b \in listed : b # r.build /\ Overlap(b, r.build)
       \/ r.from \in spoilt]_piVars
=============================================================================
