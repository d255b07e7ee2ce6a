------------------------------- MODULE FileItem -------------------------------
(* FileWorkplaceItem: a file and its database in db/<sha1>/, which holds the  *)
(* file's module, the modules it depends on, their names, symbols, references *)
(* and analysis flags.  The first open is recognised by the missing row of    *)
(* the file's module and fills the database in several statements; a later    *)
(* open trusts what is there.  The analyzer then works on the open item.      *)
EXTENDS Integers

CONSTANTS
  FMain,       \* the address of the file's module
  FDeps,       \* the addresses of its dependencies
  NoRecord,    \* no description of a module
  Raw,         \* the kinds of files: TRUE for raw code, analyzed at its open
  MaxFTasks,   \* bound on the tasks of the analyzer
  MaxFEnds     \* bound on the ends of Orthia and on the opens that fail

ASSUME FileAssumption ==
  /\ FMain \in Nat /\ FDeps \subseteq Nat \ {FMain} /\ Raw \subseteq BOOLEAN
  /\ MaxFTasks \in Nat /\ MaxFEnds \in Nat
  /\ NoRecord \notin [flags : SUBSET {"analyzeDone", "privateDone", "symbolsLoaded"}]

FMods == {FMain} \cup FDeps

VARIABLES
  fconn, fdisk, ftx,   \* data.db of the file: the variables of ClassicDatabase
  fraw,     \* the file is raw code
  fpc,      \* the thread that works on the item
  fmod,     \* the module of the task
  ftask,    \* the task
  fleft,    \* the modules ReportModules has not reached, the symbols not flushed
  fcut,     \* the modules a failure left between statements that belong together
  ftasks, fends

fileVars == <<fraw, fpc, fmod, ftask, fleft, fcut, ftasks, fends>>
fdbVars == <<fconn, fdisk, ftx>>
fvars == <<fdbVars, fileVars>>

Db == INSTANCE ClassicDatabase
        WITH Addrs <- FMods, NoInfo <- NoRecord, conn <- fconn, disk <- fdisk, tx <- ftx

(* What is found in a module; the saver gives the lock away after the first. *)
FRefs(m, kind) == [from : {m}, part : {1, 2}, kind : {kind}]
FWanted(m, task) == IF task = "private" THEN FRefs(m, "code") \cup FRefs(m, "private")
                                        ELSE FRefs(m, "code")
Names(m, names) == [module : {m}, name : names]
Linked == {"name"}            \* imports of the file, exports of a dependency
Symbols == {"sym1", "sym2"}   \* private symbols, more than one batch of FlushToDB
FSizeOf(m) == 1

FlagsOf(m) == IF fconn.meta[m] = NoRecord THEN {} ELSE fconn.meta[m].flags

FileInit ==
  /\ Db!DbInit
  /\ fraw \in Raw /\ fpc = "closed" /\ fmod = FMain /\ ftask = "analyze" /\ fleft = {}
  /\ fcut = {} /\ ftasks = 0 /\ fends = 0

------------------------------------------------------------------------------
(* AddExecutable.                                                            *)

(* firstOpen; a later open loads no dependencies.                            *)
AddExecutable ==
  /\ fpc = "closed"
  /\ fpc' = IF Db!IsModuleExists(FMain) THEN "open" ELSE "register"
  /\ UNCHANGED <<fdbVars, fraw, fmod, ftask, fleft, fcut, ftasks, fends>>

(* The row of the module in a transaction of its own; raw code is analyzed   *)
(* in it.  Raw code has no dependencies to report.                           *)
RegisterMainModule ==
  /\ fpc = "register"
  /\ Db!Execute([Db!InsertModule(fconn, FMain, FSizeOf(FMain)) EXCEPT
                   !.refs = IF fraw THEN @ \cup FRefs(FMain, "code") ELSE @])
  /\ fleft' = IF fraw THEN {} ELSE FMods
  /\ fpc' = "report"
  /\ UNCHANGED <<fraw, fmod, ftask, fcut, ftasks, fends>>

(* A batch of the file's imports, or a dependency with its description and   *)
(* exports: one transaction each.                                            *)
ReportModules(m) ==
  /\ fpc = "report" /\ m \in fleft
  /\ LET row == IF m = FMain THEN fconn
                ELSE Db!InsertMetaInfo(Db!InsertModule(fconn, m, FSizeOf(m)), m, [flags |-> {}])
     IN Db!Execute([row EXCEPT !.names = @ \cup Names(m, Linked)])
  /\ fleft' = fleft \ {m}
  /\ UNCHANGED <<fraw, fpc, fmod, ftask, fcut, ftasks, fends>>

(* InsertModuleMetaInfo of the file's module, then RegisterItem.             *)
DescribeMain ==
  /\ fpc = "report" /\ fleft = {}
  /\ Db!Execute(Db!InsertMetaInfo(fconn, FMain, [flags |-> IF fraw THEN {"analyzeDone"} ELSE {}]))
  /\ fpc' = "open"
  /\ UNCHANGED <<fraw, fmod, ftask, fleft, fcut, ftasks, fends>>

------------------------------------------------------------------------------
(* The analyzer.                                                             *)

(* UpdateModuleMetaInfo changes the description that is there; without one   *)
(* nothing is saved.                                                         *)
WithFlags(m, set, remove) ==
  IF fconn.meta[m] = NoRecord THEN fconn
  ELSE [fconn EXCEPT !.meta[m].flags = (@ \cup set) \ remove]

(* The task reads the modules and their flags from the database.             *)
FStart(task, m) ==
  /\ fpc = "open" /\ Db!IsModuleExists(m) /\ ftasks < MaxFTasks
  /\ ftasks' = ftasks + 1
  /\ \/ task = "analyze" /\ "analyzeDone" \notin FlagsOf(m) /\ fpc' = "save"
     \/ task = "force" /\ fpc' = IF "analyzeDone" \in FlagsOf(m) THEN "clear" ELSE "save"
     \/ task = "private" /\ {"privateDone", "symbolsLoaded"} \cap FlagsOf(m) = {"symbolsLoaded"}
        /\ fpc' = "save"
     \/ task = "symbols" /\ "symbolsLoaded" \notin FlagsOf(m) /\ fpc' = "first"
  /\ ftask' = task /\ fmod' = m
  /\ UNCHANGED <<fdbVars, fraw, fleft, fcut, fends>>

FClear ==
  /\ fpc = "clear"
  /\ Db!Execute(Db!DeleteRefs(fconn, fmod))
  /\ fpc' = "unflag"
  /\ UNCHANGED <<fraw, fmod, ftask, fleft, fcut, ftasks, fends>>

FUnflag ==
  /\ fpc = "unflag"
  /\ Db!Execute(WithFlags(fmod, {}, {"analyzeDone"}))
  /\ fpc' = "save"
  /\ UNCHANGED <<fraw, fmod, ftask, fleft, fcut, ftasks, fends>>

(* SaveWithDedup: the row stays, what is missing is added.                   *)
FBegin ==
  /\ fpc = "save"
  /\ Db!BeginTransaction([fconn EXCEPT !.refs = @ \cup {r \in FWanted(fmod, ftask) : r.part = 1}])
  /\ fpc' = "commit"
  /\ UNCHANGED <<fraw, fmod, ftask, fleft, fcut, ftasks, fends>>

FCommit ==
  /\ fpc = "commit"
  /\ Db!CommitTransaction([fconn EXCEPT !.refs = @ \cup FWanted(fmod, ftask)])
  /\ fpc' = "flag"
  /\ UNCHANGED <<fraw, fmod, ftask, fleft, fcut, ftasks, fends>>

FRollback ==
  /\ fpc = "commit"
  /\ Db!RollbackTransaction
  /\ fpc' = "open"
  /\ UNCHANGED <<fraw, fmod, ftask, fleft, fcut, ftasks, fends>>

FFlag ==
  /\ fpc = "flag"
  /\ Db!Execute(WithFlags(fmod, {IF ftask = "private" THEN "privateDone" ELSE "analyzeDone"}, {}))
  /\ fpc' = "open"
  /\ UNCHANGED <<fraw, fmod, ftask, fleft, fcut, ftasks, fends>>

(* OnModuleSymbolsLoaded, with the first symbol: the flag is saved before    *)
(* any of the symbols is.                                                    *)
FFirstSymbol ==
  /\ fpc = "first"
  /\ Db!Execute(WithFlags(fmod, {"symbolsLoaded"}, {}))
  /\ fleft' = Symbols
  /\ fpc' = "flush"
  /\ UNCHANGED <<fraw, fmod, ftask, fcut, ftasks, fends>>

\* Mutant: the first batch is taken for all of them.
FlushOnce(s) ==
  /\ fpc = "flush" /\ s \in fleft
  /\ Db!Execute([fconn EXCEPT !.names = @ \cup Names(fmod, {s})])
  /\ fleft' = {} /\ fpc' = "open"
  /\ UNCHANGED <<fraw, fmod, ftask, fcut, ftasks, fends>>

(* FlushToDB, a batch at a time.                                             *)
FlushToDB(s) ==
  /\ fpc = "flush" /\ s \in fleft
  /\ Db!Execute([fconn EXCEPT !.names = @ \cup Names(fmod, {s})])
  /\ fleft' = fleft \ {s}
  /\ fpc' = IF fleft' = {} THEN "open" ELSE "flush"
  /\ UNCHANGED <<fraw, fmod, ftask, fcut, ftasks, fends>>

------------------------------------------------------------------------------
(* The modules whose statements are not all done.                            *)
Unfinished == CASE fpc = "report" -> fleft \cup {FMain}
                [] fpc \in {"unflag", "flush"} -> {fmod}
                [] OTHER -> {}

(* An exception in AddExecutable, or in the thread of the analyzer.          *)
FFail ==
  /\ fpc \in {"register", "report", "unflag", "save", "flush"} /\ fends < MaxFEnds
  /\ fends' = fends + 1
  /\ fpc' = IF fpc \in {"register", "report"} THEN "closed" ELSE "open"
  /\ fcut' = fcut \cup Unfinished /\ fleft' = {}
  /\ UNCHANGED <<fdbVars, fraw, fmod, ftask, ftasks>>

(* Orthia ends.                                                              *)
FEnd ==
  /\ fpc # "closed" /\ fends < MaxFEnds
  /\ fends' = fends + 1
  /\ Db!Reconnect
  /\ fpc' = "closed" /\ fcut' = fcut \cup Unfinished /\ fleft' = {}
  /\ fmod' = FMain /\ ftask' = "analyze"
  /\ UNCHANGED <<fraw, ftasks>>

FileNext ==
  \/ AddExecutable \/ RegisterMainModule \/ DescribeMain
  \/ \E m \in FMods : ReportModules(m)
  \/ \E task \in {"analyze", "force", "private", "symbols"}, m \in FMods : FStart(task, m)
  \/ FClear \/ FUnflag \/ FBegin \/ FCommit \/ FRollback \/ FFlag \/ FFirstSymbol
  \/ \E s \in Symbols : FlushToDB(s)
  \/ FFail \/ FEnd

FileSpec == FileInit /\ [][FileNext]_fvars

------------------------------------------------------------------------------
(* What the flags of a module say of its tables is true, at every moment on  *)
(* the disk, so that a reopen can trust it: "analyzed" comes after the       *)
(* COMMIT of the references, "symbols loaded" is made true by FlushToDB.     *)
(* Not for a module where a failure fell between statements that belong      *)
(* together, and not in between.                                             *)
FileFlagsTell ==
  \A m \in FMods \ (fcut \cup Unfinished) :
    fdisk.meta[m] # NoRecord =>
      /\ "analyzeDone" \in fdisk.meta[m].flags => FRefs(m, "code") \subseteq fdisk.refs
      /\ "symbolsLoaded" \in fdisk.meta[m].flags => Names(m, Symbols) \subseteq fdisk.names

(* An item that is open has everything its first open was to save, the file  *)
(* and its dependencies with descriptions and names, also when that open was *)
(* another one: a database that looks complete is.  Not when that open was   *)
(* cut short.                                                                *)
OpenIsWhole ==
  fpc \notin {"closed", "register", "report"} =>
    /\ FMain \notin fcut => fconn.meta[FMain] # NoRecord
    /\ ~fraw => \A m \in FMods \ fcut :
         fconn.meta[m] # NoRecord /\ Names(m, Linked) \subseteq fconn.names

(* The database of a file can be believed, by its flags and by its rows.     *)
FileTells == FileFlagsTell /\ OpenIsWhole

(* Names and descriptions on the disk stay, whatever the analysis saves: a   *)
(* replaced row of tbl_modules would take them along (ON DELETE CASCADE).    *)
NamesStay ==
  [][/\ fdisk.names \subseteq fdisk'.names
     /\ \A m \in FMods : fdisk.meta[m] # NoRecord => fdisk'.meta[m] # NoRecord]_fvars
===============================================================================
