---------------------------- MODULE DatabaseFile ----------------------------
(* CDatabase: data.db is created, or opened and brought to the current       *)
(* version, by any number of Orthia processes at once (the UI and --cmd runs *)
(* share the folders).  DoVersionScripts reads the version and runs the      *)
(* missing scripts in one transaction; two of the scripts flip the addresses *)
(* in a table, so running one twice would flip them back.                    *)
(* The locks of SQLite and the file system are external.                     *)
EXTENDS Integers

CONSTANTS
  Openers,     \* the processes that open the database
  NoOpener,
  Versions,    \* the versions the file may have at the start, 0 for no file
  Forces,      \* --overwrite-db: the values it may have
  Keeps,       \* TRUE: a file that is open elsewhere can't be deleted (Windows)
  MaxEnds      \* bound on the processes that end in the middle

Current == 5   \* ORTHIA_CURRENT_DB_VERSION_INT

(* refs, mods: the tables of CreateNew are there; flips: how often the       *)
(* addresses of tbl_references and of tbl_metainfo were flipped; kinds: the  *)
(* ref_kind columns.                                                         *)
Blank == [refs |-> FALSE, mods |-> FALSE, version |-> 0, rflips |-> 0, mflips |-> 0, kinds |-> 0]
Made(v) == [refs |-> TRUE, mods |-> TRUE, version |-> v, rflips |-> IF v >= 3 THEN 1 ELSE 0,
            mflips |-> IF v >= 4 THEN 1 ELSE 0, kinds |-> IF v >= 5 THEN 1 ELSE 0]

ASSUME OpenersAssumption ==
  /\ NoOpener \notin Openers /\ Versions \subseteq Nat
  /\ Forces \subseteq BOOLEAN /\ Keeps \subseteq BOOLEAN /\ MaxEnds \in Nat

(* A file keeps its contents for those who have it open when it is deleted:  *)
(* the first file, and one for each process that makes a new one.            *)
Files == Openers \cup {NoOpener}

VARIABLES
  name,     \* the file the path leads to
  files,    \* the committed contents
  pages,    \* the contents the writer of a file sees
  writer,   \* who holds RESERVED on a file
  dpc, at, force,   \* per process: its step, the file it opened, --overwrite-db
  shared,   \* the processes that hold SHARED on their file
  keeps,    \* the platform
  torn,     \* the files a process left between the two statements of CreateNew
  ends

dfVars == <<name, files, pages, writer, dpc, at, force, shared, keeps, torn, ends>>

DatabaseFileInit ==
  /\ \E v \in Versions : files = [f \in Files |-> IF f = NoOpener /\ v # 0 THEN Made(v) ELSE Blank]
  /\ name = NoOpener /\ pages = files /\ writer = [f \in Files |-> NoOpener]
  /\ dpc = [o \in Openers |-> "start"] /\ at = [o \in Openers |-> NoOpener]
  /\ force \in [Openers -> Forces] /\ shared = {} /\ keeps \in Keeps
  /\ torn = {} /\ ends = 0

Others(o) == {p \in Openers \ {o} : at[p] = at[o] /\ dpc[p] \notin {"start", "failed", "ended"}}
Goto(o, step) == dpc' = [dpc EXCEPT ![o] = step]

------------------------------------------------------------------------------
(* Reinit: a file that is missing or empty is made.                          *)
Reinit(o) ==
  /\ dpc[o] = "start"
  /\ Goto(o, IF force[o] \/ files[name] = Blank THEN "delete" ELSE "open")
  /\ UNCHANGED <<name, files, pages, writer, at, force, shared, keeps, torn, ends>>

IsOpen(f) == \E p \in Openers : at[p] = f /\ dpc[p] \notin {"start", "delete", "open", "broken", "failed", "ended"}

(* PlatformDeleteFile, whose failure is ignored, and the open that follows.  *)
CreateNew(o) ==
  /\ dpc[o] = "delete"
  /\ name' = IF keeps /\ IsOpen(name) THEN name ELSE o
  /\ at' = [at EXCEPT ![o] = name']
  /\ Goto(o, "refs")
  /\ UNCHANGED <<files, pages, writer, force, shared, keeps, torn, ends>>

OpenExisting(o) ==
  /\ dpc[o] = "open"
  /\ at' = [at EXCEPT ![o] = name]
  /\ Goto(o, "begin")
  /\ UNCHANGED <<name, files, pages, writer, force, shared, keeps, torn, ends>>

(* A statement on its own: it needs the file for itself.                     *)
Alone(o) == writer[at[o]] = NoOpener /\ \A p \in Others(o) : p \notin shared

(* CREATE TABLE IF NOT EXISTS, outside of a transaction.                     *)
CreateTable(o, table, step) ==
  /\ Alone(o)
  /\ files' = [files EXCEPT ![at[o]] = IF table = "refs" THEN [@ EXCEPT !.refs = TRUE]
                                                         ELSE [@ EXCEPT !.mods = TRUE]]
  /\ pages' = [pages EXCEPT ![at[o]] = files'[at[o]]]
  /\ Goto(o, step)
  /\ UNCHANGED <<name, writer, at, force, shared, keeps, torn, ends>>

CreateReferences(o) == dpc[o] = "refs" /\ CreateTable(o, "refs", "mods")
CreateModules(o) == dpc[o] = "mods" /\ CreateTable(o, "mods", "begin")

------------------------------------------------------------------------------
(* DoVersionScripts.                                                         *)

StepFor(version) == CASE version = Current -> "commit" [] version > Current -> "undo" [] OTHER -> "write"

(* The writer waits for the readers with PENDING: a new reader is refused.   *)
PendingLock(f) == writer[f] # NoOpener /\ dpc[writer[f]] = "commit"

(* BEGIN, CREATE TABLE IF NOT EXISTS tbl_version and the query: where the    *)
(* table is, it takes SHARED, held from here on; where it is not (version 0) *)
(* it writes, and gives SHARED back when RESERVED is taken.                  *)
ReadVersion(o) ==
  /\ dpc[o] = "begin" /\ ~PendingLock(at[o])
  /\ files[at[o]].version # 0
  /\ shared' = shared \cup {o}
  /\ Goto(o, StepFor(files[at[o]].version))
  /\ UNCHANGED <<name, files, pages, writer, at, force, keeps, torn, ends>>

CreateVersion(o) ==
  /\ dpc[o] = "begin" /\ writer[at[o]] = NoOpener
  /\ files[at[o]].version = 0
  /\ shared' = shared \cup {o}
  /\ writer' = [writer EXCEPT ![at[o]] = o]
  /\ pages' = [pages EXCEPT ![at[o]] = files[at[o]]]
  /\ Goto(o, "scripts")
  /\ UNCHANGED <<name, files, at, force, keeps, torn, ends>>

(* The first statement that writes waits for RESERVED, and keeps SHARED.     *)
Reserve(o) ==
  /\ dpc[o] = "write" /\ writer[at[o]] = NoOpener
  /\ writer' = [writer EXCEPT ![at[o]] = o]
  /\ pages' = [pages EXCEPT ![at[o]] = files[at[o]]]
  /\ Goto(o, "scripts")
  /\ UNCHANGED <<name, files, at, force, shared, keeps, torn, ends>>

\* Mutant: the script for tbl_metainfo flips tbl_references too.
DoUpdateTwice(db) ==
  [db EXCEPT !.version = @ + 1,
             !.rflips = IF db.version \in {2, 3} THEN @ + 1 ELSE @,
             !.mflips = IF db.version = 3 THEN @ + 1 ELSE @,
             !.kinds = IF db.version = 4 THEN @ + 1 ELSE @]

(* DoUpdate_0_1 .. DoUpdate_4_5, by the version they start from.             *)
DoUpdate(db) ==
  [db EXCEPT !.version = @ + 1,
             !.rflips = IF db.version = 2 THEN @ + 1 ELSE @,
             !.mflips = IF db.version = 3 THEN @ + 1 ELSE @,
             !.kinds = IF db.version = 4 THEN @ + 1 ELSE @]

(* An UPDATE of tbl_references, which a file has that CreateNew began.       *)
CanUpdate(db) == db.version = 2 => db.refs

(* The switch falls through to the end.                                      *)
RunScript(o) ==
  /\ dpc[o] = "scripts" /\ CanUpdate(pages[at[o]])
  /\ pages' = [pages EXCEPT ![at[o]] = DoUpdate(@)]
  /\ Goto(o, IF pages'[at[o]].version = Current THEN "commit" ELSE "scripts")
  /\ UNCHANGED <<name, files, writer, at, force, shared, keeps, torn, ends>>

Release(o) == /\ shared' = shared \ {o}
              /\ writer' = [writer EXCEPT ![at[o]] = IF @ = o THEN NoOpener ELSE @]

(* END TRANSACTION: a writer waits until nobody else reads.                  *)
Commit(o) ==
  /\ dpc[o] = "commit"
  /\ writer[at[o]] = o => \A p \in Others(o) : p \notin shared
  /\ files' = IF writer[at[o]] = o THEN [files EXCEPT ![at[o]] = pages[at[o]]] ELSE files
  /\ Release(o)
  /\ Goto(o, "prepare")
  /\ UNCHANGED <<name, pages, at, force, keeps, torn, ends>>

Rollback(o) ==
  /\ Release(o)
  /\ Goto(o, "failed")
  /\ UNCHANGED <<name, files, pages, at, force, keeps, torn, ends>>

(* A version of a newer Orthia, or no table to update: an error.             *)
FailScripts(o) == /\ \/ dpc[o] = "undo"
                     \/ dpc[o] = "scripts" /\ ~CanUpdate(pages[at[o]])
                  /\ Rollback(o)

(* SQLITE_BUSY: tried again for g_secondsToWaitLock seconds, then an error.  *)
Blocked(o) ==
  \/ dpc[o] \in {"refs", "mods"} /\ ~Alone(o)
  \/ dpc[o] = "begin" /\ writer[at[o]] # NoOpener
     /\ (files[at[o]].version = 0 \/ PendingLock(at[o]))
  \/ dpc[o] = "write" /\ writer[at[o]] # NoOpener
  \/ dpc[o] = "commit" /\ writer[at[o]] = o /\ \E p \in Others(o) : p \in shared

\* Mutant: a busy database is tried again without an end.
GiveUpNever(o) == Blocked(o) /\ UNCHANGED dfVars

GiveUp(o) ==
  /\ Blocked(o)
  /\ torn' = IF dpc[o] = "mods" THEN torn \cup {at[o]} ELSE torn
  /\ Release(o)
  /\ Goto(o, "failed")
  /\ UNCHANGED <<name, files, pages, at, force, keeps, ends>>

(* CClassicDatabase prepares its statements: every table has to be there.    *)
Prepare(o) ==
  /\ dpc[o] = "prepare"
  /\ Goto(o, IF files[at[o]].refs /\ files[at[o]].mods THEN "done" ELSE "broken")
  /\ UNCHANGED <<name, files, pages, writer, at, force, shared, keeps, torn, ends>>

(* The process ends: its locks go, what it had not committed too.            *)
EndProcess(o) ==
  /\ dpc[o] \notin {"start", "done", "broken", "failed", "ended"} /\ ends < MaxEnds
  /\ ends' = ends + 1
  /\ torn' = IF dpc[o] = "mods" THEN torn \cup {at[o]} ELSE torn
  /\ Release(o)
  /\ Goto(o, "ended")
  /\ UNCHANGED <<name, files, pages, at, force, keeps>>

OpenerStep(o) ==
  \/ Reinit(o) \/ CreateNew(o) \/ OpenExisting(o) \/ CreateReferences(o) \/ CreateModules(o)
  \/ ReadVersion(o) \/ CreateVersion(o) \/ Reserve(o) \/ RunScript(o) \/ Commit(o)
  \/ FailScripts(o) \/ GiveUp(o) \/ Prepare(o)

DatabaseFileNext == \E o \in Openers : OpenerStep(o) \/ EndProcess(o)

(* A process goes on, and its busy loops are counted.                        *)
DatabaseFileSpec == DatabaseFileInit /\ [][DatabaseFileNext]_dfVars
                    /\ \A o \in Openers : WF_dfVars(OpenerStep(o))

------------------------------------------------------------------------------
(* What is committed always fits the version it says it has: however many    *)
(* processes migrate at once, wait for each other, give up or end in the     *)
(* middle, the addresses are flipped exactly once and the column is added    *)
(* once.                                                                     *)
VersionTells ==
  \A f \in Files : LET v == files[f].version
                   IN /\ files[f].rflips = Made(v).rflips
                      /\ files[f].mflips = Made(v).mflips
                      /\ files[f].kinds = Made(v).kinds

(* A process whose open is done has a database of its version, also when it  *)
(* shares the file with another that creates or migrates it; a database with *)
(* a version misses a table only while it is created, or for good when its   *)
(* creation was cut between its tables.                                      *)
OpenIsCurrent ==
  /\ \A o \in Openers : dpc[o] = "done" => files[at[o]] = Made(Current)
  /\ \A f \in Files : files[f].version # 0 /\ ~(files[f].refs /\ files[f].mods) =>
       f \in torn \/ \E o \in Openers : at[o] = f /\ dpc[o] = "mods"

(* The file is what its version says, and the version is the current one for *)
(* whoever has it open.                                                      *)
SchemaTells == VersionTells /\ OpenIsCurrent

(* An open has begun and not ended.                                          *)
Opening(o) == dpc[o] \notin {"start", "done", "broken", "failed", "ended"}
=============================================================================
