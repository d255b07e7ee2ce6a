-------------------------- MODULE FileDatabaseProofs --------------------------
(* Proofs about the database of a file.  FileItem: what the tasks of the       *)
(* analyzer leave in it, for any dependencies, raw code or not, any number of  *)
(* tasks, failures and ends of Orthia.  DatabaseFile: how it is opened and     *)
(* migrated, for any number of processes, any version the file starts from and *)
(* any number of processes that end in the middle (inductive invariant:        *)
(* SchemaInv).                                                                 *)
EXTENDS FileItem, DatabaseFile, TLAPS

Flags == {"analyzeDone", "privateDone", "symbolsLoaded"}
Info == [flags : SUBSET Flags]
RefRows == [from : FMods, part : {1, 2}, kind : {"code", "private"}]
NameRows == [module : FMods, name : Linked \cup Symbols]
Tables == [rows : [FMods -> {0, 1}], meta : [FMods -> Info \cup {NoRecord}],
           names : SUBSET NameRows, refs : SUBSET RefRows, comments : {{}}]

FilePcs == {"closed", "register", "report", "open", "clear", "unflag", "save", "commit",
            "flag", "first", "flush"}

FileTypeOK ==
  /\ fconn \in Tables /\ fdisk \in Tables
  /\ ftx = (fpc = "commit")
  /\ fpc \in FilePcs /\ fmod \in FMods /\ ftask \in {"analyze", "force", "private", "symbols"}
  /\ fraw \in BOOLEAN /\ fcut \subseteq FMods
  /\ fpc = "report" => fleft \subseteq FMods
  /\ fpc = "flush" => fleft \subseteq Symbols

(* The transaction of the saver only adds references.                        *)
Mirrored ==
  /\ fconn.rows = fdisk.rows /\ fconn.meta = fdisk.meta /\ fconn.names = fdisk.names
  /\ fdisk.refs \subseteq fconn.refs
  /\ fpc # "commit" => fconn = fdisk

(* Before the row of the file's module there is nothing in the database.     *)
RowFirst ==
  /\ fdisk.rows[FMain] = 0 =>
       /\ fpc \in {"closed", "register"}
       /\ fdisk.names = {} /\ \A m \in FMods : fdisk.meta[m] = NoRecord
  /\ fpc = "register" => fdisk.rows[FMain] = 0

(* A module that is described and has its names.                             *)
Saved(m) == fdisk.meta[m] # NoRecord /\ Names(m, Linked) \subseteq fdisk.names

(* ReportModules: what it has reached is there, what it has not is not.      *)
Reported ==
  fpc = "report" =>
    /\ \A m \in FMods : fdisk.meta[m] # NoRecord => fdisk.meta[m].flags = {}
    /\ fdisk.meta[FMain] = NoRecord
    /\ \A m \in fleft \ {FMain} : fdisk.meta[m] = NoRecord /\ \A n \in fdisk.names : n.module # m
    /\ ~fraw => /\ \A m \in FDeps \ fleft : Saved(m)
                /\ FMain \notin fleft => Names(FMain, Linked) \subseteq fdisk.names
    /\ fraw => fleft = {} /\ FRefs(FMain, "code") \subseteq fdisk.refs

(* After the first open everything is there, but what was cut.               *)
Whole ==
  fdisk.rows[FMain] # 0 /\ fpc # "report" =>
    /\ FMain \notin fcut => fdisk.meta[FMain] # NoRecord
    /\ ~fraw => \A m \in FMods \ fcut : Saved(m)

(* What the analyzer's thread knows of the module of its task.               *)
TaskTells ==
  /\ fpc = "flag" => FRefs(fmod, "code") \subseteq fdisk.refs
  /\ fpc = "flush" => Names(fmod, Symbols \ fleft) \subseteq fdisk.names

(* Each flag by itself: only the step that is between the flag and its rows  *)
(* is an exception, so that the end of the one says nothing less of the      *)
(* other.                                                                    *)
FlagsTrue ==
  \A m \in FMods \ fcut : fdisk.meta[m] # NoRecord =>
    /\ "analyzeDone" \in fdisk.meta[m].flags /\ ~(fpc = "unflag" /\ m = fmod) =>
         FRefs(m, "code") \subseteq fdisk.refs
    /\ "symbolsLoaded" \in fdisk.meta[m].flags /\ ~(fpc = "flush" /\ m = fmod) =>
         Names(m, Symbols) \subseteq fdisk.names

FileInv ==
  FileTypeOK /\ Mirrored /\ RowFirst /\ Reported /\ Whole /\ TaskTells /\ FlagsTrue

-------------------------------------------------------------------------------
(* The tables the statements leave.                                          *)

\* INSERT OR REPLACE of a module's row: the new row, and of the metainfo only
\* what belongs to other modules.
LEMMA RowInserted ==
  ASSUME NEW t \in Tables, NEW m \in FMods
  PROVE  LET u == Db!InsertModule(t, m, FSizeOf(m)) IN
         /\ u \in Tables
         /\ u.rows = [t.rows EXCEPT ![m] = 1]
         /\ u.meta = [t.meta EXCEPT ![m] = NoRecord]
         /\ u.names = {n \in t.names : n.module # m}
         /\ u.refs = t.refs
<1> DEFINE u == Db!InsertModule(t, m, FSizeOf(m))
           rr == [t.rows EXCEPT ![m] = 1]
           mm == [t.meta EXCEPT ![m] = NoRecord]
           nn == {n \in t.names : n.module # m}
           zz == [t.rows EXCEPT ![m] = 0]
<1>1. u = [rows |-> rr, meta |-> mm, names |-> nn, refs |-> t.refs, comments |-> t.comments]
  <2>1. Db!DeleteRow(t, m) =
          [rows |-> zz, meta |-> mm, names |-> nn, refs |-> t.refs, comments |-> t.comments]
    <3>1. ASSUME NEW S
          PROVE  [t EXCEPT !.rows[m] = 0, !.meta[m] = NoRecord, !.names = S] =
                 [rows |-> zz, meta |-> mm, names |-> S, refs |-> t.refs, comments |-> t.comments]
      <4>1. [t EXCEPT !.rows[m] = 0, !.meta[m] = NoRecord, !.names = S] =
            [t EXCEPT !.rows = zz, !.meta = mm, !.names = S]
        BY Zenon
      <4> HIDE DEF zz, mm
      <4>2. [t EXCEPT !.rows = zz, !.meta = mm, !.names = S] =
            [[[t EXCEPT !.rows = zz] EXCEPT !.meta = mm] EXCEPT !.names = S]
        OBVIOUS
      <4>3. [t EXCEPT !.rows = zz] = [rows |-> zz, meta |-> t.meta, names |-> t.names,
                                      refs |-> t.refs, comments |-> t.comments]
        BY DEF Tables
      <4>4. [[rows |-> zz, meta |-> t.meta, names |-> t.names, refs |-> t.refs,
              comments |-> t.comments] EXCEPT !.meta = mm] =
            [rows |-> zz, meta |-> mm, names |-> t.names, refs |-> t.refs, comments |-> t.comments]
        OBVIOUS
      <4>5. [[rows |-> zz, meta |-> mm, names |-> t.names, refs |-> t.refs,
              comments |-> t.comments] EXCEPT !.names = S] =
            [rows |-> zz, meta |-> mm, names |-> S, refs |-> t.refs, comments |-> t.comments]
        OBVIOUS
      <4> QED BY <4>1, <4>2, <4>3, <4>4, <4>5, Zenon
    <3>2. Db!DeleteRow(t, m) =
          [t EXCEPT !.rows[m] = 0, !.meta[m] = NoRecord, !.names = nn]
      BY DEF Db!DeleteRow
    <3> HIDE DEF zz, mm, nn
    <3> QED BY <3>1, <3>2
  <2>2. [zz EXCEPT ![m] = 1] = rr
    BY DEF Tables
  <2> HIDE DEF zz, mm, nn, rr
  <2> QED BY <2>1, <2>2 DEF Db!InsertModule, FSizeOf
<1>2. rr \in [FMods -> {0, 1}] /\ mm \in [FMods -> Info \cup {NoRecord}] /\ nn \in SUBSET NameRows
  BY DEF Tables
<1> QED BY <1>1, <1>2 DEF Tables

\* InsertMetaInfo of a module that has a row: only its description changes.
LEMMA InfoInserted ==
  ASSUME NEW t \in Tables, NEW m \in FMods, NEW i \in Info, t.rows[m] # 0
  PROVE  LET u == Db!InsertMetaInfo(t, m, i) IN
         /\ u \in Tables
         /\ u.rows = t.rows
         /\ u.meta = [t.meta EXCEPT ![m] = i]
         /\ u.names = t.names
         /\ u.refs = t.refs
<1> DEFINE u == Db!InsertMetaInfo(t, m, i)
           mm == [t.meta EXCEPT ![m] = i]
<1>1. u = [rows |-> t.rows, meta |-> mm, names |-> t.names, refs |-> t.refs, comments |-> t.comments]
  BY DEF Tables, Db!InsertMetaInfo
<1>2. mm \in [FMods -> Info \cup {NoRecord}]
  BY DEF Tables
<1> QED BY <1>1, <1>2 DEF Tables

\* A statement on tbl_references changes nothing else.
LEMMA RefsChanged ==
  ASSUME NEW t \in Tables, NEW R \in SUBSET RefRows
  PROVE  LET u == [t EXCEPT !.refs = R] IN
         /\ u \in Tables
         /\ u.rows = t.rows /\ u.meta = t.meta /\ u.names = t.names /\ u.refs = R
BY DEF Tables

\* A batch of names changes nothing else.
LEMMA NamesChanged ==
  ASSUME NEW t \in Tables, NEW N \in SUBSET NameRows
  PROVE  LET u == [t EXCEPT !.names = N] IN
         /\ u \in Tables
         /\ u.rows = t.rows /\ u.meta = t.meta /\ u.names = N /\ u.refs = t.refs
BY DEF Tables

\* UpdateModuleMetaInfo: flags are added to a description that is there and
\* removed from it; no description appears or goes.
LEMMA FlagsChanged ==
  ASSUME NEW m \in FMods, NEW set \in SUBSET Flags, NEW remove \in SUBSET Flags, fconn \in Tables
  PROVE  LET u == WithFlags(m, set, remove) IN
         /\ u \in Tables
         /\ u.rows = fconn.rows /\ u.names = fconn.names /\ u.refs = fconn.refs
         /\ \A k \in FMods \ {m} : u.meta[k] = fconn.meta[k]
         /\ fconn.meta[m] = NoRecord => u.meta[m] = NoRecord
         /\ fconn.meta[m] # NoRecord =>
              /\ u.meta[m] # NoRecord
              /\ u.meta[m].flags = (fconn.meta[m].flags \cup set) \ remove
<1> DEFINE i == [flags |-> (fconn.meta[m].flags \cup set) \ remove]
           mm == [fconn.meta EXCEPT ![m] = i]
<1>1. CASE fconn.meta[m] = NoRecord
  BY <1>1 DEF WithFlags
<1>2. CASE fconn.meta[m] # NoRecord
  <2>1. fconn.meta[m] \in Info
    BY <1>2 DEF Tables
  <2>2. i \in Info /\ i # NoRecord
    <3>1. i.flags \in SUBSET Flags
      BY <2>1 DEF Info
    <3>2. i \in Info
      BY <3>1 DEF Info
    <3> QED BY <3>2, FileAssumption DEF Info, Flags
  <2>3. [fconn.meta[m] EXCEPT !.flags = (@ \cup set) \ remove] = i
    BY <2>1 DEF Info
  <2>4. WithFlags(m, set, remove) = [rows |-> fconn.rows, meta |-> mm, names |-> fconn.names,
                                     refs |-> fconn.refs, comments |-> fconn.comments]
    BY <1>2, <2>3 DEF WithFlags, Tables
  <2>5. mm \in [FMods -> Info \cup {NoRecord}]
    BY <2>2 DEF Tables
  <2> QED BY <2>2, <2>4, <2>5, <1>2 DEF Tables
<1> QED BY <1>1, <1>2

-------------------------------------------------------------------------------
\* A new data.db is empty and the item is closed.
LEMMA FileInitHolds == FileInit => FileInv
<1> SUFFICES ASSUME FileInit PROVE FileInv
  OBVIOUS
<1>1. FileTypeOK
  <2>1. FMain \in FMods
    BY DEF FMods
  <2> QED BY <2>1, FileAssumption DEF FileInit, FileTypeOK, Db!DbInit, Db!EmptyDb, Tables, FilePcs
<1>2. Mirrored /\ RowFirst /\ Reported /\ Whole /\ TaskTells /\ FlagsTrue
  BY FileAssumption DEF FileInit, Db!DbInit, Db!EmptyDb, FMods, Mirrored, RowFirst, Reported, Whole,
       TaskTells, FlagsTrue
<1> QED BY <1>1, <1>2 DEF FileInv

(* No name and no description leaves the disk.                               *)
Stays ==
  /\ fdisk.names \subseteq fdisk'.names
  /\ \A m \in FMods : fdisk.meta[m] # NoRecord => fdisk'.meta[m] # NoRecord

\* Every step of the item and of the analyzer keeps the invariant, and what is
\* named and described on the disk.
LEMMA FileStepHolds == FileInv /\ [FileNext]_fvars => FileInv' /\ Stays
<1> SUFFICES ASSUME FileInv, [FileNext]_fvars PROVE FileInv' /\ Stays
  OBVIOUS
<1> USE DEF FileInv
<1>m. FMain \in FMods /\ FDeps \subseteq FMods
  BY DEF FMods
<1>t. fpc # "commit" => ftx = FALSE
  BY DEF FileTypeOK
<1>1. CASE UNCHANGED fvars
  BY <1>1, ZenonT(60) DEF fvars, fdbVars, fileVars, FileTypeOK, Mirrored, RowFirst, Reported, Whole, Saved,
    TaskTells, FlagsTrue, Stays
<1>2. CASE AddExecutable
  <2>1. FileTypeOK'
    BY <1>2 DEF AddExecutable, fdbVars, FileTypeOK, FilePcs
  <2>2. Mirrored'
    BY <1>2 DEF AddExecutable, fdbVars, Mirrored
  <2>3. RowFirst'
    BY <1>2 DEF AddExecutable, fdbVars, Mirrored, RowFirst, Db!IsModuleExists
  <2>4. Reported' /\ Whole' /\ TaskTells'
    BY <1>2 DEF AddExecutable, fdbVars, Reported, Whole, Saved, TaskTells
  <2>5. FlagsTrue'
    BY <1>2 DEF AddExecutable, fdbVars, FlagsTrue, Unfinished
  <2>s. Stays
    BY <1>2 DEF AddExecutable, fdbVars, Stays
  <2> QED BY <2>1, <2>2, <2>3, <2>4, <2>5, <2>s
<1>3. CASE RegisterMainModule
  <2> DEFINE u == Db!InsertModule(fconn, FMain, FSizeOf(FMain))
             R == IF fraw THEN u.refs \cup FRefs(FMain, "code") ELSE u.refs
             w == [u EXCEPT !.refs = R]
  <2>1. fconn' = w /\ fdisk' = w /\ ftx' = FALSE
    BY <1>3, <1>t, Zenon DEF RegisterMainModule, Db!Execute
  <2>2. /\ u \in Tables /\ u.rows = [fconn.rows EXCEPT ![FMain] = 1]
        /\ u.meta = [fconn.meta EXCEPT ![FMain] = NoRecord]
        /\ u.names = {n \in fconn.names : n.module # FMain} /\ u.refs = fconn.refs
    BY RowInserted, <1>m DEF FileTypeOK
  <2>3. R \in SUBSET RefRows
    BY <2>2, <1>m DEF Tables, FRefs, RefRows
  <2> HIDE DEF u, R
  <2>4. w \in Tables /\ w.rows = u.rows /\ w.meta = u.meta /\ w.names = u.names /\ w.refs = R
    BY <2>2, <2>3, RefsChanged
  <2> HIDE DEF w
  <2>5. /\ \A m \in FMods : fdisk.meta[m] = NoRecord
        /\ fdisk.names = {} /\ fconn = fdisk /\ fdisk \in Tables
    BY <1>3 DEF RegisterMainModule, RowFirst, Mirrored, FileTypeOK
  <2>6. \A m \in FMods : w.meta[m] = NoRecord
    BY <2>2, <2>4, <2>5, <1>m DEF Tables
  <2>7. w.rows[FMain] = 1 /\ w.names = {}
    BY <2>2, <2>4, <2>5, <1>m DEF Tables
  <2>8. FileTypeOK'
    BY <1>3, <2>1, <2>4 DEF RegisterMainModule, FileTypeOK, FilePcs
  <2>9. Mirrored' /\ RowFirst' /\ Whole' /\ TaskTells'
    BY <1>3, <2>1, <2>7 DEF RegisterMainModule, Mirrored, RowFirst, Whole, TaskTells
  <2>10. Reported'
    BY <1>3, <2>1, <2>4, <2>6, <2>7, <1>m DEF RegisterMainModule, Reported, R, FMods
  <2>11. FlagsTrue'
    BY <2>1, <2>6 DEF FlagsTrue
  <2>s. Stays
    BY <2>5 DEF Stays
  <2> QED BY <2>8, <2>9, <2>10, <2>11, <2>s
<1>4. ASSUME NEW m \in FMods, ReportModules(m) PROVE FileInv' /\ Stays
  <2> DEFINE u == Db!InsertModule(fconn, m, FSizeOf(m))
             i == [flags |-> {}]
             v == Db!InsertMetaInfo(u, m, i)
             row == IF m = FMain THEN fconn ELSE v
             N == row.names \cup Names(m, Linked)
             w == [row EXCEPT !.names = N]
  <2>1. fconn' = w /\ fdisk' = w /\ ftx' = FALSE
    BY <1>4, <1>t, Zenon DEF ReportModules, Db!Execute
  <2>2. /\ u \in Tables /\ u.rows = [fconn.rows EXCEPT ![m] = 1]
        /\ u.meta = [fconn.meta EXCEPT ![m] = NoRecord]
        /\ u.names = {n \in fconn.names : n.module # m} /\ u.refs = fconn.refs
    BY RowInserted DEF FileTypeOK
  <2>3. i \in Info /\ i # NoRecord
    BY FileAssumption DEF Info, Flags
  <2> HIDE DEF u, i
  <2>4. u.rows[m] # 0
    BY <2>2 DEF FileTypeOK, Tables
  <2>5. /\ v \in Tables /\ v.rows = u.rows /\ v.meta = [u.meta EXCEPT ![m] = i]
        /\ v.names = u.names /\ v.refs = u.refs
    <3> HIDE DEF FileInv
    <3>1. u \in Tables /\ m \in FMods /\ i \in Info /\ u.rows[m] # 0
      BY <2>2, <2>3, <2>4
    <3> QED BY <3>1, InfoInserted, Zenon
  <2> HIDE DEF v
  <2>6. row \in Tables /\ N \in SUBSET NameRows
    BY <2>5 DEF FileTypeOK, Tables, Names, NameRows
  <2>7. fpc = "report" /\ m \in fleft /\ fconn = fdisk /\ fdisk \in Tables
    BY <1>4 DEF ReportModules, Mirrored, FileTypeOK
  <2>8. m # FMain => u.names = fdisk.names
    BY <2>2, <2>7 DEF Reported
  <2>9. /\ row.names = fdisk.names /\ row.refs = fdisk.refs
        /\ row.rows[FMain] = fdisk.rows[FMain]
    <3>1. CASE m = FMain
      BY <3>1, <2>7
    <3>2. CASE m # FMain
      <4>1. row = v /\ v.names = fdisk.names /\ v.refs = fdisk.refs
        BY <3>2, <2>2, <2>5, <2>7, <2>8
      <4>2. v.rows[FMain] = fdisk.rows[FMain]
        BY <3>2, <2>2, <2>5, <2>7, <1>m DEF Tables
      <4> QED BY <4>1, <4>2
    <3> QED BY <3>1, <3>2
  <2>10. \A k \in FMods \ {m} : row.meta[k] = fdisk.meta[k]
    BY <2>2, <2>5, <2>7 DEF Tables
  <2>11. m # FMain => row.meta[m] = i
    BY <2>2, <2>5 DEF Tables
  <2>12. m = FMain => row.meta[m] = fdisk.meta[m]
    BY <2>7
  <2> HIDE DEF row
  <2> HIDE DEF N
  <2>13. w \in Tables /\ w.rows = row.rows /\ w.meta = row.meta /\ w.names = N /\ w.refs = row.refs
    BY <2>6, NamesChanged
  <2> HIDE DEF w
  <2>14. FileTypeOK'
    BY <1>4, <2>1, <2>13 DEF ReportModules, FileTypeOK, FilePcs
  <2>15. Mirrored' /\ RowFirst' /\ Whole' /\ TaskTells'
    BY <1>4, <2>1, <2>7, <2>9, <2>13 DEF ReportModules, Mirrored, RowFirst, Whole, TaskTells
  <2>16. Reported'
    <3>1. fpc' = "report" /\ fleft' = fleft \ {m} /\ fraw' = fraw
      BY <1>4 DEF ReportModules
    <3>2. \A k \in FMods : fdisk'.meta[k] # NoRecord => fdisk'.meta[k].flags = {}
      BY <2>1, <2>7, <2>10, <2>11, <2>12, <2>13 DEF Reported, i
    <3>3. fdisk'.meta[FMain] = NoRecord
      BY <2>1, <2>7, <2>10, <2>12, <2>13, <1>m DEF Reported
    <3>4. \A k \in fleft' \ {FMain} :
            fdisk'.meta[k] = NoRecord /\ \A n \in fdisk'.names : n.module # k
      <4> SUFFICES ASSUME NEW k \in fleft \ {m, FMain}
                   PROVE  w.meta[k] = NoRecord /\ \A n \in w.names : n.module # k
        BY <3>1, <2>1
      <4>1. k \in FMods /\ fdisk.meta[k] = NoRecord /\ \A n \in fdisk.names : n.module # k
        BY <2>7 DEF Reported, FileTypeOK
      <4>2. w.meta[k] = NoRecord
        BY <4>1, <2>10, <2>13
      <4>3. \A n \in N : n.module # k
        BY <4>1, <2>9 DEF N, Names
      <4> QED BY <4>2, <4>3, <2>13
    <3>5. ~fraw => \A k \in FDeps \ fleft' : Saved(k)'
      <4> SUFFICES ASSUME ~fraw, NEW k \in FDeps \ fleft'
                   PROVE  w.meta[k] # NoRecord /\ Names(k, Linked) \subseteq w.names
        BY <2>1 DEF Saved
      <4>1. CASE k = m
        BY <4>1, <2>3, <2>11, <2>13, FileAssumption DEF N
      <4>2. CASE k # m
        <5>1. fdisk.meta[k] # NoRecord /\ Names(k, Linked) \subseteq fdisk.names
          BY <4>2, <3>1, <2>7 DEF Reported, Saved
        <5> QED BY <5>1, <4>2, <2>9, <2>10, <2>13, <1>m DEF N
      <4> QED BY <4>1, <4>2
    <3>6. ~fraw => (FMain \notin fleft' => Names(FMain, Linked) \subseteq fdisk'.names)
      BY <3>1, <2>1, <2>7, <2>9, <2>13 DEF Reported, N
    <3>7. fraw => fleft' = {} /\ FRefs(FMain, "code") \subseteq fdisk'.refs
      BY <2>7 DEF Reported
    <3> QED BY <3>1, <3>2, <3>3, <3>4, <3>5, <3>6, <3>7 DEF Reported
  <2>17. FlagsTrue'
    BY <2>16, <1>4 DEF ReportModules, Reported, FlagsTrue
  <2>s. Stays
    BY <2>1, <2>3, <2>7, <2>9, <2>10, <2>11, <2>12, <2>13 DEF Stays, N
  <2> QED BY <2>14, <2>15, <2>16, <2>17, <2>s
<1>5. CASE DescribeMain
  <2> DEFINE i == [flags |-> IF fraw THEN {"analyzeDone"} ELSE {}]
             w == Db!InsertMetaInfo(fconn, FMain, i)
  <2>1. fconn' = w /\ fdisk' = w /\ ftx' = FALSE
    BY <1>5, <1>t, Zenon DEF DescribeMain, Db!Execute
  <2>2. i \in Info /\ i # NoRecord
    BY FileAssumption DEF Info, Flags
  <2>3. i.flags = IF fraw THEN {"analyzeDone"} ELSE {}
    OBVIOUS
  <2> HIDE DEF i
  <2>4. fpc = "report" /\ fleft = {} /\ fconn = fdisk /\ fdisk \in Tables /\ fconn.rows[FMain] # 0
    BY <1>5 DEF DescribeMain, Mirrored, FileTypeOK, RowFirst
  <2>5. /\ w \in Tables /\ w.rows = fdisk.rows /\ w.meta = [fdisk.meta EXCEPT ![FMain] = i]
        /\ w.names = fdisk.names /\ w.refs = fdisk.refs
    <3> HIDE DEF FileInv
    <3> QED BY <2>2, <2>4, <1>m, InfoInserted, Zenon
  <2> HIDE DEF w
  <2>6. w.meta[FMain] = i /\ \A k \in FMods \ {FMain} : w.meta[k] = fdisk.meta[k]
    BY <2>4, <2>5, <1>m DEF Tables
  <2>7. fpc' = "open" /\ fcut' = fcut /\ fraw' = fraw
    BY <1>5 DEF DescribeMain
  <2>8. FileTypeOK'
    BY <1>5, <2>1, <2>5 DEF DescribeMain, FileTypeOK, FilePcs
  <2>9. Mirrored' /\ RowFirst' /\ TaskTells' /\ Reported'
    BY <2>1, <2>4, <2>5, <2>7 DEF Mirrored, RowFirst, TaskTells, Reported
  <2>10. Whole'
    <3>1. fdisk'.meta[FMain] # NoRecord
      BY <2>1, <2>2, <2>6
    <3>2. ASSUME ~fraw, NEW k \in FMods PROVE Saved(k)'
      <4>1. CASE k = FMain
        BY <4>1, <3>1, <3>2, <2>1, <2>4, <2>5 DEF Saved, Reported
      <4>2. CASE k # FMain
        BY <4>2, <3>2, <2>1, <2>4, <2>5, <2>6 DEF Saved, Reported, FMods
      <4> QED BY <4>1, <4>2
    <3> QED BY <3>1, <3>2, <2>7 DEF Whole
  <2>11. FlagsTrue'
    <3> SUFFICES ASSUME NEW k \in FMods, fdisk'.meta[k] # NoRecord
                 PROVE  /\ "analyzeDone" \in fdisk'.meta[k].flags =>
                             FRefs(k, "code") \subseteq fdisk'.refs
                        /\ "symbolsLoaded" \notin fdisk'.meta[k].flags
      BY DEF FlagsTrue
    <3>1. CASE k = FMain
      BY <3>1, <2>1, <2>3, <2>4, <2>5, <2>6 DEF Reported
    <3>2. CASE k # FMain
      BY <3>2, <2>1, <2>4, <2>5, <2>6 DEF Reported
    <3> QED BY <3>1, <3>2
  <2>s. Stays
    BY <2>1, <2>2, <2>5, <2>6 DEF Stays
  <2> QED BY <2>8, <2>9, <2>10, <2>11, <2>s
<1>6. ASSUME NEW task \in {"analyze", "force", "private", "symbols"}, NEW m \in FMods, FStart(task, m)
      PROVE  FileInv' /\ Stays
  <2>1. /\ fpc = "open" /\ fpc' \in {"clear", "save", "first"} /\ ftask' = task /\ fmod' = m
        /\ UNCHANGED <<fconn, fdisk, ftx, fraw, fleft, fcut>>
    BY <1>6 DEF FStart, fdbVars
  <2>2. FileTypeOK'
    BY <2>1 DEF FileTypeOK, FilePcs
  <2>3. Mirrored' /\ RowFirst' /\ Reported' /\ Whole' /\ TaskTells'
    BY <2>1 DEF Mirrored, RowFirst, Reported, Whole, Saved, TaskTells
  <2>4. FlagsTrue'
    BY <2>1 DEF FlagsTrue
  <2>s. Stays
    BY <2>1 DEF Stays
  <2> QED BY <2>2, <2>3, <2>4, <2>s
<1>7. CASE FClear
  <2> DEFINE R == fconn.refs \ Db!RefsFrom(fconn.refs, fmod, fconn.rows[fmod])
             w == [fconn EXCEPT !.refs = R]
  <2>1. fconn' = w /\ fdisk' = w /\ ftx' = FALSE
    BY <1>7, <1>t, Zenon DEF FClear, Db!Execute, Db!DeleteRefs
  <2>2. R \in SUBSET RefRows /\ fconn \in Tables /\ fconn = fdisk
    BY <1>7 DEF FileTypeOK, Tables, FClear, Mirrored
  <2>3. \A k \in FMods \ {fmod} : FRefs(k, "code") \subseteq fdisk.refs => FRefs(k, "code") \subseteq R
    <3> SUFFICES ASSUME NEW k \in FMods \ {fmod}, NEW r \in FRefs(k, "code"), r \in fconn.refs
                 PROVE  r \notin Db!RefsFrom(fconn.refs, fmod, fconn.rows[fmod])
      BY <2>2
    <3>1. r.from = k
      BY DEF FRefs
    <3>2. k \in Nat /\ fmod \in Nat /\ fconn.rows[fmod] \in {0, 1}
      BY <2>2, FileAssumption DEF FMods, Tables, FileTypeOK
    <3>3. k \notin fmod .. (fmod + fconn.rows[fmod] - 1)
      BY <3>2
    <3> QED BY <3>1, <3>3 DEF Db!RefsFrom
  <2> HIDE DEF R
  <2>4. /\ w \in Tables
        /\ w.rows = fdisk.rows /\ w.meta = fdisk.meta /\ w.names = fdisk.names /\ w.refs = R
    BY <2>2, RefsChanged
  <2> HIDE DEF w
  <2>5. /\ fpc = "clear" /\ fpc' = "unflag" /\ UNCHANGED <<fraw, fmod, ftask, fcut>>
    BY <1>7 DEF FClear
  <2>6. FileTypeOK'
    BY <2>1, <2>4, <2>5 DEF FileTypeOK, FilePcs
  <2>7. Mirrored' /\ RowFirst' /\ Reported' /\ Whole' /\ TaskTells'
    BY <2>1, <2>4, <2>5 DEF Mirrored, RowFirst, Reported, Whole, Saved, TaskTells
  <2>8. FlagsTrue'
    BY <2>1, <2>3, <2>4, <2>5 DEF FlagsTrue
  <2>s. Stays
    BY <2>1, <2>4 DEF Stays
  <2> QED BY <2>6, <2>7, <2>8, <2>s
<1>8. CASE FUnflag
  <2> DEFINE w == WithFlags(fmod, {}, {"analyzeDone"})
  <2>1. fconn' = w /\ fdisk' = w /\ ftx' = FALSE
    BY <1>8, <1>t, Zenon DEF FUnflag, Db!Execute
  <2>2. fmod \in FMods /\ fconn \in Tables /\ {} \in SUBSET Flags /\ {"analyzeDone"} \in SUBSET Flags
    BY DEF FileTypeOK, Flags
  <2>3. /\ w \in Tables
        /\ w.rows = fconn.rows /\ w.names = fconn.names /\ w.refs = fconn.refs
        /\ \A k \in FMods \ {fmod} : w.meta[k] = fconn.meta[k]
        /\ fconn.meta[fmod] = NoRecord => w.meta[fmod] = NoRecord
        /\ fconn.meta[fmod] # NoRecord =>
             /\ w.meta[fmod] # NoRecord
             /\ w.meta[fmod].flags = (fconn.meta[fmod].flags \cup {}) \ {"analyzeDone"}
    BY <2>2, FlagsChanged, Zenon
  <2> HIDE DEF w
  <2>4. /\ fpc = "unflag" /\ fpc' = "save" /\ UNCHANGED <<fraw, fmod, ftask, fcut>> /\ fconn = fdisk
    BY <1>8 DEF FUnflag, Mirrored
  <2>5. FileTypeOK'
    BY <2>1, <2>3, <2>4 DEF FileTypeOK, FilePcs
  <2>6. Mirrored' /\ RowFirst' /\ Reported' /\ Whole' /\ TaskTells'
    BY <2>1, <2>2, <2>3, <2>4, <1>m DEF Mirrored, RowFirst, Reported, Whole, Saved, TaskTells
  <2>7. FlagsTrue'
    BY <2>1, <2>3, <2>4 DEF FlagsTrue
  <2>s. Stays
    BY <2>1, <2>2, <2>3, <2>4 DEF Stays
  <2> QED BY <2>5, <2>6, <2>7, <2>s
<1>9. CASE FBegin
  <2> DEFINE R == fconn.refs \cup {r \in FWanted(fmod, ftask) : r.part = 1}
             w == [fconn EXCEPT !.refs = R]
  <2>1. fconn' = w /\ fdisk' = fdisk /\ ftx' = TRUE
    BY <1>9, Zenon DEF FBegin, Db!BeginTransaction
  <2>2. R \in SUBSET RefRows /\ fconn \in Tables /\ fconn = fdisk
    BY <1>9 DEF FileTypeOK, Tables, FBegin, Mirrored, FWanted, FRefs, RefRows
  <2>3. fdisk.refs \subseteq R
    BY <2>2
  <2> HIDE DEF R
  <2>4. /\ w \in Tables
        /\ w.rows = fdisk.rows /\ w.meta = fdisk.meta /\ w.names = fdisk.names /\ w.refs = R
    BY <2>2, RefsChanged
  <2> HIDE DEF w
  <2>5. fpc = "save" /\ fpc' = "commit" /\ UNCHANGED <<fraw, fmod, ftask, fcut>>
    BY <1>9 DEF FBegin
  <2>6. FileTypeOK'
    BY <2>1, <2>4, <2>5 DEF FileTypeOK, FilePcs
  <2>7. Mirrored' /\ RowFirst' /\ Reported' /\ Whole' /\ TaskTells'
    BY <2>1, <2>3, <2>4, <2>5 DEF Mirrored, RowFirst, Reported, Whole, Saved, TaskTells
  <2>8. FlagsTrue'
    BY <2>1, <2>5 DEF FlagsTrue
  <2>s. Stays
    BY <2>1 DEF Stays
  <2> QED BY <2>6, <2>7, <2>8, <2>s
<1>10. CASE FCommit
  <2> DEFINE R == fconn.refs \cup FWanted(fmod, ftask)
             w == [fconn EXCEPT !.refs = R]
  <2>1. fconn' = w /\ fdisk' = w /\ ftx' = FALSE
    BY <1>10, Zenon DEF FCommit, Db!CommitTransaction
  <2>2. R \in SUBSET RefRows /\ fconn \in Tables
    BY DEF FileTypeOK, Tables, FWanted, FRefs, RefRows
  <2>3. fdisk.refs \subseteq R /\ FRefs(fmod, "code") \subseteq R
    BY DEF Mirrored, FWanted
  <2> HIDE DEF R
  <2>4. /\ w \in Tables
        /\ w.rows = fdisk.rows /\ w.meta = fdisk.meta /\ w.names = fdisk.names /\ w.refs = R
    BY <2>2, RefsChanged DEF Mirrored
  <2> HIDE DEF w
  <2>5. fpc = "commit" /\ fpc' = "flag" /\ UNCHANGED <<fraw, fmod, ftask, fcut>>
    BY <1>10 DEF FCommit
  <2>6. FileTypeOK'
    BY <2>1, <2>4, <2>5 DEF FileTypeOK, FilePcs
  <2>7. Mirrored' /\ RowFirst' /\ Reported' /\ Whole' /\ TaskTells'
    BY <2>1, <2>3, <2>4, <2>5 DEF Mirrored, RowFirst, Reported, Whole, Saved, TaskTells
  <2>8. FlagsTrue'
    BY <2>1, <2>3, <2>4, <2>5 DEF FlagsTrue
  <2>s. Stays
    BY <2>1, <2>4 DEF Stays
  <2> QED BY <2>6, <2>7, <2>8, <2>s
<1>11. CASE FRollback
  <2>1. /\ fpc = "commit" /\ fpc' = "open" /\ fconn' = fdisk /\ fdisk' = fdisk /\ ftx' = FALSE
        /\ UNCHANGED <<fraw, fmod, ftask, fcut>>
    BY <1>11 DEF FRollback, Db!RollbackTransaction
  <2>2. FileTypeOK'
    BY <2>1 DEF FileTypeOK, FilePcs
  <2>3. Mirrored' /\ RowFirst' /\ Reported' /\ Whole' /\ TaskTells' /\ FlagsTrue'
    BY <2>1 DEF Mirrored, RowFirst, Reported, Whole, Saved, TaskTells, FlagsTrue
  <2>s. Stays
    BY <2>1 DEF Stays
  <2> QED BY <2>2, <2>3, <2>s
<1>12. CASE FFlag
  <2> DEFINE fl == IF ftask = "private" THEN "privateDone" ELSE "analyzeDone"
             w == WithFlags(fmod, {fl}, {})
  <2>1. fconn' = w /\ fdisk' = w /\ ftx' = FALSE
    BY <1>12, <1>t, Zenon DEF FFlag, Db!Execute
  <2>2. fmod \in FMods /\ fconn \in Tables /\ {fl} \in SUBSET Flags /\ {} \in SUBSET Flags
    BY DEF FileTypeOK, Flags
  <2>3. fl # "symbolsLoaded"
    OBVIOUS
  <2> HIDE DEF fl
  <2>4. /\ w \in Tables
        /\ w.rows = fconn.rows /\ w.names = fconn.names /\ w.refs = fconn.refs
        /\ \A k \in FMods \ {fmod} : w.meta[k] = fconn.meta[k]
        /\ fconn.meta[fmod] = NoRecord => w.meta[fmod] = NoRecord
        /\ fconn.meta[fmod] # NoRecord =>
             /\ w.meta[fmod] # NoRecord
             /\ w.meta[fmod].flags = (fconn.meta[fmod].flags \cup {fl}) \ {}
    BY <2>2, FlagsChanged, Zenon
  <2> HIDE DEF w
  <2>5. fpc = "flag" /\ fpc' = "open" /\ UNCHANGED <<fraw, fmod, ftask, fcut>> /\ fconn = fdisk
    BY <1>12 DEF FFlag, Mirrored
  <2>6. FileTypeOK'
    BY <2>1, <2>4, <2>5 DEF FileTypeOK, FilePcs
  <2>7. Mirrored' /\ RowFirst' /\ Reported' /\ Whole' /\ TaskTells'
    BY <2>1, <2>2, <2>4, <2>5, <1>m DEF Mirrored, RowFirst, Reported, Whole, Saved, TaskTells
  <2>8. FlagsTrue'
    BY <2>1, <2>3, <2>4, <2>5 DEF FlagsTrue, TaskTells
  <2>s. Stays
    BY <2>1, <2>2, <2>4, <2>5 DEF Stays
  <2> QED BY <2>6, <2>7, <2>8, <2>s
<1>13. CASE FFirstSymbol
  <2> DEFINE w == WithFlags(fmod, {"symbolsLoaded"}, {})
  <2>1. fconn' = w /\ fdisk' = w /\ ftx' = FALSE
    BY <1>13, <1>t, Zenon DEF FFirstSymbol, Db!Execute
  <2>2. /\ fmod \in FMods /\ fconn \in Tables
        /\ {"symbolsLoaded"} \in SUBSET Flags /\ {} \in SUBSET Flags
    BY DEF FileTypeOK, Flags
  <2>3. /\ w \in Tables
        /\ w.rows = fconn.rows /\ w.names = fconn.names /\ w.refs = fconn.refs
        /\ \A k \in FMods \ {fmod} : w.meta[k] = fconn.meta[k]
        /\ fconn.meta[fmod] = NoRecord => w.meta[fmod] = NoRecord
        /\ fconn.meta[fmod] # NoRecord =>
             /\ w.meta[fmod] # NoRecord
             /\ w.meta[fmod].flags = (fconn.meta[fmod].flags \cup {"symbolsLoaded"}) \ {}
    BY <2>2, FlagsChanged, Zenon
  <2> HIDE DEF w
  <2>4. /\ fpc = "first" /\ fpc' = "flush" /\ fleft' = Symbols
        /\ UNCHANGED <<fraw, fmod, ftask, fcut>> /\ fconn = fdisk
    BY <1>13 DEF FFirstSymbol, Mirrored
  <2>5. FileTypeOK'
    BY <2>1, <2>3, <2>4 DEF FileTypeOK, FilePcs
  <2>6. Mirrored' /\ RowFirst' /\ Reported' /\ Whole'
    BY <2>1, <2>2, <2>3, <2>4, <1>m DEF Mirrored, RowFirst, Reported, Whole, Saved
  <2>7. TaskTells'
    BY <2>4 DEF TaskTells, Names
  <2>8. FlagsTrue'
    BY <2>1, <2>3, <2>4 DEF FlagsTrue
  <2>s. Stays
    BY <2>1, <2>2, <2>3, <2>4 DEF Stays
  <2> QED BY <2>5, <2>6, <2>7, <2>8, <2>s
<1>14. ASSUME NEW s \in Symbols, FlushToDB(s) PROVE FileInv' /\ Stays
  <2> DEFINE N == fconn.names \cup Names(fmod, {s})
             w == [fconn EXCEPT !.names = N]
  <2>1. fconn' = w /\ fdisk' = w /\ ftx' = FALSE
    BY <1>14, <1>t, Zenon DEF FlushToDB, Db!Execute
  <2>2. N \in SUBSET NameRows /\ fconn \in Tables /\ fconn = fdisk
    BY <1>14 DEF FileTypeOK, Tables, FlushToDB, Mirrored, Names, NameRows
  <2>3. fdisk.names \subseteq N
    BY <2>2
  <2>4. Names(fmod, Symbols \ (fleft \ {s})) \subseteq N
    BY <1>14, <2>2 DEF TaskTells, FlushToDB, Names
  <2> HIDE DEF N
  <2>5. /\ w \in Tables
        /\ w.rows = fdisk.rows /\ w.meta = fdisk.meta /\ w.names = N /\ w.refs = fdisk.refs
    BY <2>2, NamesChanged
  <2> HIDE DEF w
  <2>6. /\ fpc = "flush" /\ fleft' = fleft \ {s} /\ fpc' = IF fleft' = {} THEN "open" ELSE "flush"
        /\ UNCHANGED <<fraw, fmod, ftask, fcut>>
    BY <1>14 DEF FlushToDB
  <2>7. FileTypeOK'
    BY <2>1, <2>5, <2>6 DEF FileTypeOK, FilePcs
  <2>8. Mirrored' /\ Reported' /\ Whole' /\ TaskTells'
    BY <2>1, <2>3, <2>4, <2>5, <2>6 DEF Mirrored, Reported, Whole, Saved, TaskTells
  <2>9. RowFirst'
    BY <2>1, <2>5, <2>6 DEF RowFirst
  <2>10. FlagsTrue'
    <3>1. fpc' # "flush" => Names(fmod, Symbols) \subseteq N
      BY <2>4, <2>6 DEF FileTypeOK, Names
    <3> QED BY <3>1, <2>1, <2>3, <2>5, <2>6 DEF FlagsTrue
  <2>s. Stays
    BY <2>1, <2>3, <2>5 DEF Stays
  <2> QED BY <2>7, <2>8, <2>9, <2>10, <2>s
<1>15. CASE FFail
  <2>1. /\ fpc \in {"register", "report", "unflag", "save", "flush"}
        /\ fpc' = IF fpc \in {"register", "report"} THEN "closed" ELSE "open"
        /\ fcut' = fcut \cup Unfinished /\ fleft' = {}
        /\ UNCHANGED <<fconn, fdisk, ftx, fraw, fmod, ftask>>
    BY <1>15 DEF FFail, fdbVars
  <2>2. FileTypeOK'
    BY <2>1, <1>m DEF FileTypeOK, FilePcs, Unfinished
  <2>3. Mirrored' /\ RowFirst' /\ Reported' /\ TaskTells'
    BY <2>1 DEF Mirrored, RowFirst, Reported, TaskTells
  <2>4. Whole'
    BY <2>1, <1>m DEF RowFirst, Reported, Whole, Saved, Unfinished, FMods
  <2>5. FlagsTrue'
    BY <2>1 DEF FlagsTrue, Unfinished
  <2>s. Stays
    BY <2>1 DEF Stays
  <2> QED BY <2>2, <2>3, <2>4, <2>5, <2>s
<1>16. CASE FEnd
  <2>1. /\ fpc' = "closed" /\ fcut' = fcut \cup Unfinished /\ fleft' = {}
        /\ fmod' = FMain /\ ftask' = "analyze" /\ fconn' = fdisk /\ fdisk' = fdisk /\ ftx' = FALSE
        /\ fraw' = fraw
    BY <1>16 DEF FEnd, Db!Reconnect
  <2>2. FileTypeOK'
    BY <2>1, <1>m DEF FileTypeOK, FilePcs, Unfinished
  <2>3. Mirrored' /\ RowFirst' /\ Reported' /\ TaskTells'
    BY <2>1 DEF Mirrored, RowFirst, Reported, TaskTells
  <2>4. Whole'
    BY <2>1, <1>m DEF RowFirst, Reported, Whole, Saved, Unfinished, FMods
  <2>5. FlagsTrue'
    BY <2>1 DEF FlagsTrue, Unfinished
  <2>s. Stays
    BY <2>1 DEF Stays
  <2> QED BY <2>2, <2>3, <2>4, <2>5, <2>s
<1> QED BY <1>1, <1>2, <1>3, <1>4, <1>5, <1>6, <1>7, <1>8, <1>9, <1>10, <1>11, <1>12, <1>13, <1>14,
         <1>15, <1>16 DEF FileNext

-------------------------------------------------------------------------------
\* The invariant holds of every behaviour of a file item.
THEOREM FileInvariant == FileSpec => []FileInv
BY FileInitHolds, FileStepHolds, PTL DEF FileSpec

\* AddExecutable and the analyzer's tasks: whatever is cut short by an
\* exception or by the end of Orthia, an "analyzed" or "symbols loaded" flag on
\* the disk is true, and an item that opens has every description and name its
\* first open was to save, for any dependencies and any number of tasks.
THEOREM FileCorrect == FileSpec => []FileTells
<1>1. FileInv => FileTells
  <2> SUFFICES ASSUME FileInv PROVE FileTells
    OBVIOUS
  <2>1. FileFlagsTell
    BY DEF FileInv, FlagsTrue, FileFlagsTell, Unfinished
  <2>2. OpenIsWhole
    BY DEF FileInv, Mirrored, RowFirst, Whole, Saved, OpenIsWhole
  <2> QED BY <2>1, <2>2 DEF FileTells
<1> QED BY <1>1, FileInvariant, PTL

\* RegisterMainModule, ReportModules, the saver and FlushToDB: no statement
\* takes a name or a description off the disk (a replaced row of tbl_modules
\* would, by ON DELETE CASCADE).
THEOREM FileNamesStay == FileSpec => NamesStay
<1>1. FileInv /\ [FileNext]_fvars => Stays
  BY FileStepHolds
<1> QED BY <1>1, FileInvariant, PTL DEF FileSpec, NamesStay, Stays

------------------------------------------------------------------------------
(* Opening and migrating the file.                                           *)

Contents == [refs : BOOLEAN, mods : BOOLEAN, version : Nat, rflips : Nat, mflips : Nat, kinds : Nat]

OpenerSteps == {"start", "delete", "open", "refs", "mods", "begin", "undo", "write", "scripts",
                "commit", "prepare", "done", "broken", "failed", "ended"}

SchemaTypeOK ==
  /\ name \in Files
  /\ files \in [Files -> Contents] /\ pages \in [Files -> Contents]
  /\ writer \in [Files -> Files]
  /\ dpc \in [Openers -> OpenerSteps] /\ at \in [Openers -> Files]

\* The contents fit the version they say they have.
Fits(db) ==
  /\ db.rflips = IF db.version >= 3 THEN 1 ELSE 0
  /\ db.mflips = IF db.version >= 4 THEN 1 ELSE 0
  /\ db.kinds = IF db.version >= 5 THEN 1 ELSE 0

AllFit == \A f \in Files : Fits(files[f]) /\ Fits(pages[f])

\* RESERVED is held by a process that is in its scripts or about to commit,
\* and whoever runs scripts holds it.
WriterWorks ==
  /\ \A f \in Files : writer[f] # NoOpener =>
       at[writer[f]] = f /\ dpc[writer[f]] \in {"scripts", "commit"}
  /\ \A o \in Openers : dpc[o] = "scripts" => writer[at[o]] = o

\* What a writer sees has the tables of the committed contents: nobody makes
\* a table beside it, so its commit takes none away.
PagesKeepTables ==
  \A f \in Files : writer[f] # NoOpener =>
    pages[f].refs = files[f].refs /\ pages[f].mods = files[f].mods

\* From the end of its scripts on a process has the current version before it.
VersionReached ==
  \A o \in Openers :
    /\ dpc[o] = "commit" =>
         (IF writer[at[o]] = o THEN pages[at[o]] ELSE files[at[o]]).version = Current
    /\ dpc[o] \in {"prepare", "done"} => files[at[o]].version = Current

\* No version without tbl_references, and none of the scripts gets past the
\* flip of its addresses.
RefsFirst ==
  /\ \A f \in Files : files[f].version # 0 => files[f].refs
  /\ \A f \in Files : pages[f].version >= 3 => pages[f].refs

\* CreateNew is between its two statements, or was cut there.
TablesTogether ==
  /\ \A f \in Files : files[f].refs /\ ~files[f].mods =>
       f \in torn \/ \E o \in Openers : at[o] = f /\ dpc[o] = "mods"
  /\ \A o \in Openers : dpc[o] = "done" => files[at[o]].refs /\ files[at[o]].mods

SchemaInv ==
  /\ SchemaTypeOK
  /\ AllFit
  /\ WriterWorks
  /\ PagesKeepTables
  /\ VersionReached
  /\ RefsFirst
  /\ TablesTogether

USE DEF SchemaInv, Files, Current

\* The first file has all that its version says, the others are empty.
LEMMA InitHolds == DatabaseFileInit => SchemaInv
<1> SUFFICES ASSUME DatabaseFileInit PROVE SchemaInv
  OBVIOUS
<1> PICK v \in Versions : files = [f \in Files |-> IF f = NoOpener /\ v # 0 THEN Made(v) ELSE Blank]
  BY DEF DatabaseFileInit
<1>1. v \in Nat /\ Made(v) \in Contents /\ Blank \in Contents
  BY OpenersAssumption DEF Made, Blank, Contents
<1>2. SchemaTypeOK
  BY <1>1, OpenersAssumption DEF DatabaseFileInit, SchemaTypeOK, OpenerSteps
<1>3. AllFit
  BY <1>1, OpenersAssumption DEF DatabaseFileInit, AllFit, Fits, Made, Blank
<1>4. RefsFirst
  <2>1. Made(v).refs /\ Blank.version = 0
    BY DEF Made, Blank
  <2>2. \A f \in Files : files[f] = Made(v) \/ files[f] = Blank
    OBVIOUS
  <2>3. ~(0 >= 3)
    OBVIOUS
  <2>4. pages = files
    BY DEF DatabaseFileInit
  <2> QED BY <2>1, <2>2, <2>3, <2>4, Zenon DEF RefsFirst
<1>5. WriterWorks /\ PagesKeepTables /\ VersionReached
  BY OpenersAssumption DEF DatabaseFileInit, WriterWorks, PagesKeepTables, VersionReached
<1>6. TablesTogether
  BY <1>1 DEF DatabaseFileInit, TablesTogether, Made, Blank
<1> QED BY <1>2, <1>3, <1>4, <1>5, <1>6

\* A script keeps the tables, counts the version up by one and keeps what the
\* version says of the flips.
LEMMA UpdateKeeps ==
  ASSUME NEW db \in Contents
  PROVE  LET up == DoUpdate(db)
         IN /\ up \in Contents
            /\ up.version = db.version + 1 /\ up.refs = db.refs /\ up.mods = db.mods
            /\ Fits(db) => Fits(up)
<1> DEFINE up == DoUpdate(db)
           v == db.version + 1
           r == IF db.version = 2 THEN db.rflips + 1 ELSE db.rflips
           m == IF db.version = 3 THEN db.mflips + 1 ELSE db.mflips
           k == IF db.version = 4 THEN db.kinds + 1 ELSE db.kinds
<1>1. /\ up.version = v /\ up.refs = db.refs /\ up.mods = db.mods
      /\ up.rflips = r /\ up.mflips = m /\ up.kinds = k
  BY DEF DoUpdate, Contents
<1>2. v \in Nat /\ r \in Nat /\ m \in Nat /\ k \in Nat
  BY DEF Contents
<1>3. up \in Contents
  <2>1. up = [db EXCEPT !.version = v, !.rflips = r, !.mflips = m, !.kinds = k]
    BY DEF DoUpdate
  <2> HIDE DEF up, v, r, m, k
  <2> QED BY <1>2, <2>1, Zenon DEF Contents
<1>4. Fits(db) => Fits(up)
  <2> HIDE DEF up
  <2> QED BY <1>1 DEF Contents, Fits
<1> QED BY <1>1, <1>3, <1>4

\* A created table leaves the rest of the contents alone.
LEMMA TableAdded ==
  ASSUME NEW db \in Contents
  PROVE  [db EXCEPT !.refs = TRUE] \in Contents /\ [db EXCEPT !.mods = TRUE] \in Contents
<1>1. TRUE \in BOOLEAN
  OBVIOUS
<1> QED BY <1>1, Zenon DEF Contents

-----------------------------------------------------------------------------
\* Every step of every process keeps the invariant.
LEMMA StepHolds == SchemaInv /\ [DatabaseFileNext]_dfVars => SchemaInv'
<1> SUFFICES ASSUME SchemaInv, [DatabaseFileNext]_dfVars PROVE SchemaInv'
  OBVIOUS
<1>0. CASE UNCHANGED dfVars
  BY <1>0 DEF dfVars, SchemaTypeOK, AllFit, WriterWorks, PagesKeepTables, VersionReached, RefsFirst, TablesTogether
<1> SUFFICES ASSUME NEW o \in Openers, OpenerStep(o) \/ EndProcess(o) PROVE SchemaInv'
  BY <1>0 DEF DatabaseFileNext
<1> USE OpenersAssumption
<1>1. CASE Reinit(o)
  <2>1. SchemaTypeOK'
    BY <1>1 DEF Reinit, Goto, SchemaTypeOK, OpenerSteps
  <2>2. AllFit' /\ PagesKeepTables' /\ RefsFirst'
    BY <1>1 DEF Reinit, Goto, SchemaTypeOK, AllFit, PagesKeepTables, RefsFirst
  <2>3. WriterWorks'
    BY <1>1 DEF Reinit, Goto, SchemaTypeOK, WriterWorks
  <2>4. VersionReached'
    BY <1>1 DEF Reinit, Goto, SchemaTypeOK, VersionReached
  <2>5. TablesTogether'
    BY <1>1 DEF Reinit, Goto, SchemaTypeOK, TablesTogether
  <2> QED BY <2>1, <2>2, <2>3, <2>4, <2>5
<1>2. CASE CreateNew(o)
  <2>1. SchemaTypeOK'
    BY <1>2 DEF CreateNew, Goto, SchemaTypeOK, OpenerSteps
  <2>2. AllFit' /\ PagesKeepTables' /\ RefsFirst'
    BY <1>2 DEF CreateNew, Goto, SchemaTypeOK, AllFit, PagesKeepTables, RefsFirst
  <2>3. WriterWorks'
    BY <1>2 DEF CreateNew, Goto, SchemaTypeOK, WriterWorks
  <2>4. VersionReached'
    BY <1>2 DEF CreateNew, Goto, SchemaTypeOK, VersionReached
  <2>5. TablesTogether'
    BY <1>2 DEF CreateNew, Goto, SchemaTypeOK, TablesTogether
  <2> QED BY <2>1, <2>2, <2>3, <2>4, <2>5
<1>3. CASE OpenExisting(o)
  <2>1. SchemaTypeOK'
    BY <1>3 DEF OpenExisting, Goto, SchemaTypeOK, OpenerSteps
  <2>2. AllFit' /\ PagesKeepTables' /\ RefsFirst'
    BY <1>3 DEF OpenExisting, Goto, SchemaTypeOK, AllFit, PagesKeepTables, RefsFirst
  <2>3. WriterWorks'
    BY <1>3 DEF OpenExisting, Goto, SchemaTypeOK, WriterWorks
  <2>4. VersionReached'
    BY <1>3 DEF OpenExisting, Goto, SchemaTypeOK, VersionReached
  <2>5. TablesTogether'
    BY <1>3 DEF OpenExisting, Goto, SchemaTypeOK, TablesTogether
  <2> QED BY <2>1, <2>2, <2>3, <2>4, <2>5
<1>4. CASE CreateReferences(o)
  <2>1. SchemaTypeOK'
    <3>1. /\ files' = [files EXCEPT ![at[o]] = [@ EXCEPT !.refs = TRUE]]
          /\ files[at[o]] \in Contents
      BY <1>4 DEF CreateReferences, CreateTable, SchemaTypeOK
    <3>2. [files[at[o]] EXCEPT !.refs = TRUE] \in Contents
      BY <3>1, TableAdded
    <3>3. files' \in [Files -> Contents]
      BY <3>1, <3>2 DEF SchemaTypeOK
    <3> QED BY <1>4, <3>3 DEF CreateReferences, Goto, CreateTable, SchemaTypeOK, OpenerSteps
  <2>2. AllFit'
    BY <1>4 DEF CreateReferences, Goto, CreateTable, Alone, SchemaTypeOK, AllFit, Fits
  <2>3. WriterWorks'
    BY <1>4 DEF CreateReferences, Goto, CreateTable, Alone, SchemaTypeOK, WriterWorks
  <2>4. PagesKeepTables'
    BY <1>4 DEF CreateReferences, Goto, CreateTable, Alone, SchemaTypeOK, PagesKeepTables
  <2>5. VersionReached'
    BY <1>4 DEF CreateReferences, Goto, CreateTable, Alone, SchemaTypeOK, VersionReached
  <2>6. RefsFirst'
    BY <1>4 DEF CreateReferences, Goto, CreateTable, Alone, SchemaTypeOK, RefsFirst
  <2>7. TablesTogether'
    BY <1>4 DEF CreateReferences, Goto, CreateTable, Alone, SchemaTypeOK, TablesTogether
  <2> QED BY <2>1, <2>2, <2>3, <2>4, <2>5, <2>6, <2>7
<1>5. CASE CreateModules(o)
  <2>1. SchemaTypeOK'
    <3>1. /\ files' = [files EXCEPT ![at[o]] = [@ EXCEPT !.mods = TRUE]]
          /\ files[at[o]] \in Contents
      BY <1>5 DEF CreateModules, CreateTable, SchemaTypeOK
    <3>2. [files[at[o]] EXCEPT !.mods = TRUE] \in Contents
      BY <3>1, TableAdded
    <3>3. files' \in [Files -> Contents]
      BY <3>1, <3>2 DEF SchemaTypeOK
    <3> QED BY <1>5, <3>3 DEF CreateModules, Goto, CreateTable, SchemaTypeOK, OpenerSteps
  <2>2. AllFit'
    BY <1>5 DEF CreateModules, Goto, CreateTable, Alone, SchemaTypeOK, AllFit, Fits
  <2>3. WriterWorks'
    BY <1>5 DEF CreateModules, Goto, CreateTable, Alone, SchemaTypeOK, WriterWorks
  <2>4. PagesKeepTables'
    BY <1>5 DEF CreateModules, Goto, CreateTable, Alone, SchemaTypeOK, PagesKeepTables
  <2>5. VersionReached'
    BY <1>5 DEF CreateModules, Goto, CreateTable, Alone, SchemaTypeOK, VersionReached
  <2>6. RefsFirst'
    BY <1>5 DEF CreateModules, Goto, CreateTable, Alone, SchemaTypeOK, RefsFirst
  <2>7. TablesTogether'
    BY <1>5 DEF CreateModules, Goto, CreateTable, Alone, SchemaTypeOK, TablesTogether
  <2> QED BY <2>1, <2>2, <2>3, <2>4, <2>5, <2>6, <2>7
<1>6. CASE ReadVersion(o)
  <2>1. SchemaTypeOK'
    BY <1>6 DEF ReadVersion, Goto, StepFor, SchemaTypeOK, OpenerSteps
  <2>2. AllFit' /\ PagesKeepTables' /\ RefsFirst'
    BY <1>6 DEF ReadVersion, Goto, StepFor, SchemaTypeOK, AllFit, PagesKeepTables, RefsFirst
  <2>3. WriterWorks'
    BY <1>6 DEF ReadVersion, Goto, StepFor, SchemaTypeOK, WriterWorks
  <2>4. VersionReached'
    BY <1>6 DEF ReadVersion, Goto, StepFor, SchemaTypeOK, VersionReached, WriterWorks
  <2>5. TablesTogether'
    BY <1>6 DEF ReadVersion, Goto, StepFor, SchemaTypeOK, TablesTogether
  <2> QED BY <2>1, <2>2, <2>3, <2>4, <2>5
<1>7. CASE CreateVersion(o)
  <2>1. SchemaTypeOK'
    BY <1>7 DEF CreateVersion, Goto, SchemaTypeOK, OpenerSteps
  <2>2. AllFit' /\ RefsFirst'
    BY <1>7 DEF CreateVersion, Goto, SchemaTypeOK, AllFit, RefsFirst
  <2>3. WriterWorks'
    BY <1>7 DEF CreateVersion, Goto, SchemaTypeOK, WriterWorks
  <2>4. PagesKeepTables'
    BY <1>7 DEF CreateVersion, Goto, SchemaTypeOK, PagesKeepTables
  <2>5. VersionReached'
    BY <1>7 DEF CreateVersion, Goto, SchemaTypeOK, VersionReached
  <2>6. TablesTogether'
    BY <1>7 DEF CreateVersion, Goto, SchemaTypeOK, TablesTogether
  <2> QED BY <2>1, <2>2, <2>3, <2>4, <2>5, <2>6
<1>8. CASE Reserve(o)
  <2>1. SchemaTypeOK'
    BY <1>8 DEF Reserve, Goto, SchemaTypeOK, OpenerSteps
  <2>2. AllFit' /\ RefsFirst'
    BY <1>8 DEF Reserve, Goto, SchemaTypeOK, AllFit, RefsFirst
  <2>3. WriterWorks'
    BY <1>8 DEF Reserve, Goto, SchemaTypeOK, WriterWorks
  <2>4. PagesKeepTables'
    BY <1>8 DEF Reserve, Goto, SchemaTypeOK, PagesKeepTables
  <2>5. VersionReached'
    BY <1>8 DEF Reserve, Goto, SchemaTypeOK, VersionReached
  <2>6. TablesTogether'
    BY <1>8 DEF Reserve, Goto, SchemaTypeOK, TablesTogether
  <2> QED BY <2>1, <2>2, <2>3, <2>4, <2>5, <2>6
<1>9. CASE RunScript(o)
  <2>1. pages[at[o]] \in Contents /\ pages' = [pages EXCEPT ![at[o]] = DoUpdate(pages[at[o]])]
    BY <1>9 DEF RunScript, SchemaTypeOK
  <2>2. \A f \in Files : f # at[o] => pages'[f] = pages[f]
    BY <2>1 DEF SchemaTypeOK
  <2>3. LET up == pages'[at[o]]
        IN /\ up \in Contents
           /\ up.version = pages[at[o]].version + 1
           /\ up.refs = pages[at[o]].refs /\ up.mods = pages[at[o]].mods
           /\ Fits(pages[at[o]]) => Fits(up)
    BY <2>1, UpdateKeeps DEF SchemaTypeOK
  <2>4. SchemaTypeOK'
    BY <1>9, <2>1, <2>2, <2>3 DEF RunScript, Goto, CanUpdate, SchemaTypeOK, OpenerSteps
  <2>5. AllFit'
    BY <1>9, <2>1, <2>2, <2>3 DEF RunScript, Goto, CanUpdate, SchemaTypeOK, AllFit
  <2>6. WriterWorks'
    BY <1>9, <2>1, <2>2, <2>3 DEF RunScript, Goto, CanUpdate, SchemaTypeOK, WriterWorks
  <2>7. PagesKeepTables'
    BY <1>9, <2>1, <2>2, <2>3 DEF RunScript, Goto, CanUpdate, SchemaTypeOK, PagesKeepTables
  <2>8. VersionReached'
    BY <1>9, <2>1, <2>2, <2>3 DEF RunScript, Goto, CanUpdate, SchemaTypeOK, VersionReached, WriterWorks, Contents
  <2>9. RefsFirst'
    <3>1. pages[at[o]].version \in Nat /\ (pages[at[o]].version = 2 => pages[at[o]].refs)
      BY <1>9, <2>1 DEF RunScript, CanUpdate, Contents
    <3>2. pages'[at[o]].version >= 3 => pages'[at[o]].refs
      BY <2>3, <3>1 DEF RefsFirst, SchemaTypeOK
    <3> QED BY <1>9, <2>2, <3>2 DEF RunScript, RefsFirst
  <2>10. TablesTogether'
    BY <1>9, <2>1, <2>2, <2>3 DEF RunScript, Goto, CanUpdate, SchemaTypeOK, TablesTogether
  <2> QED BY <2>4, <2>5, <2>6, <2>7, <2>8, <2>9, <2>10
<1>10. CASE Commit(o)
  <2>1. SchemaTypeOK'
    BY <1>10 DEF Commit, Goto, Release, SchemaTypeOK, OpenerSteps
  <2>2. AllFit'
    BY <1>10 DEF Commit, Goto, Release, SchemaTypeOK, AllFit, Fits
  <2>3. WriterWorks'
    BY <1>10 DEF Commit, Goto, Release, SchemaTypeOK, WriterWorks
  <2>4. PagesKeepTables'
    BY <1>10 DEF Commit, Goto, Release, SchemaTypeOK, PagesKeepTables
  <2>5. VersionReached'
    BY <1>10 DEF Commit, Goto, Release, SchemaTypeOK, VersionReached, WriterWorks
  <2>6. RefsFirst'
    BY <1>10 DEF Commit, Goto, Release, SchemaTypeOK, RefsFirst, VersionReached
  <2>7. TablesTogether'
    BY <1>10 DEF Commit, Goto, Release, SchemaTypeOK, TablesTogether, PagesKeepTables
  <2> QED BY <2>1, <2>2, <2>3, <2>4, <2>5, <2>6, <2>7
<1>11. CASE FailScripts(o)
  <2>1. SchemaTypeOK'
    BY <1>11 DEF FailScripts, Goto, Rollback, Release, SchemaTypeOK, OpenerSteps
  <2>2. AllFit' /\ PagesKeepTables' /\ RefsFirst'
    BY <1>11 DEF FailScripts, Goto, Rollback, Release, SchemaTypeOK, AllFit, PagesKeepTables, RefsFirst
  <2>3. WriterWorks'
    BY <1>11 DEF FailScripts, Goto, Rollback, Release, SchemaTypeOK, WriterWorks
  <2>4. VersionReached'
    BY <1>11 DEF FailScripts, Goto, Rollback, Release, SchemaTypeOK, VersionReached
  <2>5. TablesTogether'
    BY <1>11 DEF FailScripts, Goto, Rollback, Release, SchemaTypeOK, TablesTogether
  <2> QED BY <2>1, <2>2, <2>3, <2>4, <2>5
<1>12. CASE GiveUp(o)
  <2>1. SchemaTypeOK'
    BY <1>12 DEF GiveUp, Goto, Release, Blocked, SchemaTypeOK, OpenerSteps
  <2>2. AllFit' /\ PagesKeepTables' /\ RefsFirst'
    BY <1>12 DEF GiveUp, Goto, Release, Blocked, SchemaTypeOK, AllFit, PagesKeepTables, RefsFirst
  <2>3. WriterWorks'
    BY <1>12 DEF GiveUp, Goto, Release, Blocked, SchemaTypeOK, WriterWorks
  <2>4. VersionReached'
    BY <1>12 DEF GiveUp, Goto, Release, Blocked, SchemaTypeOK, VersionReached
  <2>5. TablesTogether'
    BY <1>12 DEF GiveUp, Goto, Release, Blocked, SchemaTypeOK, TablesTogether
  <2> QED BY <2>1, <2>2, <2>3, <2>4, <2>5
<1>13. CASE Prepare(o)
  <2>1. SchemaTypeOK'
    BY <1>13 DEF Prepare, Goto, SchemaTypeOK, OpenerSteps
  <2>2. AllFit' /\ PagesKeepTables' /\ RefsFirst'
    BY <1>13 DEF Prepare, Goto, SchemaTypeOK, AllFit, PagesKeepTables, RefsFirst
  <2>3. WriterWorks'
    BY <1>13 DEF Prepare, Goto, SchemaTypeOK, WriterWorks
  <2>4. VersionReached'
    BY <1>13 DEF Prepare, Goto, SchemaTypeOK, VersionReached
  <2>5. TablesTogether'
    BY <1>13 DEF Prepare, Goto, SchemaTypeOK, TablesTogether
  <2> QED BY <2>1, <2>2, <2>3, <2>4, <2>5
<1>14. CASE EndProcess(o)
  <2>1. SchemaTypeOK'
    BY <1>14 DEF EndProcess, Goto, Release, SchemaTypeOK, OpenerSteps
  <2>2. AllFit' /\ PagesKeepTables' /\ RefsFirst'
    BY <1>14 DEF EndProcess, Goto, Release, SchemaTypeOK, AllFit, PagesKeepTables, RefsFirst
  <2>3. WriterWorks'
    BY <1>14 DEF EndProcess, Goto, Release, SchemaTypeOK, WriterWorks
  <2>4. VersionReached'
    BY <1>14 DEF EndProcess, Goto, Release, SchemaTypeOK, VersionReached
  <2>5. TablesTogether'
    BY <1>14 DEF EndProcess, Goto, Release, SchemaTypeOK, TablesTogether
  <2> QED BY <2>1, <2>2, <2>3, <2>4, <2>5
<1> QED BY <1>1, <1>2, <1>3, <1>4, <1>5, <1>6, <1>7, <1>8, <1>9, <1>10, <1>11, <1>12, <1>13, <1>14 DEF OpenerStep

-----------------------------------------------------------------------------
\* The invariant holds of every behaviour of CDatabase::Reinit and
\* DoVersionScripts.
THEOREM SchemaInvariant == DatabaseFileSpec => []SchemaInv
BY InitHolds, StepHolds, PTL DEF DatabaseFileSpec

\* DoVersionScripts: however many processes create or migrate the file at
\* once, give up or end in the middle, what is committed is what its version
\* says (every flip ran exactly once), whoever has opened it has the current
\* version, and a table is missing only where CreateNew was cut.
THEOREM SchemaCorrect == DatabaseFileSpec => []SchemaTells
<1>1. SchemaInv => SchemaTells
  <2> SUFFICES ASSUME SchemaInv PROVE SchemaTells
    OBVIOUS
  <2>1. VersionTells
    BY DEF AllFit, Fits, VersionTells, Made, SchemaTypeOK, Contents
  <2>2. ASSUME NEW o \in Openers, dpc[o] = "done" PROVE files[at[o]] = Made(Current)
    BY <2>2 DEF AllFit, Fits, Made, SchemaTypeOK, Contents, VersionReached, TablesTogether
  <2>3. OpenIsCurrent
    BY <2>2 DEF OpenIsCurrent, RefsFirst, TablesTogether
  <2> QED BY <2>1, <2>3 DEF SchemaTells
<1> QED BY <1>1, SchemaInvariant, PTL

\* What one step may do to the committed contents of a file.
CommitsWhole ==
  \A f \in Files :
    /\ files'[f].version \in {files[f].version, Current}
    /\ files[f].refs => files'[f].refs
    /\ files[f].mods => files'[f].mods

\* DoVersionScripts runs in one transaction: nobody ever sees a version between
\* the one a file had and the current one, and the commit of a migration does
\* not undo the tables that CreateNew of another process has made.
THEOREM MigrationAtomic == DatabaseFileSpec => [][CommitsWhole]_dfVars
<1>1. SchemaInv /\ [DatabaseFileNext]_dfVars => [CommitsWhole]_dfVars
  <2> SUFFICES ASSUME SchemaInv, NEW o \in Openers, OpenerStep(o) \/ EndProcess(o)
               PROVE  CommitsWhole
    BY DEF DatabaseFileNext
  <2> USE OpenersAssumption
  <2>1. CASE files' = files
    BY <2>1 DEF CommitsWhole
  <2>2. CASE CreateReferences(o) \/ CreateModules(o)
    <3>1. \A f \in Files : f # at[o] => files'[f] = files[f]
      BY <2>2 DEF CreateReferences, CreateModules, CreateTable, SchemaTypeOK
    <3>2. \/ files'[at[o]] = [files[at[o]] EXCEPT !.refs = TRUE]
          \/ files'[at[o]] = [files[at[o]] EXCEPT !.mods = TRUE]
      BY <2>2 DEF CreateReferences, CreateModules, CreateTable, SchemaTypeOK
    <3>3. files[at[o]] \in Contents
      BY DEF SchemaTypeOK
    <3>4. /\ files'[at[o]].version = files[at[o]].version
          /\ files[at[o]].refs => files'[at[o]].refs
          /\ files[at[o]].mods => files'[at[o]].mods
      BY <3>2, <3>3, Zenon DEF Contents
    <3> QED BY <3>1, <3>4 DEF CommitsWhole
  <2>3. CASE Commit(o) /\ writer[at[o]] = o
    BY <2>3 DEF Commit, CommitsWhole, SchemaTypeOK, VersionReached, PagesKeepTables
  <2> QED BY <2>1, <2>2, <2>3
          DEF OpenerStep, Reinit, CreateNew, OpenExisting, ReadVersion, CreateVersion, Reserve,
              RunScript, Commit, FailScripts, Rollback, GiveUp, Prepare, EndProcess
<1> QED BY <1>1, SchemaInvariant, PTL DEF DatabaseFileSpec
===============================================================================
