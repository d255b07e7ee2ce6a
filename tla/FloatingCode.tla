----------------------------- MODULE FloatingCode -----------------------------
(* Floating code: executable memory that no module of a process owns, found  *)
(* by following the references that lead out of an analyzed module.  The     *)
(* analyzer finds a region, saves its bytes and its record, analyzes it from *)
(* its entries and follows what that found, pass after pass until nothing is *)
(* pending.  The process changes its memory meanwhile, F5 restores flags on  *)
(* the UI thread, and Orthia may end at any moment and open the process      *)
(* again, when regions that changed are stale.                               *)
EXTENDS Integers

CONSTANTS
  Regions,      \* the allocations, in the order of their addresses
  Entries,      \* the places in a region that code may lead to
  Source,       \* the analyzed module that references start from
  SourceLeads,  \* where its references lead: places <<region, entry>>
  Leads,        \* where the code at an entry leads, by region, bytes and entry
  MaxBytes,     \* a region has bytes 1..MaxBytes, 0 when there is no memory
  NoRegion,     \* no floating module
  MaxKTasks,    \* bound on the .analyze commands
  MaxTroubles   \* bound on what comes in between: changes of the memory, errors, CTRL+C, F5, ends

Places == Regions \X Entries

NoSnapshot == -1

(* A FloatingRegionInfo: who refers to which entry, the fingerprint of the   *)
(* bytes and the snapshot of them.                                           *)
RegionInfos == [referrers : SUBSET ((Regions \cup {Source}) \X Entries), hash : 0..MaxBytes,
                snap : (0..MaxBytes) \cup {NoSnapshot}]

ASSUME FloatingAssumption ==
  /\ Regions \subseteq Nat /\ Source \notin Regions /\ SourceLeads \subseteq Places
  /\ MaxBytes \in Nat \ {0}
  /\ Leads \in [Regions -> [0..MaxBytes -> [Entries -> SUBSET Places]]]
  /\ \A r \in Regions, e \in Entries : Leads[r][0][e] = {}
  /\ {MaxKTasks, MaxTroubles} \subseteq Nat
  /\ NoRegion \notin RegionInfos

VARIABLES
  mem,       \* the bytes of the regions now
  known,     \* m_floatingModules
  kflags,    \* their flags in m_moduleFlags: "analyzeDone", "stale"
  kdb,       \* data.db, what concerns the regions
  snaps,     \* the files of floating/, by region and bytes
  kopen,     \* the item is open
  kpc, ktask,\* the analyzer thread and its task
  kfrom,     \* the module under analysis, whose references are followed
  kphase,    \* why regions are being saved: found, analyzed, refreshed, removed
  ktodo,     \* the records still to save
  knew,      \* the regions with new entries
  kpass,     \* the modules this pass has still to analyze
  kqueued,   \* a pass is queued
  krestore,  \* the flags F5 has read and not yet put back
  kcut,      \* regions whose analysis met one of the windows named below
  kmissed,   \* regions that references may lead into unseen, after a window
  kwhole,    \* .analyze of the source began, and nothing failed since
  ktasks, troubles

itemK == <<known, kflags, kopen>>
workK == <<kpc, ktask, kfrom, kphase, ktodo, knew, kpass, kqueued>>
windowK == <<kcut, kmissed, kwhole>>
boundK == <<ktasks, troubles>>
flVars == <<mem, itemK, kdb, snaps, workK, krestore, windowK, boundK>>

EntriesOf(info) == {x[2] : x \in info.referrers}
Smallest(S) == CHOOSE r \in S : \A q \in S : r <= q
Only(r, info) == [q \in {r} |-> info]

NoRecords == [rows |-> {}, record |-> [r \in Regions |-> NoRegion], done |-> {}, refs |-> {}]

FloatingInit ==
  /\ mem \in [Regions -> {0, 1}]
  /\ known = [r \in Regions |-> NoRegion] /\ kflags = [r \in Regions |-> {}]
  /\ kdb = NoRecords /\ snaps = {} /\ kopen = TRUE
  /\ kpc = "idle" /\ ktask = "source" /\ kfrom = Source /\ kphase = "found"
  /\ ktodo = << >> /\ knew = {} /\ kpass = {} /\ kqueued = FALSE
  /\ krestore = {} /\ kcut = {} /\ kmissed = {} /\ kwhole = FALSE
  /\ ktasks = 0 /\ troubles = 0

(* Windows: the memory changes after it was looked at; memory that was not   *)
(* there when a reference into it was followed comes later.                  *)
Change(r, v) ==
  /\ troubles < MaxTroubles /\ v # mem[r]
  /\ troubles' = troubles + 1
  /\ mem' = [mem EXCEPT ![r] = v]
  /\ kcut' = kcut \cup {r}
  /\ kmissed' = IF mem[r] = 0 THEN kmissed \cup {r} ELSE kmissed
  /\ UNCHANGED <<itemK, kdb, snaps, workK, krestore, kwhole, ktasks>>

------------------------------------------------------------------------------
(* The tasks.                                                                *)

(* QueryPendingFloatingModules.                                              *)
PendingFloating == {r \in Regions : known[r] # NoRegion /\ kflags[r] = {}}

(* .analyze of the source, whose references are saved.                       *)
StartSource ==
  /\ kopen /\ kpc = "idle" /\ ktasks < MaxKTasks
  /\ ktasks' = ktasks + 1
  /\ ktask' = "source" /\ kfrom' = Source /\ kpc' = "collect"
  /\ kwhole' = TRUE
  /\ UNCHANGED <<mem, itemK, kdb, snaps, kphase, ktodo, knew, kpass, kqueued, krestore,
                 kcut, kmissed, troubles>>

(* AnalyzeFloatingNow: .analyze and .analyze /f of a floating module.        *)
StartOne(task, r) ==
  /\ kopen /\ kpc = "idle" /\ ktasks < MaxKTasks /\ known[r] # NoRegion
  /\ ktasks' = ktasks + 1
  /\ ktask' = task /\ kfrom' = r
  /\ \/ task = "one" /\ kpc' = IF "stale" \in kflags[r] THEN "end"
                              ELSE IF "analyzeDone" \in kflags[r] THEN "collect" ELSE "analyze"
     \/ task = "force" /\ kpc' = IF "stale" \in kflags[r] THEN "refresh" ELSE "clear"
  /\ UNCHANGED <<mem, itemK, kdb, snaps, kphase, ktodo, knew, kpass, kqueued, krestore,
                 windowK, troubles>>

StartPass ==
  /\ kpc = "idle" /\ kqueued
  /\ kqueued' = FALSE
  /\ ktask' = "pass" /\ kpass' = PendingFloating /\ kpc' = "next"
  /\ UNCHANGED <<mem, itemK, kdb, snaps, kfrom, kphase, ktodo, knew, krestore, windowK, boundK>>

PassNext ==
  /\ kpc = "next"
  /\ IF kpass = {} THEN kpc' = "end" /\ UNCHANGED <<kfrom, kpass>>
     ELSE /\ kfrom' = Smallest(kpass) /\ kpass' = kpass \ {kfrom'}
          /\ kpc' = "analyze"
  /\ UNCHANGED <<mem, itemK, kdb, snaps, ktask, kphase, ktodo, knew, kqueued, krestore,
                 windowK, boundK>>

Idles == kpc' = "idle" /\ ktask' = "source" /\ kfrom' = Source /\ kphase' = "found"
         /\ ktodo' = << >> /\ knew' = {} /\ kpass' = {}

(* The last step of a task queues the next pass while something is pending.  *)
EndTask ==
  /\ kpc = "end"
  /\ Idles /\ kqueued' = (kqueued \/ PendingFloating # {})
  /\ UNCHANGED <<mem, itemK, kdb, snaps, krestore, windowK, boundK>>

(* CTRL+C: the pass stops before its next module, and none follows.          *)
Cancelled ==
  /\ kpc \in {"next", "end"} /\ troubles < MaxTroubles
  /\ troubles' = troubles + 1 /\ kwhole' = FALSE
  /\ Idles
  /\ UNCHANGED <<mem, itemK, kdb, snaps, kqueued, krestore, kcut, kmissed,
                 ktasks>>

AfterDiscover == IF ktask = "pass" THEN "next" ELSE "end"

------------------------------------------------------------------------------
(* DiscoverFloatingCode.                                                     *)

(* The references that leave the module, of every kind but data.             *)
Targeted(s) == IF s = Source THEN SourceLeads
               ELSE {x.to : x \in {y \in kdb.refs : y.from = s /\ y.to[1] # s}}

(* A known region takes the reference whatever became of its memory; a new   *)
(* one has to be there.                                                      *)
Reached == {r \in Regions : (known[r] # NoRegion \/ mem[r] # 0)
                            /\ \E e \in Entries : <<r, e>> \in Targeted(kfrom)}

(* A copy with the references added; a new region with its fingerprint.      *)
Referred(r) ==
  LET old == IF known[r] # NoRegion THEN known[r]
             ELSE [referrers |-> {}, hash |-> mem[r], snap |-> NoSnapshot]
  IN [old EXCEPT !.referrers = @ \cup {<<kfrom, x[2]>> : x \in {y \in Targeted(kfrom) : y[1] = r}}]

NewEntry(r) == known[r] = NoRegion \/ EntriesOf(Referred(r)) # EntriesOf(known[r])

\* Mutant: only a region that is new is analyzed.
CollectCreated ==
  /\ kpc = "collect"
  /\ ktodo' = [r \in {q \in Reached : known[q] # Referred(q)} |-> Referred(r)]
  /\ knew' = {r \in Reached : known[r] = NoRegion}
  /\ kphase' = "found"
  /\ kpc' = IF DOMAIN ktodo' = {} THEN "flags" ELSE "snap"
  /\ UNCHANGED <<mem, itemK, kdb, snaps, ktask, kfrom, kpass, kqueued, krestore, windowK, boundK>>

CollectFloatingRegions ==
  /\ kpc = "collect"
  /\ ktodo' = [r \in {q \in Reached : known[q] # Referred(q)} |-> Referred(r)]
  /\ knew' = {r \in Reached : NewEntry(r)}
  /\ kphase' = "found"
  /\ kpc' = IF DOMAIN ktodo' = {} THEN "flags" ELSE "snap"
  /\ UNCHANGED <<mem, itemK, kdb, snaps, ktask, kfrom, kpass, kqueued, krestore, windowK, boundK>>

Region == Smallest(DOMAIN ktodo)

(* SaveFloatingSnapshot, unless a snapshot is there: the bytes of this       *)
(* moment, a file of their own; a failure leaves the record without one.     *)
SaveFloatingSnapshot(ok) ==
  /\ kpc = "snap"
  /\ ok \/ troubles < MaxTroubles
  /\ IF kphase = "found" /\ ktodo[Region].snap # NoSnapshot
     THEN ok /\ UNCHANGED <<snaps, ktodo, troubles>>
     ELSE /\ snaps' = IF ok THEN snaps \cup {<<Region, mem[Region]>>} ELSE snaps
          /\ ktodo' = IF ok THEN [ktodo EXCEPT ![Region].snap = mem[Region]] ELSE ktodo
          /\ troubles' = IF ok THEN troubles ELSE troubles + 1
  /\ kpc' = IF kphase = "refreshed" THEN "unload" ELSE "row"
  /\ UNCHANGED <<mem, itemK, kdb, ktask, kfrom, kphase, knew, kpass, kqueued, krestore, windowK,
                 ktasks>>

(* SaveFloatingRegion: RegisterRange keeps a row that is there; then the     *)
(* record, each in a transaction of its own.                                 *)
RegisterRange ==
  /\ kpc = "row"
  /\ kdb' = [kdb EXCEPT !.rows = @ \cup {Region}]
  /\ kpc' = "record"
  /\ UNCHANGED <<mem, itemK, snaps, ktask, kfrom, kphase, ktodo, knew, kpass, kqueued, krestore,
                 windowK, boundK>>

(* The record of a refreshed region: the windows the old analysis met are    *)
(* over, unless the memory changed again since it was looked at.             *)
InsertRecord ==
  /\ kpc = "record"
  /\ kdb' = [kdb EXCEPT !.record[Region] = ktodo[Region]]
  /\ kcut' = IF /\ kphase = "refreshed" /\ mem[Region] = ktodo[Region].hash
                /\ ktodo[Region].snap \in {NoSnapshot, mem[Region]}
             THEN kcut \ {Region} ELSE kcut
  /\ kpc' = "set"
  /\ UNCHANGED <<mem, itemK, snaps, ktask, kfrom, kphase, ktodo, knew, kpass, kqueued, krestore,
                 kmissed, kwhole, boundK>>

SetFloatingModule ==
  /\ kpc = "set"
  /\ known' = [known EXCEPT ![Region] = ktodo[Region]]
  /\ ktodo' = [r \in DOMAIN ktodo \ {Region} |-> ktodo[r]]
  /\ kpc' = CASE kphase = "analyzed" -> "done"
              [] kphase = "refreshed" -> "fresh"
              [] OTHER -> IF DOMAIN ktodo' = {} THEN "flags" ELSE "snap"
  /\ UNCHANGED <<mem, kflags, kopen, kdb, snaps, ktask, kfrom, kphase, knew, kpass, kqueued,
                 krestore, windowK, boundK>>

(* UpdateModuleFlags: in memory, and in the metainfo when there is a row.    *)
UpdateFlags(r, set, remove) ==
  /\ kflags' = [kflags EXCEPT ![r] = (@ \cup set) \ remove]
  /\ kdb' = [kdb EXCEPT !.done = IF r \in kdb.rows /\ "analyzeDone" \in kflags'[r]
                                 THEN @ \cup {r} ELSE @ \ {r}]

(* A region with new entries waits for another pass.                         *)
ClearDone ==
  /\ kpc = "flags"
  /\ IF knew = {}
     THEN kpc' = AfterDiscover /\ UNCHANGED <<kflags, kdb, knew>>
     ELSE /\ UpdateFlags(Smallest(knew), {}, {"analyzeDone"})
          /\ knew' = knew \ {Smallest(knew)}
          /\ UNCHANGED kpc
  /\ UNCHANGED <<mem, known, kopen, snaps, ktask, kfrom, kphase, ktodo, kpass, kqueued, krestore,
                 windowK, boundK>>

------------------------------------------------------------------------------
(* AnalyzeFloatingModule.                                                    *)

(* .analyze /f: the references go, the flag stays until it is set again.     *)
ClearFloatingReferences ==
  /\ kpc = "clear"
  /\ kdb' = [kdb EXCEPT !.refs = {x \in @ : x.from # kfrom}]
  /\ kpc' = "analyze"
  /\ UNCHANGED <<mem, itemK, snaps, ktask, kfrom, kphase, ktodo, knew, kpass, kqueued, krestore,
                 windowK, boundK>>

CodeOf(r, bytes, entries) ==
  UNION {[from : {r}, entry : {e}, to : Leads[r][bytes][e]] : e \in entries}

(* AnalyzeRange from the entries the item has now, not those of the task's   *)
(* copy: the modules analyzed before in this pass may have led here.         *)
AnalyzeRange ==
  /\ kpc = "analyze"
  /\ kdb' = [kdb EXCEPT !.refs = @ \cup CodeOf(kfrom, mem[kfrom], EntriesOf(known[kfrom]))]
  /\ ktodo' = Only(kfrom, known[kfrom])
  /\ kphase' = "analyzed"
  /\ kpc' = "row"
  /\ UNCHANGED <<mem, itemK, snaps, ktask, kfrom, knew, kpass, kqueued, krestore, windowK, boundK>>

SetAnalyzed ==
  /\ kpc = "done"
  /\ UpdateFlags(kfrom, {"analyzeDone"}, {})
  /\ kpc' = "collect"
  /\ UNCHANGED <<mem, known, kopen, snaps, ktask, kfrom, kphase, ktodo, knew, kpass, kqueued,
                 krestore, windowK, boundK>>

------------------------------------------------------------------------------
(* RefreshStaleFloatingModule: the memory as it is now.                      *)
RefreshFloatingRegion ==
  /\ kpc = "refresh"
  /\ IF mem[kfrom] = 0
     THEN ktodo' = Only(kfrom, known[kfrom]) /\ kphase' = "removed" /\ kpc' = "unload"
     ELSE /\ ktodo' = Only(kfrom, [known[kfrom] EXCEPT !.hash = mem[kfrom], !.snap = NoSnapshot])
          /\ kphase' = "refreshed" /\ kpc' = "snap"
  /\ UNCHANGED <<mem, itemK, kdb, snaps, ktask, kfrom, knew, kpass, kqueued, krestore,
                 windowK, boundK>>

\* Mutant: the references stay when the row goes.
WithoutRowOnly(db, r) ==
  [db EXCEPT !.rows = @ \ {r}, !.record[r] = NoRegion, !.done = @ \ {r}]

(* UnloadFloatingRow: the references, then the row with its metainfo.        *)
WithoutRow(db, r) ==
  [db EXCEPT !.rows = @ \ {r}, !.record[r] = NoRegion, !.done = @ \ {r},
             !.refs = {x \in @ : x.from # r}]

UnloadRow ==
  /\ kpc = "unload"
  /\ kdb' = WithoutRow(kdb, kfrom)
  /\ kpc' = IF kphase = "removed" THEN "remove" ELSE "row"
  /\ UNCHANGED <<mem, itemK, snaps, ktask, kfrom, kphase, ktodo, knew, kpass, kqueued, krestore,
                 windowK, boundK>>

RemoveFloatingModule ==
  /\ kpc = "remove"
  /\ known' = [known EXCEPT ![kfrom] = NoRegion]
  /\ kflags' = [kflags EXCEPT ![kfrom] = {}]
  /\ kpc' = "end"
  /\ UNCHANGED <<mem, kopen, kdb, snaps, ktask, kfrom, kphase, ktodo, knew, kpass, kqueued,
                 krestore, windowK, boundK>>

ClearStale ==
  /\ kpc = "fresh"
  /\ UpdateFlags(kfrom, {}, {"stale", "analyzeDone"})
  /\ kpc' = "analyze"
  /\ UNCHANGED <<mem, known, kopen, snaps, ktask, kfrom, kphase, ktodo, knew, kpass, kqueued,
                 krestore, windowK, boundK>>

------------------------------------------------------------------------------
(* Errors and ends.                                                          *)

(* Window: a region that is flagged "analyzed" has new entries in its record *)
(* (the flag is cleared after the record is saved), or its references are    *)
(* cleared.                                                                  *)
HalfAnalyzed ==
  kdb.done \cap
    (IF kpc = "analyze" THEN {kfrom}
     ELSE IF kphase = "found" /\ kpc \in {"snap", "row", "record", "set", "flags"}
     THEN {r \in knew : r \notin DOMAIN ktodo \/ (kpc = "set" /\ r = Region)}
     ELSE {})

(* Window: a module is flagged "analyzed" and its references are not all     *)
(* followed; a refreshed region has no record.                               *)
NotFollowed ==
  (IF kfrom \in kdb.done /\ kpc \in {"collect", "snap", "row", "record", "set", "done", "flags"}
   THEN {p[1] : p \in Targeted(kfrom)} ELSE {})
  \cup (IF kphase = "refreshed" /\ kpc \in {"row", "record"} THEN {kfrom} ELSE {})

(* An error of the database, or memory that can't be read: a pass goes on    *)
(* with the next module and calls this one analyzed, not to try it on every  *)
(* pass; another task is over.                                               *)
FailTask ==
  /\ kpc \in {"clear", "analyze", "row", "record", "unload"}
  /\ troubles < MaxTroubles \/ (kpc = "analyze" /\ mem[kfrom] = 0)
  /\ troubles' = IF troubles < MaxTroubles THEN troubles + 1 ELSE troubles
  /\ kwhole' = FALSE
  /\ kmissed' = kmissed \cup NotFollowed
                  \cup (IF kfrom \in Regions THEN {p[1] : p \in Targeted(kfrom)} ELSE {})
  /\ IF ktask = "pass"
     THEN /\ UpdateFlags(kfrom, {"analyzeDone"}, {})
          /\ kcut' = kcut \cup HalfAnalyzed \cup {kfrom}
          /\ kpc' = "next" /\ ktodo' = << >> /\ knew' = {}
          /\ UNCHANGED <<ktask, kfrom, kphase, kpass>>
     ELSE /\ Idles
          /\ kcut' = kcut \cup HalfAnalyzed
          /\ UNCHANGED <<kflags, kdb>>
  /\ UNCHANGED <<mem, known, kopen, snaps, kqueued, krestore, ktasks>>

(* F5: SyncDatabaseModules reads the saved flags ...                         *)
ReadSavedFlags ==
  /\ kopen /\ krestore = {} /\ troubles < MaxTroubles
  /\ troubles' = troubles + 1
  /\ krestore' = {r \in kdb.done : known[r] # NoRegion}
  /\ UNCHANGED <<mem, itemK, kdb, snaps, workK, windowK, ktasks>>

(* ... and adds them.  Window: the analyzer cleared one in between.          *)
RestoreSavedFlags ==
  /\ krestore # {}
  /\ kflags' = [r \in Regions |-> IF r \in krestore THEN kflags[r] \cup {"analyzeDone"} ELSE kflags[r]]
  /\ kcut' = kcut \cup (krestore \ kdb.done)
  /\ krestore' = {}
  /\ UNCHANGED <<mem, known, kopen, kdb, snaps, workK, kmissed, kwhole, boundK>>

(* Orthia ends.                                                              *)
Leave(cut) ==
  /\ kopen /\ troubles < MaxTroubles
  /\ troubles' = troubles + 1 /\ kopen' = FALSE
  /\ known' = [r \in Regions |-> NoRegion] /\ kflags' = [r \in Regions |-> {}]
  /\ Idles /\ kqueued' = FALSE /\ krestore' = {}
  /\ kcut' = kcut \cup HalfAnalyzed \cup cut
  /\ kmissed' = kmissed \cup NotFollowed /\ kwhole' = FALSE
  /\ UNCHANGED <<mem, snaps, ktasks>>

EndFloating == Leave({}) /\ UNCHANGED kdb

(* Between the two statements of UnloadModule.                               *)
EndInUnloadRow == /\ kpc = "unload"
                  /\ Leave({kfrom})
                  /\ kdb' = [kdb EXCEPT !.refs = {x \in @ : x.from # kfrom}]

(* IsFloatingRegionUnchanged.                                                *)
IsUnchanged(r) == mem[r] = kdb.record[r].hash

(* LoadSavedFloatingModules and the flags of SyncDatabaseModules.            *)
LoadSavedFloatingModules ==
  /\ ~kopen
  /\ kopen' = TRUE
  /\ known' = kdb.record
  /\ kflags' = [r \in Regions |->
       IF kdb.record[r] = NoRegion THEN {}
       ELSE (IF r \in kdb.done THEN {"analyzeDone"} ELSE {})
            \cup (IF IsUnchanged(r) THEN {} ELSE {"stale"})]
  /\ UNCHANGED <<mem, kdb, snaps, workK, krestore, windowK, boundK>>

FloatingStep ==
  \/ StartPass \/ PassNext \/ EndTask \/ Cancelled \/ CollectFloatingRegions
  \/ \E ok \in BOOLEAN : SaveFloatingSnapshot(ok)
  \/ RegisterRange \/ InsertRecord \/ SetFloatingModule \/ ClearDone
  \/ ClearFloatingReferences \/ AnalyzeRange \/ SetAnalyzed
  \/ RefreshFloatingRegion \/ UnloadRow \/ RemoveFloatingModule \/ ClearStale \/ FailTask

FloatingNext ==
  \/ FloatingStep
  \/ \E r \in Regions, v \in 0..MaxBytes : Change(r, v)
  \/ StartSource
  \/ \E task \in {"one", "force"}, r \in Regions : StartOne(task, r)
  \/ ReadSavedFlags \/ RestoreSavedFlags
  \/ EndFloating \/ EndInUnloadRow \/ LoadSavedFloatingModules

(* The analyzer thread goes on with the tasks it has.                        *)
FloatingSpec == FloatingInit /\ [][FloatingNext]_flVars /\ WF_flVars(FloatingStep)

------------------------------------------------------------------------------
(* A record on the disk has its snapshot: the file is complete before the    *)
(* record that names it, stays, and has the bytes the region was recognised  *)
(* by, unless the memory changed between the two reads.                      *)
SnapshotThere ==
  \A r \in Regions :
    LET info == kdb.record[r]
    IN info # NoRegion /\ info.snap # NoSnapshot =>
         <<r, info.snap>> \in snaps /\ (info.snap = info.hash \/ r \in kcut)

(* "Analyzed" on the disk is true of every entry in the record: a reopen of  *)
(* unchanged memory can rely on it.  Except after the windows above, or in   *)
(* the middle of one.                                                        *)
RecordTells ==
  \A r \in kdb.done \ (kcut \cup HalfAnalyzed) :
    kdb.record[r] # NoRegion
    => CodeOf(r, kdb.record[r].hash, EntriesOf(kdb.record[r])) = {x \in kdb.refs : x.from = r}

(* A saved floating module can be shown and relied on after a reopen.        *)
RecordsTell == SnapshotThere /\ RecordTells

(* The passes come to the fixed point: when the analyzer rests after an      *)
(* .analyze of the source, every reference into memory that is there leads   *)
(* to a recorded entry, and every entry of a module that is not stale was    *)
(* analyzed, however many regions lead into each other.                      *)
FloatingClosed ==
  kopen /\ kpc = "idle" /\ ~kqueued /\ kwhole =>
    /\ \A s \in {Source} \cup {r \in Regions : known[r] # NoRegion /\ "stale" \notin kflags[r]},
          p \in Places :
         p \in Targeted(s) /\ mem[p[1]] # 0 /\ p[1] \notin kmissed
         => known[p[1]] # NoRegion /\ p[2] \in EntriesOf(known[p[1]])
    /\ PendingFloating = {}
    /\ \A r \in Regions \ kcut : known[r] # NoRegion /\ "stale" \notin kflags[r]
         => CodeOf(r, known[r].hash, EntriesOf(known[r])) = {x \in kdb.refs : x.from = r}

(* The analysis of a stale module is of code that is gone: its references    *)
(* stay as they were until the user asks for the memory as it is now (/f).   *)
StaleKept ==
  [][\A r \in Regions : "stale" \in kflags[r] /\ ~(ktask = "force" /\ kfrom = r)
       => {x \in kdb.refs : x.from = r} = {x \in kdb'.refs : x.from = r}]_flVars

(* A pass runs or waits to run.                                              *)
FloatingWorks == kpc # "idle" \/ kqueued
================================================================================
