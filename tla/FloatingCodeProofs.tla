-------------------------- MODULE FloatingCodeProofs --------------------------
(* Proofs about FloatingCode for any regions and entries, whatever the code   *)
(* in them leads to, any number of commands, changes of the memory, errors    *)
(* and ends of Orthia.                                                        *)
EXTENDS FloatingCode, NaturalsInduction, WellFoundedInduction, TLAPS

RefRows == [from : Regions, entry : Entries, to : Places]
Tables == [rows : SUBSET Regions, record : [Regions -> RegionInfos \cup {NoRegion}],
           done : SUBSET Regions, refs : SUBSET RefRows]

SavePcs == {"snap", "row", "record", "set"}
OnePcs == {"analyze", "clear", "done", "refresh", "unload", "remove", "fresh"}

FloatingTypeOK ==
  /\ mem \in [Regions -> 0..MaxBytes]
  /\ known \in [Regions -> RegionInfos \cup {NoRegion}]
  /\ kflags \in [Regions -> SUBSET {"analyzeDone", "stale"}]
  /\ kdb \in Tables
  /\ snaps \subseteq Regions \X (0..MaxBytes)
  /\ kopen \in BOOLEAN /\ kqueued \in BOOLEAN /\ kwhole \in BOOLEAN
  /\ kpc \in SavePcs \cup OnePcs \cup {"idle", "collect", "flags", "next", "end"}
  /\ ktask \in {"source", "one", "force", "pass"}
  /\ kfrom \in Regions \cup {Source}
  /\ kphase \in {"found", "analyzed", "refreshed", "removed"}
  /\ DOMAIN ktodo \subseteq Regions /\ \A r \in DOMAIN ktodo : ktodo[r] \in RegionInfos
  /\ knew \subseteq Regions /\ kpass \subseteq Regions /\ krestore \subseteq Regions
  /\ kcut \subseteq Regions /\ kmissed \subseteq Regions

(* Where the analyzer's thread is and what it works on.                      *)
WorkTells ==
  /\ kpc # "idle" \/ kqueued => kopen
  /\ kpc = "idle" => kfrom = Source
  /\ ktask # "pass" \/ kpc = "idle" => kpass = {}
  /\ kfrom \in Regions \/ ktask = "source" \/ (ktask = "pass" /\ kpc \in {"next", "end"})
  /\ kpc \in SavePcs => DOMAIN ktodo # {}
  /\ kpc \in SavePcs \cup {"unload"} /\ kphase # "found" => DOMAIN ktodo = {kfrom}
  /\ kpc \in OnePcs \/ (kpc \in SavePcs /\ kphase # "found") =>
       kfrom \in Regions /\ known[kfrom] # NoRegion
  /\ kpc = "snap" => kphase \in {"found", "refreshed"}
  /\ kpc \in SavePcs => kphase # "removed"
  /\ kpc = "unload" => kphase \in {"refreshed", "removed"}
  /\ kpc = "remove" => kphase = "removed"
  /\ kpc = "fresh" => kphase = "refreshed"
  /\ kpc = "done" => kphase = "analyzed"
  /\ kpc = "flags" => kphase = "found" /\ DOMAIN ktodo = {}
  /\ kpc \in {"clear", "refresh", "unload", "remove", "fresh"} => ktask = "force"
  /\ kpc \in SavePcs /\ kphase = "refreshed" => ktask = "force"

(* The analyzer's thread leaves the modules of its task, and those its pass  *)
(* has still to analyze, in place; they are not stale.                       *)
PassTells ==
  /\ \A r \in kpass : known[r] # NoRegion /\ "stale" \notin kflags[r]
  /\ kpc \in {"clear", "analyze"} => "stale" \notin kflags[kfrom]

------------------------------------------------------------------------------
(* Snapshots and fingerprints.                                               *)

Named(r, info) ==
  info # NoRegion /\ info.snap # NoSnapshot => <<r, info.snap>> \in snaps

(* What the record says of the bytes is true of the memory now.              *)
Fits(r, info) ==
  info # NoRegion /\ r \notin kcut => info.hash = mem[r] /\ info.snap \in {NoSnapshot, mem[r]}

(* A refreshed region has its record, and not yet its place in memory.       *)
Renewed(r, pcs) == kphase = "refreshed" /\ kpc \in pcs /\ r = kfrom

BytesTell ==
  /\ \A r \in Regions : Named(r, kdb.record[r]) /\ Fits(r, kdb.record[r])
  /\ \A r \in Regions : Named(r, known[r]) /\ (Fits(r, known[r]) \/ Renewed(r, {"set"}))
  /\ \A r \in DOMAIN ktodo : Named(r, ktodo[r]) /\ Fits(r, ktodo[r])

(* A stale region met a change of the memory.                                *)
StaleIsCut ==
  /\ \A r \in Regions : "stale" \in kflags[r] => r \in kcut \/ Renewed(r, {"set", "fresh"})
  /\ kpc = "refresh" \/ (kphase \in {"refreshed", "removed"}
                         /\ kpc \in {"snap", "unload", "row", "record", "remove"})
     => kfrom \in kcut

------------------------------------------------------------------------------
(* What is in memory, on the disk and between the two.                       *)

RowsFirst ==
  /\ \A r \in Regions : kdb.record[r] # NoRegion => r \in kdb.rows
  /\ kpc = "record" => Region \in kdb.rows

RecordIsKnown ==
  /\ kopen => \A r \in Regions :
       kdb.record[r] = known[r] \/ r \in kcut \/ (kpc = "set" /\ r = Region)
  /\ kpc = "set" => kdb.record[Region] = ktodo[Region]

(* The records to save follow from the ones in memory.                       *)
TodoTells ==
  /\ kpc \in SavePcs /\ kphase = "found" => \A r \in DOMAIN ktodo :
       /\ known[r] = NoRegion => r \in knew
       /\ known[r] # NoRegion => /\ ktodo[r].hash = known[r].hash
                                 /\ EntriesOf(known[r]) \subseteq EntriesOf(ktodo[r])
                                 /\ r \notin knew => EntriesOf(ktodo[r]) = EntriesOf(known[r])
  /\ kpc \in SavePcs /\ kphase = "analyzed" => ktodo[kfrom] = known[kfrom]
  /\ kpc \in SavePcs \cup {"unload"} /\ kphase = "refreshed" =>
       EntriesOf(ktodo[kfrom]) = EntriesOf(known[kfrom])

------------------------------------------------------------------------------
(* The references of a region.                                               *)

RefsOf(r) == {x \in kdb.refs : x.from = r}
CodeIn(r, info) == CodeOf(r, info.hash, EntriesOf(info))

RefsAreOwn ==
  \A r \in Regions \ kcut : IF kdb.record[r] = NoRegion THEN RefsOf(r) = {}
                            ELSE RefsOf(r) \subseteq CodeIn(r, kdb.record[r])

(* The row went with its references.                                         *)
Unloaded ==
  /\ kphase = "refreshed" /\ kpc \in {"row", "record", "set", "fresh"} =>
       kfrom \notin kdb.done /\ RefsOf(kfrom) = {}
  /\ kpc = "remove" => kdb.record[kfrom] = NoRegion /\ RefsOf(kfrom) = {}

AnalyzedAll ==
  kphase = "analyzed" /\ kpc \in {"row", "record", "set", "done"} /\ kfrom \notin kcut =>
    kdb.record[kfrom] # NoRegion /\ CodeIn(kfrom, kdb.record[kfrom]) \subseteq kdb.refs

DoneHasAll ==
  \A r \in kdb.done \ (kcut \cup HalfAnalyzed) :
    kdb.record[r] # NoRegion => CodeIn(r, kdb.record[r]) \subseteq kdb.refs

------------------------------------------------------------------------------
(* What the flags in memory say.                                             *)

FlagsAreSaved ==
  \A r \in Regions : "analyzeDone" \in kflags[r] =>
    r \in kdb.done \/ r \in kcut \/ Renewed(r, {"set", "fresh"})

NothingPends ==
  kwhole /\ kpc = "idle" /\ ~kqueued => PendingFloating = {}

------------------------------------------------------------------------------
(* Where references lead.                                                    *)

(* No memory was there when a reference into it was looked at, or one of the *)
(* windows was met.                                                          *)
Gone(r) == mem[r] = 0 \/ r \in kmissed

Has(info, e) == info # NoRegion /\ e \in EntriesOf(info)

(* The reference leads to an entry in memory, in the records or in those     *)
(* still to save.                                                            *)
Covered(p) == Gone(p[1]) \/ Has(known[p[1]], p[2])
CoveredOnDisk(p) == Gone(p[1]) \/ Has(kdb.record[p[1]], p[2])
CoveredSoon(p) == Covered(p) \/ (p[1] \in DOMAIN ktodo /\ p[2] \in EntriesOf(ktodo[p[1]]))

(* The references of a module are to be followed.                            *)
Following(s) ==
  /\ s = kfrom
  /\ \/ kpc \in {"done", "collect", "flags"}
     \/ kpc \in SavePcs /\ kphase \in {"found", "analyzed"}

Flagged(s) == s \in kdb.done \/ s \in krestore \/ "analyzeDone" \in kflags[s]

RegionsFollowed ==
  /\ kopen => \A s \in Regions : Flagged(s) /\ ~Following(s) =>
                \A p \in Targeted(s) : Covered(p)
  /\ ~kopen => \A s \in kdb.done : \A p \in Targeted(s) : CoveredOnDisk(p)
  /\ ~kopen => krestore = {}

SourceFollowed ==
  /\ kwhole => kopen
  /\ kwhole /\ ~Following(Source) => \A p \in Targeted(Source) : Covered(p)

FollowedSoon ==
  kphase = "found" /\ kpc \in SavePcs \cup {"flags"} =>
    \A p \in Targeted(kfrom) : CoveredSoon(p)

(* An end of Orthia loses no entry that a reference leads to.                *)
EntriesOnDisk ==
  /\ kopen => \A r \in Regions : known[r] # NoRegion =>
       \/ Gone(r)
       \/ Renewed(r, {"row", "record"})
       \/ kdb.record[r] # NoRegion /\ EntriesOf(known[r]) \subseteq EntriesOf(kdb.record[r])
  /\ kphase = "removed" /\ kpc \in {"unload", "remove"} => Gone(kfrom)

FloatingInv ==
  /\ FloatingTypeOK /\ WorkTells /\ PassTells
  /\ BytesTell /\ StaleIsCut
  /\ RowsFirst /\ RecordIsKnown /\ TodoTells
  /\ RefsAreOwn /\ Unloaded /\ AnalyzedAll /\ DoneHasAll
  /\ FlagsAreSaved /\ NothingPends
  /\ RegionsFollowed /\ SourceFollowed /\ FollowedSoon /\ EntriesOnDisk

------------------------------------------------------------------------------
(* Numbers, records and tables.                                              *)

\* The least-number principle.
LEMMA LeastNat ==
  ASSUME NEW T \in SUBSET Nat, T # {}
  PROVE  \E n \in T : \A m \in T : n <= m
<1>1. IsWellFoundedOn(OpToRel(<, Nat), Nat)
  BY NatLessThanWellFounded
<1>2. PICK n \in T : \A m \in T : ~(<<m, n>> \in OpToRel(<, Nat))
  BY <1>1, WFMin
<1>3. ASSUME NEW m \in T PROVE n <= m
  <2>1. ~(m < n)
    BY <1>2 DEF OpToRel
  <2> QED BY <2>1
<1> QED BY <1>3

\* The next region in the order of the addresses is one of the regions.
LEMMA SmallestIn ==
  ASSUME NEW T \in SUBSET Regions, T # {}
  PROVE  Smallest(T) \in T
<1>1. T \in SUBSET Nat
  BY FloatingAssumption
<1>2. \E n \in T : \A m \in T : n <= m
  BY <1>1, LeastNat
<1> QED BY <1>2 DEF Smallest

\* The record that is being saved is one of those to save.
LEMMA RegionIn ==
  ASSUME FloatingTypeOK, WorkTells, kpc \in SavePcs
  PROVE  Region \in DOMAIN ktodo /\ Region \in Regions /\ ktodo[Region] \in RegionInfos
BY SmallestIn DEF FloatingTypeOK, WorkTells, Region

\* A description with another snapshot, and one with other bytes as well, is a
\* description with the same referrers.
LEMMA SnapChanged ==
  ASSUME NEW info \in RegionInfos, NEW s \in (0..MaxBytes) \cup {NoSnapshot}
  PROVE  LET one == [info EXCEPT !.snap = s]
         IN /\ one \in RegionInfos /\ one.hash = info.hash /\ one.snap = s
            /\ one.referrers = info.referrers
BY DEF RegionInfos

LEMMA BytesChanged ==
  ASSUME NEW info \in RegionInfos, NEW h \in 0..MaxBytes
  PROVE  LET two == [info EXCEPT !.hash = h, !.snap = NoSnapshot]
         IN /\ two \in RegionInfos /\ two.hash = h /\ two.snap = NoSnapshot
            /\ two.referrers = info.referrers
BY DEF RegionInfos

\* The four tables when one of them changes.
LEMMA TableChanged ==
  ASSUME NEW t \in Tables, NEW S
  PROVE  /\ [t EXCEPT !.rows = S] =
              [rows |-> S, record |-> t.record, done |-> t.done, refs |-> t.refs]
         /\ [t EXCEPT !.record = S] =
              [rows |-> t.rows, record |-> S, done |-> t.done, refs |-> t.refs]
         /\ [t EXCEPT !.done = S] =
              [rows |-> t.rows, record |-> t.record, done |-> S, refs |-> t.refs]
         /\ [t EXCEPT !.refs = S] =
              [rows |-> t.rows, record |-> t.record, done |-> t.done, refs |-> S]
BY DEF Tables

\* What is in the code of a region at some of its entries.
LEMMA CodeTells ==
  ASSUME NEW r \in Regions, NEW b \in 0..MaxBytes, NEW E \in SUBSET Entries
  PROVE  /\ CodeOf(r, b, E) \subseteq {x \in RefRows : x.from = r}
         /\ \A F \in SUBSET Entries : E \subseteq F => CodeOf(r, b, E) \subseteq CodeOf(r, b, F)
<1>1. \A e \in Entries : Leads[r][b][e] \subseteq Places
  BY FloatingAssumption
<1>2. ASSUME NEW e \in E, NEW x \in [from : {r}, entry : {e}, to : Leads[r][b][e]]
      PROVE  x \in RefRows /\ x.from = r
  BY <1>1 DEF RefRows
<1> QED BY <1>2 DEF CodeOf

\* The entries of a description are entries.
LEMMA EntriesIn ==
  ASSUME NEW info \in RegionInfos
  PROVE  EntriesOf(info) \in SUBSET Entries
BY DEF RegionInfos, EntriesOf

\* Where references lead is a place.
LEMMA TargetsIn ==
  ASSUME FloatingTypeOK, NEW s
  PROVE  Targeted(s) \in SUBSET Places
BY FloatingAssumption DEF FloatingTypeOK, Targeted, Tables, RefRows

\* The description of a region that a reference was found to.
LEMMA ReferredTells ==
  ASSUME FloatingTypeOK, NEW r \in Reached
  PROVE  /\ r \in Regions /\ Referred(r) \in RegionInfos
         /\ known[r] = NoRegion => Referred(r).hash = mem[r] /\ Referred(r).snap = NoSnapshot
         /\ known[r] # NoRegion => /\ Referred(r).hash = known[r].hash
                                   /\ Referred(r).snap = known[r].snap
                                   /\ EntriesOf(known[r]) \subseteq EntriesOf(Referred(r))
         /\ \A e \in Entries : <<r, e>> \in Targeted(kfrom) => e \in EntriesOf(Referred(r))
<1> DEFINE new == {<<kfrom, x[2]>> : x \in {y \in Targeted(kfrom) : y[1] = r}}
           old == IF known[r] # NoRegion THEN known[r]
                  ELSE [referrers |-> {}, hash |-> mem[r], snap |-> NoSnapshot]
<1>1. r \in Regions /\ new \in SUBSET ((Regions \cup {Source}) \X Entries)
  BY TargetsIn DEF Reached, FloatingTypeOK, Places
<1>2. old \in RegionInfos
  <2>1. CASE known[r] # NoRegion
    BY <1>1, <2>1 DEF FloatingTypeOK
  <2>2. CASE known[r] = NoRegion
    BY <1>1, <2>2 DEF FloatingTypeOK, RegionInfos
  <2> QED BY <2>1, <2>2
<1>3. Referred(r) = [old EXCEPT !.referrers = old.referrers \cup new]
  BY DEF Referred
<1>4. \A e \in Entries : <<r, e>> \in Targeted(kfrom) => <<kfrom, e>> \in new
  OBVIOUS
<1> HIDE DEF new
<1>5. /\ Referred(r) \in RegionInfos /\ Referred(r).hash = old.hash /\ Referred(r).snap = old.snap
      /\ Referred(r).referrers = old.referrers \cup new
  <2> HIDE DEF old
  <2> QED BY <1>1, <1>2, <1>3 DEF RegionInfos
<1>6. EntriesOf(old) \subseteq EntriesOf(Referred(r))
  <2> HIDE DEF old
  <2> QED BY <1>5 DEF EntriesOf
<1>7. \A e \in Entries : <<r, e>> \in Targeted(kfrom) => e \in EntriesOf(Referred(r))
  <2> HIDE DEF old
  <2> SUFFICES ASSUME NEW e \in Entries, <<r, e>> \in Targeted(kfrom)
               PROVE  e \in EntriesOf(Referred(r))
    OBVIOUS
  <2>1. <<kfrom, e>> \in Referred(r).referrers /\ <<kfrom, e>>[2] = e
    BY <1>4, <1>5
  <2> QED BY <2>1 DEF EntriesOf
<1> QED BY <1>1, <1>5, <1>6, <1>7

\* The references of the code that a description stands for are the region's.
LEMMA CodeInIsOwn ==
  ASSUME NEW r \in Regions, NEW info \in RegionInfos
  PROVE  \A x \in CodeOf(r, info.hash, EntriesOf(info)) : x.from = r
<1>1. info.hash \in 0..MaxBytes
  BY DEF RegionInfos
<1> QED BY <1>1, CodeTells, EntriesIn

------------------------------------------------------------------------------
(* What the steps that write to the database leave in it.                    *)

\* UpdateModuleFlags writes the flags in memory and, of a region with a row, the
\* one flag of it on the disk.
LEMMA FlagsUpdated ==
  ASSUME FloatingTypeOK, NEW r \in Regions, NEW set \in SUBSET {"analyzeDone", "stale"}, NEW remove,
         UpdateFlags(r, set, remove)
  PROVE  /\ kflags' = [kflags EXCEPT ![r] = (kflags[r] \cup set) \ remove]
         /\ kflags' \in [Regions -> SUBSET {"analyzeDone", "stale"}]
         /\ kdb' \in Tables
         /\ kdb'.rows = kdb.rows /\ kdb'.record = kdb.record /\ kdb'.refs = kdb.refs
         /\ kdb'.done = IF r \in kdb.rows /\ "analyzeDone" \in kflags'[r]
                        THEN kdb.done \cup {r} ELSE kdb.done \ {r}
<1> DEFINE S == IF r \in kdb.rows /\ "analyzeDone" \in kflags'[r]
                THEN kdb.done \cup {r} ELSE kdb.done \ {r}
<1>1. kdb' = [kdb EXCEPT !.done = S]
  BY DEF UpdateFlags
<1>2. S \in SUBSET Regions
  BY DEF FloatingTypeOK, Tables
<1>3. /\ kflags' = [kflags EXCEPT ![r] = (kflags[r] \cup set) \ remove]
      /\ kflags' \in [Regions -> SUBSET {"analyzeDone", "stale"}]
  BY DEF UpdateFlags, FloatingTypeOK
<1> HIDE DEF S
<1>4. kdb' = [rows |-> kdb.rows, record |-> kdb.record, done |-> S, refs |-> kdb.refs]
  BY <1>1, TableChanged DEF FloatingTypeOK
<1> QED BY <1>2, <1>3, <1>4 DEF FloatingTypeOK, Tables, S

\* RegisterRange adds a row.
LEMMA RowRegistered ==
  ASSUME FloatingTypeOK, WorkTells, RegisterRange
  PROVE  /\ Region \in Regions
         /\ kdb' \in Tables
         /\ kdb'.rows = kdb.rows \cup {Region} /\ kdb'.record = kdb.record
         /\ kdb'.done = kdb.done /\ kdb'.refs = kdb.refs
<1>1. kpc \in SavePcs
  BY DEF RegisterRange, SavePcs
<1>2. Region \in Regions
  BY <1>1, RegionIn
<1> DEFINE S == kdb.rows \cup {Region}
<1>3. kdb' = [kdb EXCEPT !.rows = S] /\ S \in SUBSET Regions
  BY <1>2 DEF RegisterRange, FloatingTypeOK, Tables
<1> HIDE DEF S
<1>4. kdb' = [rows |-> S, record |-> kdb.record, done |-> kdb.done, refs |-> kdb.refs]
  BY <1>2, <1>3, TableChanged DEF FloatingTypeOK
<1> QED BY <1>2, <1>3, <1>4 DEF FloatingTypeOK, Tables, S

\* InsertRecord replaces a record.
LEMMA RecordInserted ==
  ASSUME FloatingTypeOK, WorkTells, InsertRecord
  PROVE  /\ Region \in DOMAIN ktodo /\ Region \in Regions /\ ktodo[Region] \in RegionInfos
         /\ Region' = Region
         /\ kdb' \in Tables
         /\ kdb'.record = [kdb.record EXCEPT ![Region] = ktodo[Region]]
         /\ kdb'.rows = kdb.rows /\ kdb'.done = kdb.done /\ kdb'.refs = kdb.refs
         /\ \A q \in Regions : kdb'.record[q] = IF q = Region THEN ktodo[Region] ELSE kdb.record[q]
<1>1. kpc \in SavePcs
  BY DEF InsertRecord, SavePcs
<1>2. Region \in DOMAIN ktodo /\ Region \in Regions /\ ktodo[Region] \in RegionInfos
  BY <1>1, RegionIn
<1>3. Region' = Region
  BY DEF InsertRecord, Region
<1> DEFINE R == [kdb.record EXCEPT ![Region] = ktodo[Region]]
<1>4. kdb' = [kdb EXCEPT !.record[Region] = ktodo[Region]]
  BY DEF InsertRecord
<1>5. kdb' = [rows |-> kdb.rows, record |-> R, done |-> kdb.done, refs |-> kdb.refs]
  <2>1. kdb' = [kdb EXCEPT !.record = R]
    BY <1>4, Zenon
  <2> HIDE DEF R
  <2> QED BY <2>1, TableChanged DEF FloatingTypeOK
<1>6. R \in [Regions -> RegionInfos \cup {NoRegion}]
  BY <1>2 DEF FloatingTypeOK, Tables
<1> HIDE DEF R
<1>7. kdb' \in Tables /\ kdb'.record = R /\ kdb'.rows = kdb.rows /\ kdb'.done = kdb.done
      /\ kdb'.refs = kdb.refs
  BY <1>5, <1>6 DEF FloatingTypeOK, Tables
<1>8. \A q \in Regions : R[q] = IF q = Region THEN ktodo[Region] ELSE kdb.record[q]
  BY <1>2 DEF FloatingTypeOK, Tables, R
<1> QED BY <1>2, <1>3, <1>7, <1>8 DEF R

\* The references of the module under analysis go, of no other.
LEMMA RefsCleared ==
  ASSUME FloatingTypeOK, kdb' = [kdb EXCEPT !.refs = {x \in @ : x.from # kfrom}]
  PROVE  /\ kdb' \in Tables
         /\ kdb'.refs = {x \in kdb.refs : x.from # kfrom}
         /\ kdb'.record = kdb.record /\ kdb'.rows = kdb.rows /\ kdb'.done = kdb.done
<1> DEFINE S == {x \in kdb.refs : x.from # kfrom}
<1>1. kdb' = [kdb EXCEPT !.refs = S] /\ S \in SUBSET RefRows
  BY DEF FloatingTypeOK, Tables
<1> HIDE DEF S
<1>2. kdb' = [rows |-> kdb.rows, record |-> kdb.record, done |-> kdb.done, refs |-> S]
  BY <1>1 DEF FloatingTypeOK, Tables
<1> QED BY <1>1, <1>2 DEF FloatingTypeOK, Tables, S

\* AnalyzeRange adds the references of the code in the module's memory.
LEMMA RangeAnalyzed ==
  ASSUME FloatingTypeOK, WorkTells, AnalyzeRange
  PROVE  LET code == CodeOf(kfrom, mem[kfrom], EntriesOf(known[kfrom])) IN
         /\ kfrom \in Regions /\ known[kfrom] \in RegionInfos
         /\ code \subseteq {x \in RefRows : x.from = kfrom}
         /\ kdb' \in Tables
         /\ kdb'.refs = kdb.refs \cup code
         /\ kdb'.record = kdb.record /\ kdb'.rows = kdb.rows /\ kdb'.done = kdb.done
<1> DEFINE code == CodeOf(kfrom, mem[kfrom], EntriesOf(known[kfrom]))
           S == kdb.refs \cup code
<1>1. kfrom \in Regions /\ known[kfrom] \in RegionInfos /\ mem[kfrom] \in 0..MaxBytes
  BY DEF AnalyzeRange, FloatingTypeOK, WorkTells, OnePcs
<1>2. code \subseteq {x \in RefRows : x.from = kfrom}
  BY <1>1, EntriesIn, CodeTells
<1>3. kdb' = [kdb EXCEPT !.refs = S]
  BY DEF AnalyzeRange
<1> HIDE DEF code
<1>4. S \in SUBSET RefRows
  BY <1>2 DEF FloatingTypeOK, Tables
<1> HIDE DEF S
<1>5. kdb' = [rows |-> kdb.rows, record |-> kdb.record, done |-> kdb.done, refs |-> S]
  BY <1>1, <1>3, TableChanged DEF FloatingTypeOK
<1>6. /\ kdb' \in Tables /\ kdb'.refs = S
      /\ kdb'.record = kdb.record /\ kdb'.rows = kdb.rows /\ kdb'.done = kdb.done
  BY <1>4, <1>5 DEF FloatingTypeOK, Tables
<1> QED BY <1>1, <1>2, <1>6 DEF code, S

\* UnloadRow leaves nothing of the module.
LEMMA RowUnloaded ==
  ASSUME FloatingTypeOK, WorkTells, UnloadRow
  PROVE  /\ kfrom \in Regions
         /\ kdb' \in Tables
         /\ kdb'.record = [kdb.record EXCEPT ![kfrom] = NoRegion]
         /\ kdb'.rows = kdb.rows \ {kfrom} /\ kdb'.done = kdb.done \ {kfrom}
         /\ kdb'.refs = {x \in kdb.refs : x.from # kfrom}
         /\ \A q \in Regions : kdb'.record[q] = IF q = kfrom THEN NoRegion ELSE kdb.record[q]
<1> DEFINE R == [kdb.record EXCEPT ![kfrom] = NoRegion]
           S == {x \in kdb.refs : x.from # kfrom}
           A == kdb.rows \ {kfrom}
           D == kdb.done \ {kfrom}
<1>1. kfrom \in Regions
  BY DEF UnloadRow, FloatingTypeOK, WorkTells, OnePcs
<1>2. kdb' = [kdb EXCEPT !.rows = A, !.record[kfrom] = NoRegion, !.done = D, !.refs = S]
  BY DEF UnloadRow, WithoutRow
<1>3. R \in [Regions -> RegionInfos \cup {NoRegion}] /\ A \in SUBSET Regions
      /\ D \in SUBSET Regions /\ S \in SUBSET RefRows
  BY DEF FloatingTypeOK, Tables
<1> HIDE DEF S, A, D
<1>4. [kdb EXCEPT !.rows = A, !.record[kfrom] = NoRegion, !.done = D, !.refs = S] =
      [kdb EXCEPT !.rows = A, !.record = R, !.done = D, !.refs = S]
  BY Zenon
<1> HIDE DEF R
<1>5. [kdb EXCEPT !.rows = A, !.record = R, !.done = D, !.refs = S] =
      [[[[kdb EXCEPT !.rows = A] EXCEPT !.record = R] EXCEPT !.done = D] EXCEPT !.refs = S]
  OBVIOUS
<1>6. [kdb EXCEPT !.rows = A] =
      [rows |-> A, record |-> kdb.record, done |-> kdb.done, refs |-> kdb.refs]
  BY DEF FloatingTypeOK, Tables
<1>7. [[[[rows |-> A, record |-> kdb.record, done |-> kdb.done, refs |-> kdb.refs]
          EXCEPT !.record = R] EXCEPT !.done = D] EXCEPT !.refs = S] =
      [rows |-> A, record |-> R, done |-> D, refs |-> S]
  <2>1. [[rows |-> A, record |-> kdb.record, done |-> kdb.done, refs |-> kdb.refs]
          EXCEPT !.record = R] =
        [rows |-> A, record |-> R, done |-> kdb.done, refs |-> kdb.refs]
    OBVIOUS
  <2>2. [[rows |-> A, record |-> R, done |-> kdb.done, refs |-> kdb.refs] EXCEPT !.done = D] =
        [rows |-> A, record |-> R, done |-> D, refs |-> kdb.refs]
    OBVIOUS
  <2>3. [[rows |-> A, record |-> R, done |-> D, refs |-> kdb.refs] EXCEPT !.refs = S] =
        [rows |-> A, record |-> R, done |-> D, refs |-> S]
    OBVIOUS
  <2> QED BY <2>1, <2>2, <2>3, Zenon
<1>8. kdb' = [rows |-> A, record |-> R, done |-> D, refs |-> S]
  BY <1>2, <1>4, <1>5, <1>6, <1>7, Zenon
<1>9. kdb' \in Tables /\ kdb'.record = R /\ kdb'.rows = A /\ kdb'.done = D /\ kdb'.refs = S
  BY <1>3, <1>8 DEF Tables
<1>10. \A q \in Regions : R[q] = IF q = kfrom THEN NoRegion ELSE kdb.record[q]
  BY <1>1 DEF FloatingTypeOK, Tables, R
<1> QED BY <1>1, <1>9, <1>10 DEF R, S, A, D

\* The windows are about regions.
LEMMA WindowsIn ==
  ASSUME FloatingTypeOK, WorkTells
  PROVE  HalfAnalyzed \subseteq Regions /\ NotFollowed \subseteq Regions
         /\ {p[1] : p \in Targeted(kfrom)} \subseteq Regions
<1>1. HalfAnalyzed \subseteq Regions
  BY DEF FloatingTypeOK, HalfAnalyzed, Tables
<1>2. {p[1] : p \in Targeted(kfrom)} \subseteq Regions
  BY TargetsIn DEF Places
<1>3. NotFollowed \subseteq Regions
  BY <1>2 DEF FloatingTypeOK, WorkTells, SavePcs, NotFollowed
<1> QED BY <1>1, <1>2, <1>3

\* The flag of the first region with new entries is cleared.
LEMMA DoneCleared ==
  ASSUME FloatingTypeOK, ClearDone, knew # {}
  PROVE  LET r == Smallest(knew) IN
         /\ r \in knew /\ r \in Regions
         /\ kflags' = [kflags EXCEPT ![r] = kflags[r] \ {"analyzeDone"}]
         /\ kflags' \in [Regions -> SUBSET {"analyzeDone", "stale"}]
         /\ kdb' \in Tables
         /\ kdb'.rows = kdb.rows /\ kdb'.record = kdb.record /\ kdb'.refs = kdb.refs
         /\ kdb'.done = kdb.done \ {r}
         /\ \A q \in Regions : kflags'[q] = IF q = r THEN kflags[q] \ {"analyzeDone"} ELSE kflags[q]
<1> DEFINE r == Smallest(knew)
<1>1. r \in knew /\ r \in Regions
  BY SmallestIn DEF FloatingTypeOK
<1>2. UpdateFlags(r, {}, {"analyzeDone"})
  BY DEF ClearDone
<1> HIDE DEF r
<1>3. /\ kflags' = [kflags EXCEPT ![r] = (kflags[r] \cup {}) \ {"analyzeDone"}]
      /\ kflags' \in [Regions -> SUBSET {"analyzeDone", "stale"}]
      /\ kdb' \in Tables
      /\ kdb'.rows = kdb.rows /\ kdb'.record = kdb.record /\ kdb'.refs = kdb.refs
      /\ kdb'.done = IF r \in kdb.rows /\ "analyzeDone" \in kflags'[r]
                     THEN kdb.done \cup {r} ELSE kdb.done \ {r}
  BY <1>1, <1>2, FlagsUpdated
<1>4. "analyzeDone" \notin kflags'[r]
  BY <1>1, <1>3 DEF FloatingTypeOK
<1>5. (kflags[r] \cup {}) \ {"analyzeDone"} = kflags[r] \ {"analyzeDone"}
  OBVIOUS
<1>6. \A q \in Regions : kflags'[q] = IF q = r THEN kflags[q] \ {"analyzeDone"} ELSE kflags[q]
  BY <1>1, <1>3, <1>5 DEF FloatingTypeOK
<1> QED BY <1>1, <1>3, <1>4, <1>5, <1>6 DEF r

\* The module under analysis is called analyzed: at the end of its analysis, or
\* by a pass that could not analyze it.
LEMMA AnalyzedSet ==
  ASSUME FloatingTypeOK, kfrom \in Regions, UpdateFlags(kfrom, {"analyzeDone"}, {})
  PROVE  /\ kflags' = [kflags EXCEPT ![kfrom] = kflags[kfrom] \cup {"analyzeDone"}]
         /\ kflags' \in [Regions -> SUBSET {"analyzeDone", "stale"}]
         /\ kdb' \in Tables
         /\ kdb'.rows = kdb.rows /\ kdb'.record = kdb.record /\ kdb'.refs = kdb.refs
         /\ kdb'.done = IF kfrom \in kdb.rows THEN kdb.done \cup {kfrom} ELSE kdb.done \ {kfrom}
         /\ \A q \in Regions : kflags'[q] = IF q = kfrom THEN kflags[q] \cup {"analyzeDone"}
                                                       ELSE kflags[q]
<1>1. /\ kflags' = [kflags EXCEPT ![kfrom] = (kflags[kfrom] \cup {"analyzeDone"}) \ {}]
      /\ kflags' \in [Regions -> SUBSET {"analyzeDone", "stale"}]
      /\ kdb' \in Tables
      /\ kdb'.rows = kdb.rows /\ kdb'.record = kdb.record /\ kdb'.refs = kdb.refs
      /\ kdb'.done = IF kfrom \in kdb.rows /\ "analyzeDone" \in kflags'[kfrom]
                     THEN kdb.done \cup {kfrom} ELSE kdb.done \ {kfrom}
  BY FlagsUpdated
<1>2. "analyzeDone" \in kflags'[kfrom]
  BY <1>1 DEF FloatingTypeOK
<1>3. (kflags[kfrom] \cup {"analyzeDone"}) \ {} = kflags[kfrom] \cup {"analyzeDone"}
  OBVIOUS
<1>4. \A q \in Regions : kflags'[q] = IF q = kfrom THEN kflags[q] \cup {"analyzeDone"}
                                               ELSE kflags[q]
  BY <1>1, <1>3 DEF FloatingTypeOK
<1> QED BY <1>1, <1>2, <1>3, <1>4

\* A refreshed module has no flags.
LEMMA StaleCleared ==
  ASSUME FloatingTypeOK, WorkTells, ClearStale
  PROVE  /\ kfrom \in Regions
         /\ kflags' = [kflags EXCEPT ![kfrom] = {}]
         /\ kdb' \in Tables
         /\ kdb'.rows = kdb.rows /\ kdb'.record = kdb.record /\ kdb'.refs = kdb.refs
         /\ kdb'.done = kdb.done \ {kfrom}
         /\ \A q \in Regions : kflags'[q] = IF q = kfrom THEN {} ELSE kflags[q]
<1>1. kfrom \in Regions
  BY DEF ClearStale, FloatingTypeOK, WorkTells, OnePcs
<1>2. UpdateFlags(kfrom, {}, {"stale", "analyzeDone"})
  BY DEF ClearStale
<1>3. /\ kflags' = [kflags EXCEPT ![kfrom] = (kflags[kfrom] \cup {}) \ {"stale", "analyzeDone"}]
      /\ kdb' \in Tables
      /\ kdb'.rows = kdb.rows /\ kdb'.record = kdb.record /\ kdb'.refs = kdb.refs
      /\ kdb'.done = IF kfrom \in kdb.rows /\ "analyzeDone" \in kflags'[kfrom]
                     THEN kdb.done \cup {kfrom} ELSE kdb.done \ {kfrom}
  <2> DEFINE both == {"stale", "analyzeDone"}
  <2>1. UpdateFlags(kfrom, {}, both)
    BY <1>2
  <2> HIDE DEF both
  <2>2. /\ kflags' = [kflags EXCEPT ![kfrom] = (kflags[kfrom] \cup {}) \ both]
        /\ kflags' \in [Regions -> SUBSET {"analyzeDone", "stale"}]
        /\ kdb' \in Tables
        /\ kdb'.rows = kdb.rows /\ kdb'.record = kdb.record /\ kdb'.refs = kdb.refs
        /\ kdb'.done = IF kfrom \in kdb.rows /\ "analyzeDone" \in kflags'[kfrom]
                       THEN kdb.done \cup {kfrom} ELSE kdb.done \ {kfrom}
    BY <1>1, <2>1, FlagsUpdated
  <2> QED BY <2>2 DEF both
<1>4. (kflags[kfrom] \cup {}) \ {"stale", "analyzeDone"} = {}
  BY <1>1 DEF FloatingTypeOK
<1>5. "analyzeDone" \notin kflags'[kfrom]
  BY <1>1, <1>3 DEF FloatingTypeOK
<1>6. \A q \in Regions : kflags'[q] = IF q = kfrom THEN {} ELSE kflags[q]
  BY <1>1, <1>3, <1>4 DEF FloatingTypeOK
<1> QED BY <1>1, <1>3, <1>4, <1>5, <1>6

\* SaveFloatingSnapshot changes the snapshot of the one record, at most.
LEMMA SnapshotSaved ==
  ASSUME FloatingTypeOK, WorkTells, NEW ok \in BOOLEAN, SaveFloatingSnapshot(ok)
  PROVE  /\ Region \in DOMAIN ktodo /\ Region' = Region
         /\ DOMAIN ktodo' = DOMAIN ktodo
         /\ snaps \subseteq snaps' /\ snaps' \subseteq Regions \X (0..MaxBytes)
         /\ \A r \in DOMAIN ktodo : /\ ktodo'[r] \in RegionInfos
                                    /\ ktodo'[r].hash = ktodo[r].hash
                                    /\ ktodo'[r].referrers = ktodo[r].referrers
                                    /\ \/ ktodo'[r].snap = ktodo[r].snap
                                       \/ ktodo'[r].snap = mem[r] /\ <<r, mem[r]>> \in snaps'
<1>1. Region \in DOMAIN ktodo /\ Region \in Regions /\ ktodo[Region] \in RegionInfos
      /\ mem[Region] \in 0..MaxBytes
  BY RegionIn DEF SaveFloatingSnapshot, SavePcs, FloatingTypeOK
<1>2. CASE ktodo' = ktodo /\ (snaps' = snaps \/ snaps' = snaps \cup {<<Region, mem[Region]>>})
  BY <1>1, <1>2 DEF FloatingTypeOK, Region
<1>3. CASE /\ ktodo' = [ktodo EXCEPT ![Region].snap = mem[Region]]
           /\ snaps' = snaps \cup {<<Region, mem[Region]>>}
  <2> DEFINE one == [ktodo[Region] EXCEPT !.snap = mem[Region]]
  <2>1. /\ one \in RegionInfos /\ one.hash = ktodo[Region].hash /\ one.snap = mem[Region]
        /\ one.referrers = ktodo[Region].referrers
    BY <1>1, SnapChanged
  <2>2. ktodo' = [ktodo EXCEPT ![Region] = one]
    BY <1>3
  <2> HIDE DEF one
  <2>3. DOMAIN ktodo' = DOMAIN ktodo
        /\ \A r \in DOMAIN ktodo : ktodo'[r] = IF r = Region THEN one ELSE ktodo[r]
    BY <2>2
  <2>4. Region' = Region
    BY <2>3 DEF Region
  <2>5. snaps \subseteq snaps' /\ snaps' \subseteq Regions \X (0..MaxBytes)
        /\ <<Region, mem[Region]>> \in snaps'
    BY <1>1, <1>3 DEF FloatingTypeOK
  <2> QED BY <1>1, <2>1, <2>3, <2>4, <2>5 DEF FloatingTypeOK
<1> QED BY <1>2, <1>3 DEF SaveFloatingSnapshot

\* A pass gives up the module it is at.
LEMMA PassGivesUp ==
  ASSUME FloatingTypeOK, WorkTells, FailTask, ktask = "pass"
  PROVE  /\ kfrom \in Regions
         /\ kpc' = "next" /\ DOMAIN ktodo' = {} /\ knew' = {}
         /\ UNCHANGED <<ktask, kfrom, kphase, kpass>>
         /\ UNCHANGED <<mem, known, kopen, snaps, kqueued, krestore>>
         /\ kcut' = kcut \cup HalfAnalyzed \cup {kfrom} /\ kwhole' = FALSE
         /\ kmissed' = kmissed \cup NotFollowed \cup {p[1] : p \in Targeted(kfrom)}
         /\ kflags' = [kflags EXCEPT ![kfrom] = kflags[kfrom] \cup {"analyzeDone"}]
         /\ kflags' \in [Regions -> SUBSET {"analyzeDone", "stale"}]
         /\ kdb' \in Tables
         /\ kdb'.rows = kdb.rows /\ kdb'.record = kdb.record /\ kdb'.refs = kdb.refs
         /\ kdb'.done = IF kfrom \in kdb.rows THEN kdb.done \cup {kfrom} ELSE kdb.done \ {kfrom}
         /\ \A q \in Regions : kflags'[q] = IF q = kfrom THEN kflags[q] \cup {"analyzeDone"}
                                                       ELSE kflags[q]
<1>1. kfrom \in Regions
  BY DEF FailTask, WorkTells
<1>2. UpdateFlags(kfrom, {"analyzeDone"}, {})
  BY DEF FailTask
<1>3. /\ kpc' = "next" /\ DOMAIN ktodo' = {} /\ knew' = {}
      /\ UNCHANGED <<ktask, kfrom, kphase, kpass>>
      /\ UNCHANGED <<mem, known, kopen, snaps, kqueued, krestore>>
      /\ kcut' = kcut \cup HalfAnalyzed \cup {kfrom} /\ kwhole' = FALSE
      /\ kmissed' = kmissed \cup NotFollowed \cup {p[1] : p \in Targeted(kfrom)}
  BY <1>1 DEF FailTask
<1> QED BY <1>1, <1>2, <1>3, AnalyzedSet

\* The thread is idle again.
LEMMA IdlesTells ==
  ASSUME Idles
  PROVE  /\ kpc' = "idle" /\ ktask' = "source" /\ kfrom' = Source /\ kphase' = "found"
         /\ DOMAIN ktodo' = {} /\ knew' = {} /\ kpass' = {}
BY DEF Idles

\* SetFloatingModule puts the record of the one region in its place in memory.
LEMMA ModuleSet ==
  ASSUME FloatingTypeOK, WorkTells, SetFloatingModule
  PROVE  /\ Region \in DOMAIN ktodo /\ Region \in Regions /\ ktodo[Region] \in RegionInfos
         /\ known' = [known EXCEPT ![Region] = ktodo[Region]]
         /\ known' \in [Regions -> RegionInfos \cup {NoRegion}]
         /\ known'[Region] = ktodo[Region] /\ known'[Region] # NoRegion
         /\ \A r \in Regions : r # Region => known'[r] = known[r]
         /\ DOMAIN ktodo' = DOMAIN ktodo \ {Region}
         /\ \A r \in DOMAIN ktodo' : ktodo'[r] = ktodo[r]
         /\ kphase = "analyzed" => kpc' = "done" /\ Region = kfrom
         /\ kphase = "refreshed" => kpc' = "fresh" /\ Region = kfrom
         /\ kphase = "found" /\ DOMAIN ktodo' = {} => kpc' = "flags"
         /\ kphase = "found" /\ DOMAIN ktodo' # {} => kpc' = "snap"
<1>1. Region \in DOMAIN ktodo /\ Region \in Regions /\ ktodo[Region] \in RegionInfos
  BY RegionIn DEF SetFloatingModule, SavePcs
<1>2. /\ known' = [known EXCEPT ![Region] = ktodo[Region]]
      /\ ktodo' = [r \in DOMAIN ktodo \ {Region} |-> ktodo[r]]
  BY DEF SetFloatingModule
<1>3. ktodo[Region] # NoRegion
  BY <1>1, FloatingAssumption
<1>4. /\ kphase = "analyzed" => kpc' = "done" /\ Region = kfrom
      /\ kphase = "refreshed" => kpc' = "fresh" /\ Region = kfrom
      /\ kphase = "found" /\ DOMAIN ktodo' = {} => kpc' = "flags"
      /\ kphase = "found" /\ DOMAIN ktodo' # {} => kpc' = "snap"
  BY <1>1 DEF SetFloatingModule, WorkTells, SavePcs
<1>5. /\ DOMAIN ktodo' = DOMAIN ktodo \ {Region}
      /\ \A r \in DOMAIN ktodo' : ktodo'[r] = ktodo[r]
  BY <1>2
<1>6. /\ known' \in [Regions -> RegionInfos \cup {NoRegion}]
      /\ known'[Region] = ktodo[Region] /\ known'[Region] # NoRegion
      /\ \A r \in Regions : r # Region => known'[r] = known[r]
  BY <1>1, <1>2, <1>3 DEF FloatingTypeOK
<1> QED BY <1>1, <1>2, <1>4, <1>5, <1>6

------------------------------------------------------------------------------
(* The steps keep the types and the work in order.                           *)

\* A step keeps the types.
LEMMA StepTypes ==
  ASSUME FloatingTypeOK, WorkTells, [FloatingNext]_flVars
  PROVE  FloatingTypeOK'
<1>1. CASE StartPass
  BY <1>1 DEF StartPass, PendingFloating, FloatingTypeOK, SavePcs, OnePcs, itemK, workK,
          windowK, boundK
<1>2. CASE PassNext
  BY <1>2, SmallestIn DEF PassNext, FloatingTypeOK, SavePcs, OnePcs, itemK, workK, windowK,
          boundK
<1>3. CASE EndTask
  BY <1>3, IdlesTells DEF EndTask, FloatingTypeOK, SavePcs, OnePcs, itemK, workK, windowK,
          boundK
<1>4. CASE Cancelled
  BY <1>4, IdlesTells DEF Cancelled, FloatingTypeOK, SavePcs, OnePcs, itemK, workK, windowK,
          boundK
<1>5. CASE CollectFloatingRegions
  BY <1>5, ReferredTells DEF CollectFloatingRegions, Reached, FloatingTypeOK, SavePcs, OnePcs,
          itemK, workK, windowK, boundK
<1>6. ASSUME NEW ok \in BOOLEAN, SaveFloatingSnapshot(ok)
      PROVE  FloatingTypeOK'
  <2>1. /\ DOMAIN ktodo' \subseteq Regions /\ \A r \in DOMAIN ktodo' : ktodo'[r] \in RegionInfos
        /\ snaps' \subseteq Regions \X (0..MaxBytes)
    <3>1. /\ DOMAIN ktodo' = DOMAIN ktodo /\ \A r \in DOMAIN ktodo : ktodo'[r] \in RegionInfos
          /\ snaps' \subseteq Regions \X (0..MaxBytes)
      BY <1>6, SnapshotSaved
    <3> QED BY <3>1 DEF FloatingTypeOK
  <2>2. /\ UNCHANGED <<mem, known, kflags, kopen, kdb, ktask, kfrom, kphase, knew, kpass, kqueued,
                       krestore, kcut, kmissed, kwhole>>
        /\ kpc' \in {"unload", "row"}
    BY <1>6 DEF SaveFloatingSnapshot, itemK, windowK
  <2> QED BY <2>1, <2>2 DEF FloatingTypeOK, SavePcs, OnePcs
<1>7. CASE RegisterRange
  BY <1>7, RowRegistered DEF RegisterRange, FloatingTypeOK, SavePcs, OnePcs, itemK, workK,
          windowK, boundK
<1>8. CASE InsertRecord
  BY <1>8, RecordInserted DEF InsertRecord, FloatingTypeOK, SavePcs, OnePcs, itemK, workK,
          windowK, boundK
<1>9. CASE SetFloatingModule
  BY <1>9, RegionIn DEF SetFloatingModule, FloatingTypeOK, SavePcs, OnePcs, itemK, workK,
          windowK, boundK
<1>10. CASE ClearDone
  <2>1. CASE knew = {}
    BY <1>10, <2>1
        DEF ClearDone, AfterDiscover, FloatingTypeOK, SavePcs, OnePcs, itemK, workK, windowK, boundK
  <2>2. CASE knew # {}
    BY <1>10, <2>2, DoneCleared
        DEF ClearDone, FloatingTypeOK, SavePcs, OnePcs, itemK, workK, windowK, boundK
  <2> QED BY <2>1, <2>2
<1>11. CASE ClearFloatingReferences
  BY <1>11, RefsCleared DEF ClearFloatingReferences, FloatingTypeOK, SavePcs, OnePcs, itemK,
          workK, windowK, boundK
<1>12. CASE AnalyzeRange
  BY <1>12, RangeAnalyzed DEF AnalyzeRange, Only, FloatingTypeOK, SavePcs, OnePcs, itemK, workK,
          windowK, boundK
<1>13. CASE SetAnalyzed
  <2>1. kfrom \in Regions /\ UpdateFlags(kfrom, {"analyzeDone"}, {})
    BY <1>13 DEF SetAnalyzed, WorkTells, OnePcs
  <2> QED BY <1>13, <2>1, AnalyzedSet
      DEF SetAnalyzed, FloatingTypeOK, SavePcs, OnePcs, itemK, workK, windowK, boundK
<1>14. CASE RefreshFloatingRegion
  <2>1. kfrom \in Regions /\ known[kfrom] \in RegionInfos /\ mem[kfrom] \in 0..MaxBytes
    BY <1>14 DEF RefreshFloatingRegion, WorkTells, OnePcs, FloatingTypeOK
  <2> DEFINE two == [known[kfrom] EXCEPT !.hash = mem[kfrom], !.snap = NoSnapshot]
  <2>2. two \in RegionInfos
    BY <2>1, BytesChanged
  <2>3. ktodo' = Only(kfrom, known[kfrom]) \/ ktodo' = Only(kfrom, two)
    BY <1>14 DEF RefreshFloatingRegion
  <2> HIDE DEF two
  <2>4. DOMAIN ktodo' = {kfrom} /\ ktodo'[kfrom] \in RegionInfos
    BY <2>1, <2>2, <2>3 DEF Only
  <2> QED BY <1>14, <2>1, <2>4
      DEF RefreshFloatingRegion, FloatingTypeOK, SavePcs, OnePcs, itemK, workK, windowK, boundK
<1>15. CASE UnloadRow
  BY <1>15, RowUnloaded DEF UnloadRow, FloatingTypeOK, SavePcs, OnePcs, itemK, workK, windowK,
          boundK
<1>16. CASE RemoveFloatingModule
  BY <1>16 DEF RemoveFloatingModule, FloatingTypeOK, SavePcs, OnePcs, itemK, workK, windowK,
          boundK
<1>17. CASE ClearStale
  BY <1>17, StaleCleared DEF ClearStale, FloatingTypeOK, SavePcs, OnePcs, itemK, workK, windowK,
          boundK
<1>18. CASE FailTask
  <2>1. kmissed' \subseteq Regions /\ HalfAnalyzed \subseteq Regions
    BY <1>18, WindowsIn DEF FailTask, FloatingTypeOK
  <2>2. CASE ktask = "pass"
    BY <1>18, <2>1, <2>2, PassGivesUp DEF FloatingTypeOK, SavePcs, OnePcs
  <2>3. CASE ktask # "pass"
    BY <1>18, <2>1, <2>3, IdlesTells DEF FailTask, FloatingTypeOK, SavePcs, OnePcs
  <2> QED BY <2>2, <2>3
<1>19. ASSUME NEW r \in Regions, NEW v \in 0..MaxBytes, Change(r, v)
      PROVE  FloatingTypeOK'
  BY <1>19 DEF Change, FloatingTypeOK, SavePcs, OnePcs, itemK, workK, windowK, boundK
<1>20. CASE StartSource
  BY <1>20 DEF StartSource, FloatingTypeOK, SavePcs, OnePcs, itemK, workK, windowK, boundK
<1>21. ASSUME NEW task \in {"one", "force"}, NEW r \in Regions, StartOne(task, r)
      PROVE  FloatingTypeOK'
  BY <1>21 DEF StartOne, FloatingTypeOK, SavePcs, OnePcs, itemK, workK, windowK, boundK
<1>22. CASE ReadSavedFlags
  BY <1>22 DEF ReadSavedFlags, Tables, FloatingTypeOK, SavePcs, OnePcs, itemK, workK, windowK,
          boundK
<1>23. CASE RestoreSavedFlags
  BY <1>23 DEF RestoreSavedFlags, FloatingTypeOK, SavePcs, OnePcs, itemK, workK, windowK, boundK
<1>24. CASE EndFloating
  <2>1. kmissed' \subseteq Regions /\ kcut' \subseteq Regions
    BY <1>24, WindowsIn DEF EndFloating, Leave, FloatingTypeOK
  <2> QED BY <1>24, <2>1, IdlesTells DEF EndFloating, Leave, FloatingTypeOK, SavePcs, OnePcs
<1>25. CASE EndInUnloadRow
  <2>1. kmissed' \subseteq Regions /\ kcut' \subseteq Regions
    BY <1>25, WindowsIn DEF EndInUnloadRow, Leave, FloatingTypeOK, WorkTells, OnePcs
  <2>2. kdb' \in Tables
    BY <1>25, RefsCleared DEF EndInUnloadRow
  <2> QED BY <1>25, <2>1, <2>2, IdlesTells
      DEF EndInUnloadRow, Leave, FloatingTypeOK, SavePcs, OnePcs
<1>26. CASE LoadSavedFloatingModules
  BY <1>26 DEF LoadSavedFloatingModules, Tables, FloatingTypeOK, SavePcs, OnePcs, itemK, workK,
          windowK, boundK
<1>27. CASE UNCHANGED flVars
  BY <1>27 DEF flVars, FloatingTypeOK, SavePcs, OnePcs, itemK, workK, windowK, boundK
<1> QED BY <1>1, <1>2, <1>3, <1>4, <1>5, <1>6, <1>7, <1>8, <1>9, <1>10, <1>11, <1>12, <1>13,
                <1>14, <1>15, <1>16, <1>17, <1>18, <1>19, <1>20, <1>21, <1>22, <1>23, <1>24,
                <1>25, <1>26, <1>27 DEF FloatingNext, FloatingStep

\* A step keeps the thread's work in order.
LEMMA StepWork ==
  ASSUME FloatingTypeOK, WorkTells, PassTells, FloatingTypeOK', [FloatingNext]_flVars
  PROVE  WorkTells'
<1>1. CASE StartPass
  BY <1>1 DEF StartPass, PendingFloating, FloatingTypeOK, WorkTells, SavePcs, OnePcs, itemK,
          workK, windowK, boundK
<1>2. CASE PassNext
  BY <1>2, SmallestIn DEF PassNext, PassTells, FloatingTypeOK, WorkTells, SavePcs, OnePcs,
          itemK, workK, windowK, boundK
<1>3. CASE EndTask
  BY <1>3, IdlesTells DEF EndTask, FloatingTypeOK, WorkTells, SavePcs, OnePcs, itemK, workK,
          windowK, boundK
<1>4. CASE Cancelled
  BY <1>4, IdlesTells DEF Cancelled, FloatingTypeOK, WorkTells, SavePcs, OnePcs, itemK, workK,
          windowK, boundK
<1>5. CASE CollectFloatingRegions
  BY <1>5, ReferredTells DEF CollectFloatingRegions, FloatingTypeOK, WorkTells, SavePcs, OnePcs,
          itemK, workK, windowK, boundK
<1>6. ASSUME NEW ok \in BOOLEAN, SaveFloatingSnapshot(ok)
      PROVE  WorkTells'
  BY <1>6, SnapshotSaved DEF SaveFloatingSnapshot, FloatingTypeOK, WorkTells, SavePcs, OnePcs,
          itemK, workK, windowK, boundK
<1>7. CASE RegisterRange
  BY <1>7 DEF RegisterRange, FloatingTypeOK, WorkTells, SavePcs, OnePcs, itemK, workK, windowK,
          boundK
<1>8. CASE InsertRecord
  BY <1>8 DEF InsertRecord, FloatingTypeOK, WorkTells, SavePcs, OnePcs, itemK, workK, windowK,
          boundK
<1>9. CASE SetFloatingModule
  BY <1>9, ModuleSet DEF SetFloatingModule, FloatingTypeOK, WorkTells, SavePcs, OnePcs, itemK,
          workK, windowK, boundK
<1>10. CASE ClearDone
  BY <1>10 DEF ClearDone, AfterDiscover, FloatingTypeOK, WorkTells, SavePcs, OnePcs, itemK,
          workK, windowK, boundK
<1>11. CASE ClearFloatingReferences
  BY <1>11 DEF ClearFloatingReferences, FloatingTypeOK, WorkTells, SavePcs, OnePcs, itemK,
          workK, windowK, boundK
<1>12. CASE AnalyzeRange
  BY <1>12 DEF AnalyzeRange, Only, FloatingTypeOK, WorkTells, SavePcs, OnePcs, itemK, workK,
          windowK, boundK
<1>13. CASE SetAnalyzed
  BY <1>13 DEF SetAnalyzed, FloatingTypeOK, WorkTells, SavePcs, OnePcs, itemK, workK, windowK,
          boundK
<1>14. CASE RefreshFloatingRegion
  BY <1>14, SMTT(30)
     DEF RefreshFloatingRegion, Only, FloatingTypeOK, WorkTells, SavePcs, OnePcs, itemK,
          workK, windowK, boundK
<1>15. CASE UnloadRow
  BY <1>15 DEF UnloadRow, FloatingTypeOK, WorkTells, SavePcs, OnePcs, itemK, workK, windowK,
          boundK
<1>16. CASE RemoveFloatingModule
  BY <1>16 DEF RemoveFloatingModule, FloatingTypeOK, WorkTells, SavePcs, OnePcs, itemK, workK,
          windowK, boundK
<1>17. CASE ClearStale
  BY <1>17 DEF ClearStale, FloatingTypeOK, WorkTells, SavePcs, OnePcs, itemK, workK, windowK,
          boundK
<1>18. CASE FailTask
  <2>1. CASE ktask = "pass"
    BY <1>18, <2>1, PassGivesUp DEF FailTask, FloatingTypeOK, WorkTells, SavePcs, OnePcs
  <2>2. CASE ktask # "pass"
    BY <1>18, <2>2, IdlesTells DEF FailTask, FloatingTypeOK, WorkTells, SavePcs, OnePcs
  <2> QED BY <2>1, <2>2
<1>19. ASSUME NEW r \in Regions, NEW v \in 0..MaxBytes, Change(r, v)
      PROVE  WorkTells'
  BY <1>19 DEF Change, FloatingTypeOK, WorkTells, SavePcs, OnePcs, itemK, workK, windowK, boundK
<1>20. CASE StartSource
  BY <1>20 DEF StartSource, FloatingTypeOK, WorkTells, SavePcs, OnePcs, itemK, workK, windowK,
          boundK
<1>21. ASSUME NEW task \in {"one", "force"}, NEW r \in Regions, StartOne(task, r)
      PROVE  WorkTells'
  BY <1>21 DEF StartOne, FloatingTypeOK, WorkTells, SavePcs, OnePcs, itemK, workK, windowK,
          boundK
<1>22. CASE ReadSavedFlags
  BY <1>22 DEF ReadSavedFlags, FloatingTypeOK, WorkTells, SavePcs, OnePcs, itemK, workK,
          windowK, boundK
<1>23. CASE RestoreSavedFlags
  BY <1>23 DEF RestoreSavedFlags, FloatingTypeOK, WorkTells, SavePcs, OnePcs, itemK, workK,
          windowK, boundK
<1>24. CASE EndFloating
  BY <1>24, IdlesTells DEF EndFloating, Leave, FloatingTypeOK, WorkTells, SavePcs, OnePcs,
          itemK, workK, windowK, boundK
<1>25. CASE EndInUnloadRow
  BY <1>25, IdlesTells DEF EndInUnloadRow, Leave, FloatingTypeOK, WorkTells, SavePcs, OnePcs,
          itemK, workK, windowK, boundK
<1>26. CASE LoadSavedFloatingModules
  BY <1>26 DEF LoadSavedFloatingModules, FloatingTypeOK, WorkTells, SavePcs, OnePcs, itemK,
          workK, windowK, boundK
<1>27. CASE UNCHANGED flVars
  BY <1>27 DEF flVars, FloatingTypeOK, WorkTells, SavePcs, OnePcs, itemK, workK, windowK, boundK
<1> QED BY <1>1, <1>2, <1>3, <1>4, <1>5, <1>6, <1>7, <1>8, <1>9, <1>10, <1>11, <1>12, <1>13,
                <1>14, <1>15, <1>16, <1>17, <1>18, <1>19, <1>20, <1>21, <1>22, <1>23, <1>24,
                <1>25, <1>26, <1>27 DEF FloatingNext, FloatingStep

\* A step keeps what a pass has still to analyze.
LEMMA StepPass ==
  ASSUME FloatingTypeOK, WorkTells, PassTells, FloatingTypeOK', WorkTells',
         [FloatingNext]_flVars
  PROVE  PassTells'
<1>1. CASE StartPass
  BY <1>1 DEF StartPass, PendingFloating, SavePcs, OnePcs, FloatingTypeOK, WorkTells, PassTells,
          itemK, workK, windowK, boundK
<1>2. CASE PassNext
  BY <1>2, SmallestIn DEF PassNext, FloatingTypeOK, WorkTells, PassTells, itemK, workK, windowK,
          boundK
<1>3. CASE EndTask
  BY <1>3, IdlesTells DEF EndTask, FloatingTypeOK, WorkTells, PassTells, itemK, workK, windowK,
          boundK
<1>4. CASE Cancelled
  BY <1>4, IdlesTells DEF Cancelled, FloatingTypeOK, WorkTells, PassTells, itemK, workK,
          windowK, boundK
<1>5. CASE CollectFloatingRegions
  BY <1>5 DEF CollectFloatingRegions, FloatingTypeOK, WorkTells, PassTells, itemK, workK,
          windowK, boundK
<1>6. ASSUME NEW ok \in BOOLEAN, SaveFloatingSnapshot(ok)
      PROVE  PassTells'
  BY <1>6, SnapshotSaved DEF SaveFloatingSnapshot, FloatingTypeOK, WorkTells, PassTells, itemK,
          workK, windowK, boundK
<1>7. CASE RegisterRange
  BY <1>7 DEF RegisterRange, FloatingTypeOK, WorkTells, PassTells, itemK, workK, windowK, boundK
<1>8. CASE InsertRecord
  BY <1>8 DEF InsertRecord, FloatingTypeOK, WorkTells, PassTells, itemK, workK, windowK, boundK
<1>9. CASE SetFloatingModule
  BY <1>9, ModuleSet DEF SetFloatingModule, SavePcs, FloatingTypeOK, WorkTells, PassTells,
          itemK, workK, windowK, boundK
<1>10. CASE ClearDone
  <2>1. CASE knew = {}
    BY <1>10, <2>1
        DEF ClearDone, AfterDiscover, FloatingTypeOK, WorkTells, PassTells,
            itemK, workK, windowK, boundK
  <2>2. CASE knew # {}
    BY <1>10, <2>2, DoneCleared
        DEF ClearDone, FloatingTypeOK, WorkTells, PassTells, itemK, workK, windowK, boundK
  <2> QED BY <2>1, <2>2
<1>11. CASE ClearFloatingReferences
  BY <1>11 DEF ClearFloatingReferences, FloatingTypeOK, WorkTells, PassTells, itemK, workK,
          windowK, boundK
<1>12. CASE AnalyzeRange
  BY <1>12 DEF AnalyzeRange, Only, FloatingTypeOK, WorkTells, PassTells, itemK, workK, windowK,
          boundK
<1>13. CASE SetAnalyzed
  <2>1. kfrom \in Regions /\ UpdateFlags(kfrom, {"analyzeDone"}, {})
    BY <1>13 DEF SetAnalyzed, WorkTells, OnePcs
  <2> QED BY <1>13, <2>1, AnalyzedSet
      DEF SetAnalyzed, FloatingTypeOK, WorkTells, PassTells, itemK, workK, windowK, boundK
<1>14. CASE RefreshFloatingRegion
  BY <1>14 DEF RefreshFloatingRegion, Only, FloatingTypeOK, WorkTells, PassTells, itemK, workK,
          windowK, boundK
<1>15. CASE UnloadRow
  BY <1>15 DEF UnloadRow, FloatingTypeOK, WorkTells, PassTells, itemK, workK, windowK, boundK
<1>16. CASE RemoveFloatingModule
  BY <1>16 DEF RemoveFloatingModule, FloatingTypeOK, WorkTells, PassTells, itemK, workK,
          windowK, boundK
<1>17. CASE ClearStale
  BY <1>17, StaleCleared DEF ClearStale, FloatingTypeOK, WorkTells, PassTells, itemK, workK,
          windowK, boundK
<1>18. CASE FailTask
  <2>1. CASE ktask = "pass"
    <3>1. \A r \in Regions : "stale" \in kflags'[r] => "stale" \in kflags[r]
      BY <1>18, <2>1, PassGivesUp
    <3> QED BY <1>18, <2>1, <3>1, PassGivesUp DEF FloatingTypeOK, WorkTells, PassTells
  <2>2. CASE ktask # "pass"
    BY <1>18, <2>2, IdlesTells DEF FailTask, FloatingTypeOK, WorkTells, PassTells
  <2> QED BY <2>1, <2>2
<1>19. ASSUME NEW r \in Regions, NEW v \in 0..MaxBytes, Change(r, v)
      PROVE  PassTells'
  BY <1>19 DEF Change, FloatingTypeOK, WorkTells, PassTells, itemK, workK, windowK, boundK
<1>20. CASE StartSource
  BY <1>20 DEF StartSource, FloatingTypeOK, WorkTells, PassTells, itemK, workK, windowK, boundK
<1>21. ASSUME NEW task \in {"one", "force"}, NEW r \in Regions, StartOne(task, r)
      PROVE  PassTells'
  BY <1>21 DEF StartOne, FloatingTypeOK, WorkTells, PassTells, itemK, workK, windowK, boundK
<1>22. CASE ReadSavedFlags
  BY <1>22 DEF ReadSavedFlags, FloatingTypeOK, WorkTells, PassTells, itemK, workK, windowK,
          boundK
<1>23. CASE RestoreSavedFlags
  <2>1. \A r \in Regions : "stale" \in kflags'[r] => "stale" \in kflags[r]
    BY <1>23 DEF RestoreSavedFlags, FloatingTypeOK
  <2>2. UNCHANGED <<known, kpc, ktask, kfrom, kpass>>
    BY <1>23 DEF RestoreSavedFlags, workK
  <2> QED BY <2>1, <2>2 DEF FloatingTypeOK, WorkTells, PassTells, OnePcs
<1>24. CASE EndFloating
  BY <1>24, IdlesTells DEF EndFloating, Leave, FloatingTypeOK, WorkTells, PassTells, itemK,
          workK, windowK, boundK
<1>25. CASE EndInUnloadRow
  BY <1>25, IdlesTells DEF EndInUnloadRow, Leave, FloatingTypeOK, WorkTells, PassTells, itemK,
          workK, windowK, boundK
<1>26. CASE LoadSavedFloatingModules
  BY <1>26 DEF LoadSavedFloatingModules, SavePcs, OnePcs, FloatingTypeOK, WorkTells, PassTells,
          itemK, workK, windowK, boundK
<1>27. CASE UNCHANGED flVars
  BY <1>27 DEF flVars, FloatingTypeOK, WorkTells, PassTells, itemK, workK, windowK, boundK
<1> QED BY <1>1, <1>2, <1>3, <1>4, <1>5, <1>6, <1>7, <1>8, <1>9, <1>10, <1>11, <1>12, <1>13,
                <1>14, <1>15, <1>16, <1>17, <1>18, <1>19, <1>20, <1>21, <1>22, <1>23, <1>24,
                <1>25, <1>26, <1>27 DEF FloatingNext, FloatingStep

------------------------------------------------------------------------------
(* Snapshots, fingerprints and stale regions.                                *)

\* A step keeps the fingerprints and snapshots true.
LEMMA StepBytes ==
  ASSUME FloatingTypeOK, WorkTells, BytesTell, StaleIsCut, FloatingTypeOK',
         [FloatingNext]_flVars
  PROVE  BytesTell'
<1>1. CASE StartPass
  BY <1>1 DEF StartPass, PendingFloating, BytesTell, Named, Fits, Renewed, itemK, workK,
          windowK, boundK
<1>2. CASE PassNext
  BY <1>2 DEF PassNext, BytesTell, Named, Fits, Renewed, itemK, workK, windowK, boundK
<1>3. CASE EndTask
  BY <1>3, IdlesTells DEF EndTask, BytesTell, Named, Fits, Renewed, itemK, workK, windowK,
          boundK
<1>4. CASE Cancelled
  BY <1>4, IdlesTells DEF Cancelled, BytesTell, Named, Fits, Renewed, itemK, workK, windowK,
          boundK
<1>5. CASE CollectFloatingRegions
  BY <1>5, ReferredTells DEF CollectFloatingRegions, BytesTell, Named, Fits, Renewed, itemK,
          workK, windowK, boundK
<1>6. ASSUME NEW ok \in BOOLEAN, SaveFloatingSnapshot(ok)
      PROVE  BytesTell'
  <2>1. \A r \in DOMAIN ktodo : ktodo[r] # NoRegion /\ r \in Regions
    BY FloatingAssumption DEF FloatingTypeOK
  <2>2. UNCHANGED <<mem, known, kdb, kfrom, kphase, kcut>> /\ kpc = "snap" /\ kpc' # "set"
    BY <1>6 DEF SaveFloatingSnapshot, itemK, windowK
  <2> QED BY <1>6, <2>1, <2>2, SnapshotSaved DEF BytesTell, Named, Fits, Renewed
<1>7. CASE RegisterRange
  BY <1>7, RowRegistered DEF RegisterRange, BytesTell, Named, Fits, Renewed, itemK, workK,
          windowK, boundK
<1>8. CASE InsertRecord
  BY <1>8, RecordInserted DEF InsertRecord, WorkTells, SavePcs, BytesTell, Named, Fits, Renewed,
          itemK, workK, windowK, boundK
<1>9. CASE SetFloatingModule
  BY <1>9, ModuleSet DEF SetFloatingModule, SavePcs, FloatingTypeOK, BytesTell, Named, Fits,
          Renewed, itemK, workK, windowK, boundK
<1>10. CASE ClearDone
  <2>1. CASE knew = {}
    BY <1>10, <2>1
        DEF ClearDone, AfterDiscover, BytesTell, Named, Fits, Renewed, itemK, workK, windowK, boundK
  <2>2. CASE knew # {}
    BY <1>10, <2>2, DoneCleared
        DEF ClearDone, BytesTell, Named, Fits, Renewed, itemK, workK, windowK, boundK
  <2> QED BY <2>1, <2>2
<1>11. CASE ClearFloatingReferences
  BY <1>11, RefsCleared DEF ClearFloatingReferences, BytesTell, Named, Fits, Renewed, itemK,
          workK, windowK, boundK
<1>12. CASE AnalyzeRange
  BY <1>12, RangeAnalyzed DEF AnalyzeRange, Only, BytesTell, Named, Fits, Renewed, itemK, workK,
          windowK, boundK
<1>13. CASE SetAnalyzed
  <2>1. kfrom \in Regions /\ UpdateFlags(kfrom, {"analyzeDone"}, {})
    BY <1>13 DEF SetAnalyzed, WorkTells, OnePcs
  <2> QED BY <1>13, <2>1, AnalyzedSet
      DEF SetAnalyzed, BytesTell, Named, Fits, Renewed, itemK, workK, windowK, boundK
<1>14. CASE RefreshFloatingRegion
  <2>1. kfrom \in Regions /\ kfrom \in kcut /\ known[kfrom] \in RegionInfos
        /\ known[kfrom] # NoRegion /\ mem[kfrom] \in 0..MaxBytes
    BY <1>14 DEF RefreshFloatingRegion, WorkTells, OnePcs, StaleIsCut, FloatingTypeOK
  <2>2. UNCHANGED <<mem, known, kdb, snaps, kfrom, kcut>> /\ kpc = "refresh"
        /\ kpc' # "set"
    BY <1>14 DEF RefreshFloatingRegion, itemK, windowK
  <2> DEFINE two == [known[kfrom] EXCEPT !.hash = mem[kfrom], !.snap = NoSnapshot]
  <2>3. two.snap = NoSnapshot
    BY <2>1, BytesChanged
  <2>4. ktodo' = Only(kfrom, known[kfrom]) \/ ktodo' = Only(kfrom, two)
    BY <1>14 DEF RefreshFloatingRegion
  <2> HIDE DEF two
  <2>5. DOMAIN ktodo' = {kfrom}
        /\ (ktodo'[kfrom] = known[kfrom] \/ ktodo'[kfrom].snap = NoSnapshot)
    BY <2>3, <2>4 DEF Only
  <2> QED BY <2>1, <2>2, <2>5 DEF BytesTell, Named, Fits, Renewed
<1>15. CASE UnloadRow
  BY <1>15, RowUnloaded DEF UnloadRow, BytesTell, Named, Fits, Renewed, itemK, workK, windowK,
          boundK
<1>16. CASE RemoveFloatingModule
  BY <1>16 DEF RemoveFloatingModule, BytesTell, Named, Fits, Renewed, itemK, workK, windowK,
          boundK
<1>17. CASE ClearStale
  BY <1>17, StaleCleared DEF ClearStale, BytesTell, Named, Fits, Renewed, itemK, workK, windowK,
          boundK
<1>18. CASE FailTask
  <2>1. CASE ktask = "pass"
    BY <1>18, <2>1, PassGivesUp DEF BytesTell, Named, Fits, Renewed
  <2>2. CASE ktask # "pass"
    BY <1>18, <2>2, IdlesTells DEF FailTask, BytesTell, Named, Fits, Renewed
  <2> QED BY <2>1, <2>2
<1>19. ASSUME NEW r \in Regions, NEW v \in 0..MaxBytes, Change(r, v)
      PROVE  BytesTell'
  BY <1>19 DEF Change, FloatingTypeOK, BytesTell, Named, Fits, Renewed, itemK, workK, windowK,
          boundK
<1>20. CASE StartSource
  BY <1>20 DEF StartSource, BytesTell, Named, Fits, Renewed, itemK, workK, windowK, boundK
<1>21. ASSUME NEW task \in {"one", "force"}, NEW r \in Regions, StartOne(task, r)
      PROVE  BytesTell'
  BY <1>21 DEF StartOne, BytesTell, Named, Fits, Renewed, itemK, workK, windowK, boundK
<1>22. CASE ReadSavedFlags
  BY <1>22 DEF ReadSavedFlags, BytesTell, Named, Fits, Renewed, itemK, workK, windowK, boundK
<1>23. CASE RestoreSavedFlags
  BY <1>23 DEF RestoreSavedFlags, BytesTell, Named, Fits, Renewed, itemK, workK, windowK, boundK
<1>24. CASE EndFloating
  BY <1>24, IdlesTells DEF EndFloating, Leave, BytesTell, Named, Fits, Renewed, itemK, workK,
          windowK, boundK
<1>25. CASE EndInUnloadRow
  <2>1. kdb'.record = kdb.record /\ kdb'.rows = kdb.rows /\ kdb'.done = kdb.done
        /\ kdb'.refs = {x \in kdb.refs : x.from # kfrom}
    BY <1>25, RefsCleared DEF EndInUnloadRow
  <2> QED BY <1>25, <2>1, IdlesTells DEF EndInUnloadRow, Leave, BytesTell, Named, Fits, Renewed
<1>26. CASE LoadSavedFloatingModules
  BY <1>26 DEF LoadSavedFloatingModules, BytesTell, Named, Fits, Renewed, itemK, workK, windowK,
          boundK
<1>27. CASE UNCHANGED flVars
  BY <1>27 DEF flVars, BytesTell, Named, Fits, Renewed, itemK, workK, windowK, boundK
<1> QED BY <1>1, <1>2, <1>3, <1>4, <1>5, <1>6, <1>7, <1>8, <1>9, <1>10, <1>11, <1>12, <1>13,
                <1>14, <1>15, <1>16, <1>17, <1>18, <1>19, <1>20, <1>21, <1>22, <1>23, <1>24,
                <1>25, <1>26, <1>27 DEF FloatingNext, FloatingStep

\* A step keeps that stale regions met a change.
LEMMA StepStale ==
  ASSUME FloatingTypeOK, WorkTells, BytesTell, StaleIsCut, FloatingTypeOK', WorkTells',
         [FloatingNext]_flVars
  PROVE  StaleIsCut'
<1>1. CASE StartPass
  BY <1>1 DEF StartPass, PendingFloating, StaleIsCut, Renewed, itemK, workK, windowK, boundK
<1>2. CASE PassNext
  BY <1>2 DEF PassNext, StaleIsCut, Renewed, itemK, workK, windowK, boundK
<1>3. CASE EndTask
  BY <1>3, IdlesTells DEF EndTask, StaleIsCut, Renewed, itemK, workK, windowK, boundK
<1>4. CASE Cancelled
  BY <1>4, IdlesTells DEF Cancelled, StaleIsCut, Renewed, itemK, workK, windowK, boundK
<1>5. CASE CollectFloatingRegions
  BY <1>5 DEF CollectFloatingRegions, StaleIsCut, Renewed, itemK, workK, windowK, boundK
<1>6. ASSUME NEW ok \in BOOLEAN, SaveFloatingSnapshot(ok)
      PROVE  StaleIsCut'
  BY <1>6, SnapshotSaved DEF SaveFloatingSnapshot, StaleIsCut, Renewed, itemK, workK, windowK,
          boundK
<1>7. CASE RegisterRange
  BY <1>7, RowRegistered DEF RegisterRange, StaleIsCut, Renewed, itemK, workK, windowK, boundK
<1>8. CASE InsertRecord
  BY <1>8, RecordInserted DEF InsertRecord, WorkTells, SavePcs, StaleIsCut, Renewed, itemK,
          workK, windowK, boundK
<1>9. CASE SetFloatingModule
  BY <1>9, ModuleSet DEF SetFloatingModule, WorkTells, SavePcs, StaleIsCut, Renewed, itemK,
          workK, windowK, boundK
<1>10. CASE ClearDone
  <2>1. CASE knew = {}
    BY <1>10, <2>1 DEF ClearDone, AfterDiscover, StaleIsCut, Renewed, itemK, workK, windowK, boundK
  <2>2. CASE knew # {}
    BY <1>10, <2>2, DoneCleared DEF ClearDone, StaleIsCut, Renewed, itemK, workK, windowK, boundK
  <2> QED BY <2>1, <2>2
<1>11. CASE ClearFloatingReferences
  BY <1>11, RefsCleared DEF ClearFloatingReferences, StaleIsCut, Renewed, itemK, workK, windowK,
          boundK
<1>12. CASE AnalyzeRange
  BY <1>12, RangeAnalyzed DEF AnalyzeRange, Only, StaleIsCut, Renewed, itemK, workK, windowK,
          boundK
<1>13. CASE SetAnalyzed
  <2>1. kfrom \in Regions /\ UpdateFlags(kfrom, {"analyzeDone"}, {})
    BY <1>13 DEF SetAnalyzed, WorkTells, OnePcs
  <2> QED BY <1>13, <2>1, AnalyzedSet
      DEF SetAnalyzed, StaleIsCut, Renewed, itemK, workK, windowK, boundK
<1>14. CASE RefreshFloatingRegion
  BY <1>14 DEF RefreshFloatingRegion, Only, StaleIsCut, Renewed, itemK, workK, windowK, boundK
<1>15. CASE UnloadRow
  BY <1>15, RowUnloaded DEF UnloadRow, StaleIsCut, Renewed, itemK, workK, windowK, boundK
<1>16. CASE RemoveFloatingModule
  BY <1>16 DEF RemoveFloatingModule, StaleIsCut, Renewed, itemK, workK, windowK, boundK
<1>17. CASE ClearStale
  BY <1>17, StaleCleared DEF ClearStale, StaleIsCut, Renewed, itemK, workK, windowK, boundK
<1>18. CASE FailTask
  <2>1. CASE ktask = "pass"
    BY <1>18, <2>1, PassGivesUp DEF StaleIsCut, Renewed
  <2>2. CASE ktask # "pass"
    BY <1>18, <2>2, IdlesTells DEF FailTask, StaleIsCut, Renewed
  <2> QED BY <2>1, <2>2
<1>19. ASSUME NEW r \in Regions, NEW v \in 0..MaxBytes, Change(r, v)
      PROVE  StaleIsCut'
  BY <1>19 DEF Change, StaleIsCut, Renewed, itemK, workK, windowK, boundK
<1>20. CASE StartSource
  BY <1>20 DEF StartSource, StaleIsCut, Renewed, itemK, workK, windowK, boundK
<1>21. ASSUME NEW task \in {"one", "force"}, NEW r \in Regions, StartOne(task, r)
      PROVE  StaleIsCut'
  BY <1>21 DEF StartOne, StaleIsCut, Renewed, itemK, workK, windowK, boundK
<1>22. CASE ReadSavedFlags
  BY <1>22 DEF ReadSavedFlags, StaleIsCut, Renewed, itemK, workK, windowK, boundK
<1>23. CASE RestoreSavedFlags
  BY <1>23 DEF RestoreSavedFlags, StaleIsCut, Renewed, itemK, workK, windowK, boundK
<1>24. CASE EndFloating
  BY <1>24, IdlesTells DEF EndFloating, Leave, StaleIsCut, Renewed, itemK, workK, windowK,
          boundK
<1>25. CASE EndInUnloadRow
  <2>1. kdb'.record = kdb.record /\ kdb'.rows = kdb.rows /\ kdb'.done = kdb.done
        /\ kdb'.refs = {x \in kdb.refs : x.from # kfrom}
    BY <1>25, RefsCleared DEF EndInUnloadRow
  <2> QED BY <1>25, <2>1, IdlesTells DEF EndInUnloadRow, Leave, StaleIsCut, Renewed
<1>26. CASE LoadSavedFloatingModules
  BY <1>26 DEF LoadSavedFloatingModules, BytesTell, Fits, IsUnchanged, WorkTells, StaleIsCut,
          Renewed, itemK, workK, windowK, boundK
<1>27. CASE UNCHANGED flVars
  BY <1>27 DEF flVars, StaleIsCut, Renewed, itemK, workK, windowK, boundK
<1> QED BY <1>1, <1>2, <1>3, <1>4, <1>5, <1>6, <1>7, <1>8, <1>9, <1>10, <1>11, <1>12, <1>13,
                <1>14, <1>15, <1>16, <1>17, <1>18, <1>19, <1>20, <1>21, <1>22, <1>23, <1>24,
                <1>25, <1>26, <1>27 DEF FloatingNext, FloatingStep

------------------------------------------------------------------------------
(* Records in memory, on the disk and to be saved.                           *)

\* A step keeps a row for every record.
LEMMA StepRows ==
  ASSUME FloatingTypeOK, WorkTells, StaleIsCut, RowsFirst, FloatingTypeOK',
         [FloatingNext]_flVars
  PROVE  RowsFirst'
<1>1. CASE StartPass
  BY <1>1 DEF StartPass, PendingFloating, RowsFirst, itemK, workK, windowK, boundK
<1>2. CASE PassNext
  BY <1>2 DEF PassNext, RowsFirst, itemK, workK, windowK, boundK
<1>3. CASE EndTask
  BY <1>3, IdlesTells DEF EndTask, RowsFirst, itemK, workK, windowK, boundK
<1>4. CASE Cancelled
  BY <1>4, IdlesTells DEF Cancelled, RowsFirst, itemK, workK, windowK, boundK
<1>5. CASE CollectFloatingRegions
  BY <1>5 DEF CollectFloatingRegions, RowsFirst, itemK, workK, windowK, boundK
<1>6. ASSUME NEW ok \in BOOLEAN, SaveFloatingSnapshot(ok)
      PROVE  RowsFirst'
  BY <1>6, SnapshotSaved DEF SaveFloatingSnapshot, WorkTells, RowsFirst, itemK, workK, windowK,
          boundK
<1>7. CASE RegisterRange
  BY <1>7, RowRegistered DEF RegisterRange, Region, RowsFirst, itemK, workK, windowK, boundK
<1>8. CASE InsertRecord
  BY <1>8, RecordInserted DEF InsertRecord, RowsFirst, itemK, workK, windowK, boundK
<1>9. CASE SetFloatingModule
  BY <1>9, ModuleSet DEF SetFloatingModule, RowsFirst, itemK, workK, windowK, boundK
<1>10. CASE ClearDone
  <2>1. CASE knew = {}
    BY <1>10, <2>1 DEF ClearDone, AfterDiscover, RowsFirst, itemK, workK, windowK, boundK
  <2>2. CASE knew # {}
    BY <1>10, <2>2, DoneCleared DEF ClearDone, RowsFirst, itemK, workK, windowK, boundK
  <2> QED BY <2>1, <2>2
<1>11. CASE ClearFloatingReferences
  BY <1>11, RefsCleared DEF ClearFloatingReferences, RowsFirst, itemK, workK, windowK, boundK
<1>12. CASE AnalyzeRange
  BY <1>12, RangeAnalyzed DEF AnalyzeRange, Only, RowsFirst, itemK, workK, windowK, boundK
<1>13. CASE SetAnalyzed
  <2>1. kfrom \in Regions /\ UpdateFlags(kfrom, {"analyzeDone"}, {})
    BY <1>13 DEF SetAnalyzed, WorkTells, OnePcs
  <2> QED BY <1>13, <2>1, AnalyzedSet DEF SetAnalyzed, RowsFirst, itemK, workK, windowK, boundK
<1>14. CASE RefreshFloatingRegion
  BY <1>14 DEF RefreshFloatingRegion, Only, RowsFirst, itemK, workK, windowK, boundK
<1>15. CASE UnloadRow
  BY <1>15, RowUnloaded DEF UnloadRow, RowsFirst, itemK, workK, windowK, boundK
<1>16. CASE RemoveFloatingModule
  BY <1>16 DEF RemoveFloatingModule, RowsFirst, itemK, workK, windowK, boundK
<1>17. CASE ClearStale
  BY <1>17, StaleCleared DEF ClearStale, RowsFirst, itemK, workK, windowK, boundK
<1>18. CASE FailTask
  <2>1. CASE ktask = "pass"
    BY <1>18, <2>1, PassGivesUp DEF RowsFirst
  <2>2. CASE ktask # "pass"
    BY <1>18, <2>2, IdlesTells DEF FailTask, RowsFirst
  <2> QED BY <2>1, <2>2
<1>19. ASSUME NEW r \in Regions, NEW v \in 0..MaxBytes, Change(r, v)
      PROVE  RowsFirst'
  BY <1>19 DEF Change, Region, RowsFirst, itemK, workK, windowK, boundK
<1>20. CASE StartSource
  BY <1>20 DEF StartSource, RowsFirst, itemK, workK, windowK, boundK
<1>21. ASSUME NEW task \in {"one", "force"}, NEW r \in Regions, StartOne(task, r)
      PROVE  RowsFirst'
  BY <1>21 DEF StartOne, RowsFirst, itemK, workK, windowK, boundK
<1>22. CASE ReadSavedFlags
  BY <1>22 DEF ReadSavedFlags, Region, RowsFirst, itemK, workK, windowK, boundK
<1>23. CASE RestoreSavedFlags
  BY <1>23 DEF RestoreSavedFlags, Region, RowsFirst, itemK, workK, windowK, boundK
<1>24. CASE EndFloating
  BY <1>24, IdlesTells DEF EndFloating, Leave, RowsFirst, itemK, workK, windowK, boundK
<1>25. CASE EndInUnloadRow
  <2>1. kdb'.record = kdb.record /\ kdb'.rows = kdb.rows /\ kdb'.done = kdb.done
        /\ kdb'.refs = {x \in kdb.refs : x.from # kfrom}
    BY <1>25, RefsCleared DEF EndInUnloadRow
  <2> QED BY <1>25, <2>1, IdlesTells DEF EndInUnloadRow, Leave, RowsFirst
<1>26. CASE LoadSavedFloatingModules
  BY <1>26 DEF LoadSavedFloatingModules, Region, RowsFirst, itemK, workK, windowK, boundK
<1>27. CASE UNCHANGED flVars
  BY <1>27 DEF flVars, Region, RowsFirst, itemK, workK, windowK, boundK
<1> QED BY <1>1, <1>2, <1>3, <1>4, <1>5, <1>6, <1>7, <1>8, <1>9, <1>10, <1>11, <1>12, <1>13,
                <1>14, <1>15, <1>16, <1>17, <1>18, <1>19, <1>20, <1>21, <1>22, <1>23, <1>24,
                <1>25, <1>26, <1>27 DEF FloatingNext, FloatingStep

\* A step keeps the records on the disk those in memory.
LEMMA StepRecords ==
  ASSUME FloatingTypeOK, WorkTells, StaleIsCut, RecordIsKnown, FloatingTypeOK', WorkTells',
         [FloatingNext]_flVars
  PROVE  RecordIsKnown'
<1>1. CASE StartPass
  BY <1>1 DEF StartPass, PendingFloating, RecordIsKnown, itemK, workK, windowK, boundK
<1>2. CASE PassNext
  BY <1>2 DEF PassNext, RecordIsKnown, itemK, workK, windowK, boundK
<1>3. CASE EndTask
  BY <1>3, IdlesTells DEF EndTask, RecordIsKnown, itemK, workK, windowK, boundK
<1>4. CASE Cancelled
  BY <1>4, IdlesTells DEF Cancelled, RecordIsKnown, itemK, workK, windowK, boundK
<1>5. CASE CollectFloatingRegions
  BY <1>5 DEF CollectFloatingRegions, RecordIsKnown, itemK, workK, windowK, boundK
<1>6. ASSUME NEW ok \in BOOLEAN, SaveFloatingSnapshot(ok)
      PROVE  RecordIsKnown'
  BY <1>6, SnapshotSaved DEF SaveFloatingSnapshot, RecordIsKnown, itemK, workK, windowK, boundK
<1>7. CASE RegisterRange
  BY <1>7, RowRegistered DEF RegisterRange, RecordIsKnown, itemK, workK, windowK, boundK
<1>8. CASE InsertRecord
  BY <1>8, RecordInserted DEF InsertRecord, Region, RecordIsKnown, itemK, workK, windowK, boundK
<1>9. CASE SetFloatingModule
  BY <1>9, ModuleSet DEF SetFloatingModule, RecordIsKnown, itemK, workK, windowK, boundK
<1>10. CASE ClearDone
  <2>1. CASE knew = {}
    BY <1>10, <2>1 DEF ClearDone, AfterDiscover, RecordIsKnown, itemK, workK, windowK, boundK
  <2>2. CASE knew # {}
    BY <1>10, <2>2, DoneCleared DEF ClearDone, RecordIsKnown, itemK, workK, windowK, boundK
  <2> QED BY <2>1, <2>2
<1>11. CASE ClearFloatingReferences
  BY <1>11, RefsCleared DEF ClearFloatingReferences, RecordIsKnown, itemK, workK, windowK,
          boundK
<1>12. CASE AnalyzeRange
  BY <1>12, RangeAnalyzed DEF AnalyzeRange, Only, RecordIsKnown, itemK, workK, windowK, boundK
<1>13. CASE SetAnalyzed
  <2>1. kfrom \in Regions /\ UpdateFlags(kfrom, {"analyzeDone"}, {})
    BY <1>13 DEF SetAnalyzed, WorkTells, OnePcs
  <2> QED BY <1>13, <2>1, AnalyzedSet DEF SetAnalyzed, RecordIsKnown, itemK, workK, windowK, boundK
<1>14. CASE RefreshFloatingRegion
  BY <1>14 DEF RefreshFloatingRegion, Only, RecordIsKnown, itemK, workK, windowK, boundK
<1>15. CASE UnloadRow
  BY <1>15, RowUnloaded DEF UnloadRow, StaleIsCut, WorkTells, RecordIsKnown, itemK, workK,
          windowK, boundK
<1>16. CASE RemoveFloatingModule
  <2>1. kfrom \in kcut /\ UNCHANGED <<kdb, kcut, kopen>> /\ kpc = "remove" /\ kpc' = "end"
    BY <1>16 DEF RemoveFloatingModule, StaleIsCut, WorkTells, windowK
  <2>2. \A r \in Regions : r # kfrom => known'[r] = known[r]
    BY <1>16 DEF RemoveFloatingModule, FloatingTypeOK
  <2> QED BY <2>1, <2>2 DEF RecordIsKnown
<1>17. CASE ClearStale
  BY <1>17, StaleCleared DEF ClearStale, RecordIsKnown, itemK, workK, windowK, boundK
<1>18. CASE FailTask
  <2>1. CASE ktask = "pass"
    <3>1. /\ kpc \notin {"set"} /\ kpc' \notin {"set"} /\ kdb'.record = kdb.record
          /\ UNCHANGED <<known, kopen>> /\ kcut \subseteq kcut'
      BY <1>18, <2>1, PassGivesUp DEF FailTask
    <3> QED BY <3>1 DEF RecordIsKnown
  <2>2. CASE ktask # "pass"
    BY <1>18, <2>2, IdlesTells DEF FailTask, RecordIsKnown
  <2> QED BY <2>1, <2>2
<1>19. ASSUME NEW r \in Regions, NEW v \in 0..MaxBytes, Change(r, v)
      PROVE  RecordIsKnown'
  BY <1>19 DEF Change, Region, RecordIsKnown, itemK, workK, windowK, boundK
<1>20. CASE StartSource
  BY <1>20 DEF StartSource, RecordIsKnown, itemK, workK, windowK, boundK
<1>21. ASSUME NEW task \in {"one", "force"}, NEW r \in Regions, StartOne(task, r)
      PROVE  RecordIsKnown'
  BY <1>21 DEF StartOne, RecordIsKnown, itemK, workK, windowK, boundK
<1>22. CASE ReadSavedFlags
  BY <1>22 DEF ReadSavedFlags, Region, RecordIsKnown, itemK, workK, windowK, boundK
<1>23. CASE RestoreSavedFlags
  BY <1>23 DEF RestoreSavedFlags, Region, RecordIsKnown, itemK, workK, windowK, boundK
<1>24. CASE EndFloating
  BY <1>24, IdlesTells DEF EndFloating, Leave, RecordIsKnown, itemK, workK, windowK, boundK
<1>25. CASE EndInUnloadRow
  <2>1. kdb'.record = kdb.record /\ kdb'.rows = kdb.rows /\ kdb'.done = kdb.done
        /\ kdb'.refs = {x \in kdb.refs : x.from # kfrom}
    BY <1>25, RefsCleared DEF EndInUnloadRow
  <2> QED BY <1>25, <2>1, IdlesTells DEF EndInUnloadRow, Leave, RecordIsKnown
<1>26. CASE LoadSavedFloatingModules
  BY <1>26 DEF LoadSavedFloatingModules, WorkTells, RecordIsKnown, itemK, workK, windowK, boundK
<1>27. CASE UNCHANGED flVars
  BY <1>27 DEF flVars, Region, RecordIsKnown, itemK, workK, windowK, boundK
<1> QED BY <1>1, <1>2, <1>3, <1>4, <1>5, <1>6, <1>7, <1>8, <1>9, <1>10, <1>11, <1>12, <1>13,
                <1>14, <1>15, <1>16, <1>17, <1>18, <1>19, <1>20, <1>21, <1>22, <1>23, <1>24,
                <1>25, <1>26, <1>27 DEF FloatingNext, FloatingStep

\* A step keeps the records to save in line with those in memory.
LEMMA StepTodo ==
  ASSUME FloatingTypeOK, WorkTells, TodoTells, FloatingTypeOK', WorkTells',
         [FloatingNext]_flVars
  PROVE  TodoTells'
<1>1. CASE StartPass
  BY <1>1 DEF StartPass, PendingFloating, TodoTells, SavePcs, itemK, workK, windowK, boundK
<1>2. CASE PassNext
  BY <1>2 DEF PassNext, TodoTells, SavePcs, itemK, workK, windowK, boundK
<1>3. CASE EndTask
  BY <1>3, IdlesTells DEF EndTask, TodoTells, SavePcs, itemK, workK, windowK, boundK
<1>4. CASE Cancelled
  BY <1>4, IdlesTells DEF Cancelled, TodoTells, SavePcs, itemK, workK, windowK, boundK
<1>5. CASE CollectFloatingRegions
  BY <1>5, ReferredTells DEF CollectFloatingRegions, NewEntry, TodoTells, SavePcs, itemK, workK,
          windowK, boundK
<1>6. ASSUME NEW ok \in BOOLEAN, SaveFloatingSnapshot(ok)
      PROVE  TodoTells'
  <2>1. \A r \in DOMAIN ktodo : EntriesOf(ktodo'[r]) = EntriesOf(ktodo[r])
    BY <1>6, SnapshotSaved DEF EntriesOf
  <2>2. UNCHANGED <<known, kphase, kfrom, knew>> /\ kpc = "snap"
    BY <1>6 DEF SaveFloatingSnapshot, itemK
  <2> QED BY <1>6, <2>1, <2>2, SnapshotSaved DEF TodoTells, SavePcs, WorkTells
<1>7. CASE RegisterRange
  BY <1>7, RowRegistered DEF RegisterRange, TodoTells, SavePcs, itemK, workK, windowK, boundK
<1>8. CASE InsertRecord
  BY <1>8, RecordInserted DEF InsertRecord, TodoTells, SavePcs, itemK, workK, windowK, boundK
<1>9. CASE SetFloatingModule
  BY <1>9, ModuleSet DEF SetFloatingModule, TodoTells, SavePcs, itemK, workK, windowK, boundK
<1>10. CASE ClearDone
  <2>1. CASE knew = {}
    BY <1>10, <2>1 DEF ClearDone, AfterDiscover, TodoTells, SavePcs, itemK, workK, windowK, boundK
  <2>2. CASE knew # {}
    BY <1>10, <2>2, DoneCleared DEF ClearDone, TodoTells, SavePcs, itemK, workK, windowK, boundK
  <2> QED BY <2>1, <2>2
<1>11. CASE ClearFloatingReferences
  BY <1>11, RefsCleared DEF ClearFloatingReferences, TodoTells, SavePcs, itemK, workK, windowK,
          boundK
<1>12. CASE AnalyzeRange
  BY <1>12, RangeAnalyzed DEF AnalyzeRange, Only, TodoTells, SavePcs, itemK, workK, windowK,
          boundK
<1>13. CASE SetAnalyzed
  <2>1. kfrom \in Regions /\ UpdateFlags(kfrom, {"analyzeDone"}, {})
    BY <1>13 DEF SetAnalyzed, WorkTells, OnePcs
  <2> QED BY <1>13, <2>1, AnalyzedSet
      DEF SetAnalyzed, TodoTells, SavePcs, itemK, workK, windowK, boundK
<1>14. CASE RefreshFloatingRegion
  <2>1. known[kfrom] \in RegionInfos /\ mem[kfrom] \in 0..MaxBytes
    BY <1>14 DEF RefreshFloatingRegion, WorkTells, OnePcs, FloatingTypeOK
  <2> DEFINE two == [known[kfrom] EXCEPT !.hash = mem[kfrom], !.snap = NoSnapshot]
  <2>2. EntriesOf(two) = EntriesOf(known[kfrom])
    BY <2>1, BytesChanged DEF EntriesOf
  <2> HIDE DEF two
  <2>3. \/ kphase' = "removed" /\ kpc' = "unload"
        \/ kphase' = "refreshed" /\ ktodo' = Only(kfrom, two)
    BY <1>14 DEF RefreshFloatingRegion, two
  <2>4. UNCHANGED <<known, kfrom>>
    BY <1>14 DEF RefreshFloatingRegion, itemK
  <2> QED BY <2>2, <2>3, <2>4 DEF TodoTells, SavePcs, Only
<1>15. CASE UnloadRow
  BY <1>15, RowUnloaded DEF UnloadRow, WorkTells, TodoTells, SavePcs, itemK, workK, windowK,
          boundK
<1>16. CASE RemoveFloatingModule
  BY <1>16 DEF RemoveFloatingModule, TodoTells, SavePcs, itemK, workK, windowK, boundK
<1>17. CASE ClearStale
  BY <1>17, StaleCleared DEF ClearStale, TodoTells, SavePcs, itemK, workK, windowK, boundK
<1>18. CASE FailTask
  <2>1. CASE ktask = "pass"
    BY <1>18, <2>1, PassGivesUp DEF TodoTells, SavePcs
  <2>2. CASE ktask # "pass"
    BY <1>18, <2>2, IdlesTells DEF FailTask, TodoTells, SavePcs
  <2> QED BY <2>1, <2>2
<1>19. ASSUME NEW r \in Regions, NEW v \in 0..MaxBytes, Change(r, v)
      PROVE  TodoTells'
  BY <1>19 DEF Change, TodoTells, SavePcs, itemK, workK, windowK, boundK
<1>20. CASE StartSource
  BY <1>20 DEF StartSource, TodoTells, SavePcs, itemK, workK, windowK, boundK
<1>21. ASSUME NEW task \in {"one", "force"}, NEW r \in Regions, StartOne(task, r)
      PROVE  TodoTells'
  BY <1>21 DEF StartOne, TodoTells, SavePcs, itemK, workK, windowK, boundK
<1>22. CASE ReadSavedFlags
  BY <1>22 DEF ReadSavedFlags, TodoTells, SavePcs, itemK, workK, windowK, boundK
<1>23. CASE RestoreSavedFlags
  BY <1>23 DEF RestoreSavedFlags, TodoTells, SavePcs, itemK, workK, windowK, boundK
<1>24. CASE EndFloating
  BY <1>24, IdlesTells DEF EndFloating, Leave, TodoTells, SavePcs, itemK, workK, windowK, boundK
<1>25. CASE EndInUnloadRow
  <2>1. kdb'.record = kdb.record /\ kdb'.rows = kdb.rows /\ kdb'.done = kdb.done
        /\ kdb'.refs = {x \in kdb.refs : x.from # kfrom}
    BY <1>25, RefsCleared DEF EndInUnloadRow
  <2> QED BY <1>25, <2>1, IdlesTells DEF EndInUnloadRow, Leave, TodoTells, SavePcs
<1>26. CASE LoadSavedFloatingModules
  BY <1>26 DEF LoadSavedFloatingModules, WorkTells, TodoTells, SavePcs, itemK, workK, windowK,
          boundK
<1>27. CASE UNCHANGED flVars
  BY <1>27 DEF flVars, TodoTells, SavePcs, itemK, workK, windowK, boundK
<1> QED BY <1>1, <1>2, <1>3, <1>4, <1>5, <1>6, <1>7, <1>8, <1>9, <1>10, <1>11, <1>12, <1>13,
                <1>14, <1>15, <1>16, <1>17, <1>18, <1>19, <1>20, <1>21, <1>22, <1>23, <1>24,
                <1>25, <1>26, <1>27 DEF FloatingNext, FloatingStep

------------------------------------------------------------------------------
(* References and the flag on the disk.                                      *)

\* A step keeps the references of a region its own.
LEMMA StepRefs ==
  ASSUME FloatingTypeOK, WorkTells, BytesTell, StaleIsCut, RecordIsKnown, TodoTells, RefsAreOwn,
         Unloaded, FloatingTypeOK', [FloatingNext]_flVars
  PROVE  RefsAreOwn'
<1>1. CASE StartPass
  BY <1>1 DEF StartPass, PendingFloating, RefsAreOwn, RefsOf, itemK, workK, windowK, boundK
<1>2. CASE PassNext
  BY <1>2 DEF PassNext, RefsAreOwn, RefsOf, itemK, workK, windowK, boundK
<1>3. CASE EndTask
  BY <1>3, IdlesTells DEF EndTask, RefsAreOwn, RefsOf, itemK, workK, windowK, boundK
<1>4. CASE Cancelled
  BY <1>4, IdlesTells DEF Cancelled, RefsAreOwn, RefsOf, itemK, workK, windowK, boundK
<1>5. CASE CollectFloatingRegions
  BY <1>5 DEF CollectFloatingRegions, RefsAreOwn, RefsOf, itemK, workK, windowK, boundK
<1>6. ASSUME NEW ok \in BOOLEAN, SaveFloatingSnapshot(ok)
      PROVE  RefsAreOwn'
  BY <1>6, SnapshotSaved DEF SaveFloatingSnapshot, RefsAreOwn, RefsOf, itemK, workK, windowK,
          boundK
<1>7. CASE RegisterRange
  BY <1>7, RowRegistered DEF RegisterRange, RefsAreOwn, RefsOf, itemK, workK, windowK, boundK
<1>8. CASE InsertRecord
  <2> DEFINE r == Region
             info == ktodo[Region]
  <2>1. /\ r \in DOMAIN ktodo /\ r \in Regions /\ info \in RegionInfos /\ info # NoRegion
        /\ kdb'.refs = kdb.refs /\ kcut \ {r} \subseteq kcut'
        /\ \A q \in Regions : kdb'.record[q] = IF q = r THEN info ELSE kdb.record[q]
        /\ kpc = "record" /\ kopen
    BY <1>8, RecordInserted, FloatingAssumption DEF InsertRecord, WorkTells
  <2>2. ASSUME r \notin kcut' PROVE RefsOf(r) \subseteq CodeIn(r, info)
    <3>1. CASE kphase = "refreshed"
      <4>1. r = kfrom
        BY <2>1, <3>1 DEF WorkTells, SavePcs
      <4> QED BY <2>1, <3>1, <4>1 DEF Unloaded
    <3>2. CASE kphase \in {"found", "analyzed"}
      <4>1. r \notin kcut
        BY <1>8, <2>2, <3>2 DEF InsertRecord
      <4>2. kdb.record[r] = known[r]
        BY <2>1, <4>1 DEF RecordIsKnown
      <4>3. CASE known[r] = NoRegion
        BY <2>1, <4>1, <4>2, <4>3 DEF RefsAreOwn
      <4>4. CASE known[r] # NoRegion
        <5>1. known[r] \in RegionInfos /\ info.hash = known[r].hash
              /\ EntriesOf(known[r]) \subseteq EntriesOf(info)
          BY <2>1, <3>2, <4>4 DEF FloatingTypeOK, TodoTells, WorkTells, SavePcs
        <5>2. known[r].hash \in 0..MaxBytes
          BY <5>1 DEF RegionInfos
        <5>3. CodeIn(r, known[r]) \subseteq CodeIn(r, info)
          BY <2>1, <5>1, <5>2, CodeTells, EntriesIn DEF CodeIn
        <5> QED BY <2>1, <4>1, <4>2, <4>4, <5>3 DEF RefsAreOwn
      <4> QED BY <4>3, <4>4
    <3> QED BY <2>1, <3>1, <3>2 DEF FloatingTypeOK, WorkTells, SavePcs
  <2> HIDE DEF r, info
  <2> QED BY <2>1, <2>2 DEF RefsAreOwn, RefsOf
<1>9. CASE SetFloatingModule
  BY <1>9, ModuleSet DEF SetFloatingModule, RefsAreOwn, RefsOf, itemK, workK, windowK, boundK
<1>10. CASE ClearDone
  <2>1. CASE knew = {}
    BY <1>10, <2>1 DEF ClearDone, AfterDiscover, RefsAreOwn, RefsOf, itemK, workK, windowK, boundK
  <2>2. CASE knew # {}
    BY <1>10, <2>2, DoneCleared DEF ClearDone, RefsAreOwn, RefsOf, itemK, workK, windowK, boundK
  <2> QED BY <2>1, <2>2
<1>11. CASE ClearFloatingReferences
  BY <1>11, RefsCleared DEF ClearFloatingReferences, RefsAreOwn, RefsOf, itemK, workK, windowK,
          boundK
<1>12. CASE AnalyzeRange
  <2> DEFINE code == CodeOf(kfrom, mem[kfrom], EntriesOf(known[kfrom]))
  <2>1. /\ kfrom \in Regions /\ known[kfrom] \in RegionInfos
        /\ code \subseteq {x \in RefRows : x.from = kfrom}
        /\ kdb'.refs = kdb.refs \cup code /\ kdb'.record = kdb.record
        /\ kcut' = kcut /\ kpc = "analyze" /\ kopen
    BY <1>12, RangeAnalyzed DEF AnalyzeRange, windowK, WorkTells
  <2>2. ASSUME kfrom \notin kcut
        PROVE  kdb.record[kfrom] # NoRegion /\ code = CodeIn(kfrom, kdb.record[kfrom])
    <3>1. kdb.record[kfrom] = known[kfrom] /\ known[kfrom] # NoRegion
      BY <2>1, <2>2, FloatingAssumption DEF RecordIsKnown
    <3>2. known[kfrom].hash = mem[kfrom]
      BY <2>1, <2>2, <3>1 DEF BytesTell, Fits, Renewed
    <3> QED BY <3>1, <3>2 DEF CodeIn
  <2> HIDE DEF code
  <2> QED BY <2>1, <2>2 DEF RefsAreOwn, RefsOf
<1>13. CASE SetAnalyzed
  <2>1. kfrom \in Regions /\ UpdateFlags(kfrom, {"analyzeDone"}, {})
    BY <1>13 DEF SetAnalyzed, WorkTells, OnePcs
  <2> QED BY <1>13, <2>1, AnalyzedSet
      DEF SetAnalyzed, RefsAreOwn, RefsOf, itemK, workK, windowK, boundK
<1>14. CASE RefreshFloatingRegion
  BY <1>14 DEF RefreshFloatingRegion, Only, RefsAreOwn, RefsOf, itemK, workK, windowK, boundK
<1>15. CASE UnloadRow
  BY <1>15, RowUnloaded DEF UnloadRow, RefsAreOwn, RefsOf, itemK, workK, windowK, boundK
<1>16. CASE RemoveFloatingModule
  BY <1>16 DEF RemoveFloatingModule, RefsAreOwn, RefsOf, itemK, workK, windowK, boundK
<1>17. CASE ClearStale
  BY <1>17, StaleCleared DEF ClearStale, RefsAreOwn, RefsOf, itemK, workK, windowK, boundK
<1>18. CASE FailTask
  <2>1. CASE ktask = "pass"
    BY <1>18, <2>1, PassGivesUp DEF RefsAreOwn, RefsOf
  <2>2. CASE ktask # "pass"
    BY <1>18, <2>2, IdlesTells DEF FailTask, RefsAreOwn, RefsOf
  <2> QED BY <2>1, <2>2
<1>19. ASSUME NEW r \in Regions, NEW v \in 0..MaxBytes, Change(r, v)
      PROVE  RefsAreOwn'
  BY <1>19 DEF Change, RefsAreOwn, RefsOf, itemK, workK, windowK, boundK
<1>20. CASE StartSource
  BY <1>20 DEF StartSource, RefsAreOwn, RefsOf, itemK, workK, windowK, boundK
<1>21. ASSUME NEW task \in {"one", "force"}, NEW r \in Regions, StartOne(task, r)
      PROVE  RefsAreOwn'
  BY <1>21 DEF StartOne, RefsAreOwn, RefsOf, itemK, workK, windowK, boundK
<1>22. CASE ReadSavedFlags
  BY <1>22 DEF ReadSavedFlags, RefsAreOwn, RefsOf, itemK, workK, windowK, boundK
<1>23. CASE RestoreSavedFlags
  BY <1>23 DEF RestoreSavedFlags, RefsAreOwn, RefsOf, itemK, workK, windowK, boundK
<1>24. CASE EndFloating
  BY <1>24, IdlesTells DEF EndFloating, Leave, RefsAreOwn, RefsOf, itemK, workK, windowK, boundK
<1>25. CASE EndInUnloadRow
  <2>1. kdb'.record = kdb.record /\ kdb'.rows = kdb.rows /\ kdb'.done = kdb.done
        /\ kdb'.refs = {x \in kdb.refs : x.from # kfrom}
    BY <1>25, RefsCleared DEF EndInUnloadRow
  <2> QED BY <1>25, <2>1, IdlesTells DEF EndInUnloadRow, Leave, RefsAreOwn, RefsOf
<1>26. CASE LoadSavedFloatingModules
  BY <1>26 DEF LoadSavedFloatingModules, RefsAreOwn, RefsOf, itemK, workK, windowK, boundK
<1>27. CASE UNCHANGED flVars
  BY <1>27 DEF flVars, RefsAreOwn, RefsOf, itemK, workK, windowK, boundK
<1> QED BY <1>1, <1>2, <1>3, <1>4, <1>5, <1>6, <1>7, <1>8, <1>9, <1>10, <1>11, <1>12, <1>13,
                <1>14, <1>15, <1>16, <1>17, <1>18, <1>19, <1>20, <1>21, <1>22, <1>23, <1>24,
                <1>25, <1>26, <1>27 DEF FloatingNext, FloatingStep

\* A step leaves nothing of a row that was unloaded.
LEMMA StepUnloaded ==
  ASSUME FloatingTypeOK, WorkTells, Unloaded, FloatingTypeOK', WorkTells', [FloatingNext]_flVars
  PROVE  Unloaded'
<1>1. CASE StartPass
  BY <1>1 DEF StartPass, PendingFloating, Unloaded, RefsOf, itemK, workK, windowK, boundK
<1>2. CASE PassNext
  BY <1>2 DEF PassNext, Unloaded, RefsOf, itemK, workK, windowK, boundK
<1>3. CASE EndTask
  BY <1>3, IdlesTells DEF EndTask, Unloaded, RefsOf, itemK, workK, windowK, boundK
<1>4. CASE Cancelled
  BY <1>4, IdlesTells DEF Cancelled, Unloaded, RefsOf, itemK, workK, windowK, boundK
<1>5. CASE CollectFloatingRegions
  BY <1>5 DEF CollectFloatingRegions, Unloaded, RefsOf, itemK, workK, windowK, boundK
<1>6. ASSUME NEW ok \in BOOLEAN, SaveFloatingSnapshot(ok)
      PROVE  Unloaded'
  BY <1>6, SnapshotSaved DEF SaveFloatingSnapshot, Unloaded, RefsOf, itemK, workK, windowK,
          boundK
<1>7. CASE RegisterRange
  BY <1>7, RowRegistered DEF RegisterRange, WorkTells, Unloaded, RefsOf, itemK, workK, windowK,
          boundK
<1>8. CASE InsertRecord
  BY <1>8, RecordInserted DEF InsertRecord, WorkTells, Unloaded, RefsOf, itemK, workK, windowK,
          boundK
<1>9. CASE SetFloatingModule
  BY <1>9, ModuleSet DEF SetFloatingModule, Unloaded, RefsOf, itemK, workK, windowK, boundK
<1>10. CASE ClearDone
  <2>1. CASE knew = {}
    BY <1>10, <2>1 DEF ClearDone, AfterDiscover, Unloaded, RefsOf, itemK, workK, windowK, boundK
  <2>2. CASE knew # {}
    BY <1>10, <2>2, DoneCleared DEF ClearDone, Unloaded, RefsOf, itemK, workK, windowK, boundK
  <2> QED BY <2>1, <2>2
<1>11. CASE ClearFloatingReferences
  BY <1>11, RefsCleared DEF ClearFloatingReferences, Unloaded, RefsOf, itemK, workK, windowK,
          boundK
<1>12. CASE AnalyzeRange
  BY <1>12, RangeAnalyzed DEF AnalyzeRange, Only, Unloaded, RefsOf, itemK, workK, windowK,
          boundK
<1>13. CASE SetAnalyzed
  <2>1. kfrom \in Regions /\ UpdateFlags(kfrom, {"analyzeDone"}, {})
    BY <1>13 DEF SetAnalyzed, WorkTells, OnePcs
  <2> QED BY <1>13, <2>1, AnalyzedSet
      DEF SetAnalyzed, Unloaded, RefsOf, itemK, workK, windowK, boundK
<1>14. CASE RefreshFloatingRegion
  BY <1>14 DEF RefreshFloatingRegion, Only, Unloaded, RefsOf, itemK, workK, windowK, boundK
<1>15. CASE UnloadRow
  BY <1>15, RowUnloaded DEF UnloadRow, WorkTells, Unloaded, RefsOf, itemK, workK, windowK,
          boundK
<1>16. CASE RemoveFloatingModule
  BY <1>16 DEF RemoveFloatingModule, Unloaded, RefsOf, itemK, workK, windowK, boundK
<1>17. CASE ClearStale
  BY <1>17, StaleCleared DEF ClearStale, Unloaded, RefsOf, itemK, workK, windowK, boundK
<1>18. CASE FailTask
  <2>1. CASE ktask = "pass"
    BY <1>18, <2>1, PassGivesUp DEF Unloaded, RefsOf
  <2>2. CASE ktask # "pass"
    BY <1>18, <2>2, IdlesTells DEF FailTask, Unloaded, RefsOf
  <2> QED BY <2>1, <2>2
<1>19. ASSUME NEW r \in Regions, NEW v \in 0..MaxBytes, Change(r, v)
      PROVE  Unloaded'
  BY <1>19 DEF Change, Unloaded, RefsOf, itemK, workK, windowK, boundK
<1>20. CASE StartSource
  BY <1>20 DEF StartSource, Unloaded, RefsOf, itemK, workK, windowK, boundK
<1>21. ASSUME NEW task \in {"one", "force"}, NEW r \in Regions, StartOne(task, r)
      PROVE  Unloaded'
  BY <1>21 DEF StartOne, Unloaded, RefsOf, itemK, workK, windowK, boundK
<1>22. CASE ReadSavedFlags
  BY <1>22 DEF ReadSavedFlags, Unloaded, RefsOf, itemK, workK, windowK, boundK
<1>23. CASE RestoreSavedFlags
  BY <1>23 DEF RestoreSavedFlags, Unloaded, RefsOf, itemK, workK, windowK, boundK
<1>24. CASE EndFloating
  BY <1>24, IdlesTells DEF EndFloating, Leave, Unloaded, RefsOf, itemK, workK, windowK, boundK
<1>25. CASE EndInUnloadRow
  <2>1. kdb'.record = kdb.record /\ kdb'.rows = kdb.rows /\ kdb'.done = kdb.done
        /\ kdb'.refs = {x \in kdb.refs : x.from # kfrom}
    BY <1>25, RefsCleared DEF EndInUnloadRow
  <2> QED BY <1>25, <2>1, IdlesTells DEF EndInUnloadRow, Leave, Unloaded, RefsOf
<1>26. CASE LoadSavedFloatingModules
  BY <1>26 DEF LoadSavedFloatingModules, Unloaded, RefsOf, itemK, workK, windowK, boundK
<1>27. CASE UNCHANGED flVars
  BY <1>27 DEF flVars, Unloaded, RefsOf, itemK, workK, windowK, boundK
<1> QED BY <1>1, <1>2, <1>3, <1>4, <1>5, <1>6, <1>7, <1>8, <1>9, <1>10, <1>11, <1>12, <1>13,
                <1>14, <1>15, <1>16, <1>17, <1>18, <1>19, <1>20, <1>21, <1>22, <1>23, <1>24,
                <1>25, <1>26, <1>27 DEF FloatingNext, FloatingStep

\* A step keeps the references an analysis has found.
LEMMA StepAnalyzed ==
  ASSUME FloatingTypeOK, WorkTells, BytesTell, RecordIsKnown, TodoTells, AnalyzedAll,
         FloatingTypeOK', WorkTells', [FloatingNext]_flVars
  PROVE  AnalyzedAll'
<1>1. CASE StartPass
  BY <1>1 DEF StartPass, PendingFloating, AnalyzedAll, itemK, workK, windowK, boundK
<1>2. CASE PassNext
  BY <1>2 DEF PassNext, AnalyzedAll, itemK, workK, windowK, boundK
<1>3. CASE EndTask
  BY <1>3, IdlesTells DEF EndTask, AnalyzedAll, itemK, workK, windowK, boundK
<1>4. CASE Cancelled
  BY <1>4, IdlesTells DEF Cancelled, AnalyzedAll, itemK, workK, windowK, boundK
<1>5. CASE CollectFloatingRegions
  BY <1>5 DEF CollectFloatingRegions, AnalyzedAll, itemK, workK, windowK, boundK
<1>6. ASSUME NEW ok \in BOOLEAN, SaveFloatingSnapshot(ok)
      PROVE  AnalyzedAll'
  BY <1>6, SnapshotSaved DEF SaveFloatingSnapshot, WorkTells, AnalyzedAll, itemK, workK,
          windowK, boundK
<1>7. CASE RegisterRange
  BY <1>7, RowRegistered DEF RegisterRange, AnalyzedAll, itemK, workK, windowK, boundK
<1>8. CASE InsertRecord
  <2>1. CASE kphase = "analyzed"
    <3>1. Region = kfrom /\ kfrom \in Regions /\ ktodo[kfrom] = known[kfrom] /\ kopen
          /\ known[kfrom] # NoRegion
      BY <1>8, <2>1, RecordInserted DEF InsertRecord, WorkTells, TodoTells, SavePcs
    <3>2. kfrom \notin kcut => kdb.record[kfrom] = known[kfrom]
      BY <1>8, <3>1 DEF InsertRecord, RecordIsKnown
    <3>3. kfrom' = kfrom /\ kcut' = kcut /\ kpc = "record"
      BY <1>8, <2>1 DEF InsertRecord
    <3>4. kdb'.record[kfrom] = known[kfrom] /\ kdb'.refs = kdb.refs
      BY <1>8, <3>1, RecordInserted
    <3> QED BY <2>1, <3>1, <3>2, <3>3, <3>4 DEF AnalyzedAll
  <2>2. CASE kphase # "analyzed"
    BY <1>8, <2>2 DEF InsertRecord, AnalyzedAll
  <2> QED BY <2>1, <2>2
<1>9. CASE SetFloatingModule
  BY <1>9, ModuleSet DEF SetFloatingModule, AnalyzedAll, itemK, workK, windowK, boundK
<1>10. CASE ClearDone
  <2>1. CASE knew = {}
    BY <1>10, <2>1 DEF ClearDone, AfterDiscover, AnalyzedAll, itemK, workK, windowK, boundK
  <2>2. CASE knew # {}
    BY <1>10, <2>2, DoneCleared DEF ClearDone, AnalyzedAll, itemK, workK, windowK, boundK
  <2> QED BY <2>1, <2>2
<1>11. CASE ClearFloatingReferences
  BY <1>11, RefsCleared DEF ClearFloatingReferences, AnalyzedAll, itemK, workK, windowK, boundK
<1>12. CASE AnalyzeRange
  <2> DEFINE code == CodeOf(kfrom, mem[kfrom], EntriesOf(known[kfrom]))
  <2>1. /\ kfrom \in Regions /\ known[kfrom] \in RegionInfos
        /\ kdb'.refs = kdb.refs \cup code /\ kdb'.record = kdb.record
        /\ kcut' = kcut /\ kfrom' = kfrom /\ kpc = "analyze" /\ kopen
    BY <1>12, RangeAnalyzed DEF AnalyzeRange, windowK, WorkTells
  <2>2. ASSUME kfrom \notin kcut
        PROVE  kdb.record[kfrom] # NoRegion /\ code = CodeIn(kfrom, kdb.record[kfrom])
    <3>1. kdb.record[kfrom] = known[kfrom] /\ known[kfrom] # NoRegion
      BY <2>1, <2>2, FloatingAssumption DEF RecordIsKnown
    <3>2. known[kfrom].hash = mem[kfrom]
      BY <2>1, <2>2, <3>1 DEF BytesTell, Fits, Renewed
    <3> QED BY <3>1, <3>2 DEF CodeIn
  <2> HIDE DEF code
  <2> QED BY <2>1, <2>2 DEF AnalyzedAll
<1>13. CASE SetAnalyzed
  <2>1. kfrom \in Regions /\ UpdateFlags(kfrom, {"analyzeDone"}, {})
    BY <1>13 DEF SetAnalyzed, WorkTells, OnePcs
  <2> QED BY <1>13, <2>1, AnalyzedSet DEF SetAnalyzed, AnalyzedAll, itemK, workK, windowK, boundK
<1>14. CASE RefreshFloatingRegion
  BY <1>14 DEF RefreshFloatingRegion, Only, AnalyzedAll, itemK, workK, windowK, boundK
<1>15. CASE UnloadRow
  BY <1>15, RowUnloaded DEF UnloadRow, WorkTells, AnalyzedAll, itemK, workK, windowK, boundK
<1>16. CASE RemoveFloatingModule
  BY <1>16 DEF RemoveFloatingModule, AnalyzedAll, itemK, workK, windowK, boundK
<1>17. CASE ClearStale
  BY <1>17, StaleCleared DEF ClearStale, AnalyzedAll, itemK, workK, windowK, boundK
<1>18. CASE FailTask
  <2>1. CASE ktask = "pass"
    BY <1>18, <2>1, PassGivesUp DEF AnalyzedAll
  <2>2. CASE ktask # "pass"
    BY <1>18, <2>2, IdlesTells DEF FailTask, AnalyzedAll
  <2> QED BY <2>1, <2>2
<1>19. ASSUME NEW r \in Regions, NEW v \in 0..MaxBytes, Change(r, v)
      PROVE  AnalyzedAll'
  BY <1>19 DEF Change, AnalyzedAll, itemK, workK, windowK, boundK
<1>20. CASE StartSource
  BY <1>20 DEF StartSource, AnalyzedAll, itemK, workK, windowK, boundK
<1>21. ASSUME NEW task \in {"one", "force"}, NEW r \in Regions, StartOne(task, r)
      PROVE  AnalyzedAll'
  BY <1>21 DEF StartOne, AnalyzedAll, itemK, workK, windowK, boundK
<1>22. CASE ReadSavedFlags
  BY <1>22 DEF ReadSavedFlags, AnalyzedAll, itemK, workK, windowK, boundK
<1>23. CASE RestoreSavedFlags
  BY <1>23 DEF RestoreSavedFlags, AnalyzedAll, itemK, workK, windowK, boundK
<1>24. CASE EndFloating
  BY <1>24, IdlesTells DEF EndFloating, Leave, AnalyzedAll, itemK, workK, windowK, boundK
<1>25. CASE EndInUnloadRow
  <2>1. kdb'.record = kdb.record /\ kdb'.rows = kdb.rows /\ kdb'.done = kdb.done
        /\ kdb'.refs = {x \in kdb.refs : x.from # kfrom}
    BY <1>25, RefsCleared DEF EndInUnloadRow
  <2> QED BY <1>25, <2>1, IdlesTells DEF EndInUnloadRow, Leave, AnalyzedAll
<1>26. CASE LoadSavedFloatingModules
  BY <1>26 DEF LoadSavedFloatingModules, AnalyzedAll, itemK, workK, windowK, boundK
<1>27. CASE UNCHANGED flVars
  BY <1>27 DEF flVars, AnalyzedAll, itemK, workK, windowK, boundK
<1> QED BY <1>1, <1>2, <1>3, <1>4, <1>5, <1>6, <1>7, <1>8, <1>9, <1>10, <1>11, <1>12, <1>13,
                <1>14, <1>15, <1>16, <1>17, <1>18, <1>19, <1>20, <1>21, <1>22, <1>23, <1>24,
                <1>25, <1>26, <1>27 DEF FloatingNext, FloatingStep

\* A step keeps what is analyzed on the disk all there.
LEMMA StepDone ==
  ASSUME FloatingTypeOK, WorkTells, BytesTell, RecordIsKnown, TodoTells, AnalyzedAll, Unloaded,
         DoneHasAll, FloatingTypeOK', WorkTells', [FloatingNext]_flVars
  PROVE  DoneHasAll'
<1>1. CASE StartPass
  BY <1>1 DEF StartPass, PendingFloating, DoneHasAll, HalfAnalyzed, itemK, workK, windowK,
          boundK
<1>2. CASE PassNext
  BY <1>2 DEF PassNext, DoneHasAll, HalfAnalyzed, itemK, workK, windowK, boundK
<1>3. CASE EndTask
  BY <1>3, IdlesTells DEF EndTask, DoneHasAll, HalfAnalyzed, itemK, workK, windowK, boundK
<1>4. CASE Cancelled
  BY <1>4, IdlesTells DEF Cancelled, DoneHasAll, HalfAnalyzed, itemK, workK, windowK, boundK
<1>5. CASE CollectFloatingRegions
  BY <1>5, ReferredTells DEF CollectFloatingRegions, NewEntry, DoneHasAll, HalfAnalyzed, itemK,
          workK, windowK, boundK
<1>6. ASSUME NEW ok \in BOOLEAN, SaveFloatingSnapshot(ok)
      PROVE  DoneHasAll'
  BY <1>6, SnapshotSaved DEF SaveFloatingSnapshot, DoneHasAll, HalfAnalyzed, itemK, workK,
          windowK, boundK
<1>7. CASE RegisterRange
  BY <1>7, RowRegistered DEF RegisterRange, DoneHasAll, HalfAnalyzed, itemK, workK, windowK,
          boundK
<1>8. CASE InsertRecord
  <2> DEFINE r == Region
             info == ktodo[Region]
  <2>1. /\ r \in DOMAIN ktodo /\ r \in Regions /\ info # NoRegion /\ Region' = r
        /\ kdb'.refs = kdb.refs /\ kcut \ {r} \subseteq kcut' /\ kdb'.done = kdb.done
        /\ \A q \in Regions : kdb'.record[q] = IF q = r THEN info ELSE kdb.record[q]
        /\ kpc = "record" /\ kpc' = "set" /\ kopen
        /\ UNCHANGED <<known, ktodo, knew, kphase, kfrom>>
    BY <1>8, RecordInserted, FloatingAssumption DEF InsertRecord, WorkTells, itemK
  <2>2. \A q \in Regions : q # r /\ q \in HalfAnalyzed => q \in HalfAnalyzed'
    BY <2>1 DEF HalfAnalyzed
  <2>3. ASSUME r \in kdb.done, r \notin kcut', r \notin HalfAnalyzed'
        PROVE  CodeIn(r, info) \subseteq kdb.refs
    <3>1. kphase # "refreshed"
      BY <2>1, <2>3 DEF Unloaded, WorkTells, SavePcs
    <3>2. r \notin kcut
      BY <1>8, <2>3, <3>1 DEF InsertRecord
    <3>3. kdb.record[r] = known[r]
      BY <2>1, <3>2 DEF RecordIsKnown
    <3>4. /\ known[r] # NoRegion /\ info.hash = known[r].hash
          /\ EntriesOf(info) = EntriesOf(known[r]) /\ r \notin HalfAnalyzed
      <4>1. CASE kphase = "found"
        <5>1. r \notin knew
          BY <2>1, <2>3, <4>1 DEF HalfAnalyzed
        <5> QED BY <2>1, <4>1, <5>1 DEF TodoTells, HalfAnalyzed, SavePcs
      <4>2. CASE kphase = "analyzed"
        BY <2>1, <4>2 DEF TodoTells, HalfAnalyzed, WorkTells, SavePcs
      <4> QED BY <2>1, <3>1, <4>1, <4>2 DEF FloatingTypeOK, WorkTells, SavePcs
    <3>5. CodeIn(r, info) = CodeIn(r, known[r])
      BY <3>4 DEF CodeIn
    <3> QED BY <2>1, <2>3, <3>2, <3>3, <3>4, <3>5 DEF DoneHasAll
  <2>4. kdb.done \subseteq Regions
    BY DEF FloatingTypeOK, Tables
  <2> HIDE DEF r, info
  <2> QED BY <2>1, <2>2, <2>3, <2>4 DEF DoneHasAll
<1>9. CASE SetFloatingModule
  BY <1>9, ModuleSet DEF SetFloatingModule, DoneHasAll, HalfAnalyzed, itemK, workK, windowK,
          boundK
<1>10. CASE ClearDone
  <2>1. CASE knew = {}
    BY <1>10, <2>1
        DEF ClearDone, AfterDiscover, DoneHasAll, HalfAnalyzed, itemK, workK, windowK, boundK
  <2>2. CASE knew # {}
    BY <1>10, <2>2, DoneCleared
        DEF ClearDone, DoneHasAll, HalfAnalyzed, itemK, workK, windowK, boundK
  <2> QED BY <2>1, <2>2
<1>11. CASE ClearFloatingReferences
  <2>1. /\ kdb'.record = kdb.record /\ kdb'.done = kdb.done /\ kcut' = kcut /\ kfrom' = kfrom
        /\ kdb'.refs = {x \in kdb.refs : x.from # kfrom} /\ kpc = "clear" /\ kpc' = "analyze"
    BY <1>11, RefsCleared DEF ClearFloatingReferences, windowK
  <2>2. HalfAnalyzed = {} /\ HalfAnalyzed' = kdb.done \cap {kfrom}
    BY <2>1 DEF HalfAnalyzed
  <2>3. ASSUME NEW q \in kdb.done, q # kfrom, kdb.record[q] # NoRegion
        PROVE  \A x \in CodeIn(q, kdb.record[q]) : x.from # kfrom
    BY <2>3, CodeInIsOwn DEF FloatingTypeOK, Tables, CodeIn
  <2> QED BY <2>1, <2>2, <2>3 DEF DoneHasAll
<1>12. CASE AnalyzeRange
  <2> DEFINE code == CodeOf(kfrom, mem[kfrom], EntriesOf(known[kfrom]))
  <2>1. /\ kfrom \in Regions /\ known[kfrom] \in RegionInfos
        /\ kdb'.refs = kdb.refs \cup code /\ kdb'.record = kdb.record /\ kdb'.done = kdb.done
        /\ kcut' = kcut /\ kfrom' = kfrom /\ kpc = "analyze" /\ kopen
    BY <1>12, RangeAnalyzed DEF AnalyzeRange, windowK, WorkTells
  <2>2. ASSUME kfrom \notin kcut PROVE code = CodeIn(kfrom, kdb.record[kfrom])
    <3>1. kdb.record[kfrom] = known[kfrom] /\ known[kfrom] # NoRegion
      BY <2>1, <2>2, FloatingAssumption DEF RecordIsKnown
    <3>2. known[kfrom].hash = mem[kfrom]
      BY <2>1, <2>2, <3>1 DEF BytesTell, Fits, Renewed
    <3> QED BY <3>1, <3>2 DEF CodeIn
  <2>3. HalfAnalyzed \subseteq {kfrom}
    BY <2>1 DEF HalfAnalyzed
  <2> HIDE DEF code
  <2> QED BY <2>1, <2>2, <2>3 DEF DoneHasAll
<1>13. CASE SetAnalyzed
  <2>1. kfrom \in Regions /\ UpdateFlags(kfrom, {"analyzeDone"}, {})
    BY <1>13 DEF SetAnalyzed, WorkTells, OnePcs
  <2>2. /\ kdb'.record = kdb.record /\ kdb'.refs = kdb.refs
        /\ kdb'.done \subseteq kdb.done \cup {kfrom}
    BY <2>1, AnalyzedSet
  <2>3. kpc = "done" /\ kphase = "analyzed" /\ kpc' = "collect" /\ kcut' = kcut
    BY <1>13 DEF SetAnalyzed, WorkTells, windowK
  <2>4. HalfAnalyzed = {}
    BY <2>3 DEF HalfAnalyzed
  <2> QED BY <2>2, <2>3, <2>4 DEF DoneHasAll, AnalyzedAll
<1>14. CASE RefreshFloatingRegion
  BY <1>14 DEF RefreshFloatingRegion, Only, DoneHasAll, HalfAnalyzed, itemK, workK, windowK,
          boundK
<1>15. CASE UnloadRow
  <2>1. /\ kdb'.done = kdb.done \ {kfrom} /\ kcut' = kcut
        /\ \A q \in Regions : kdb'.record[q] = IF q = kfrom THEN NoRegion ELSE kdb.record[q]
        /\ kdb'.refs = {x \in kdb.refs : x.from # kfrom} /\ kpc = "unload"
    BY <1>15, RowUnloaded DEF UnloadRow, windowK
  <2>2. HalfAnalyzed = {} /\ kdb.done \subseteq Regions
    BY <2>1 DEF HalfAnalyzed, FloatingTypeOK, Tables
  <2>3. ASSUME NEW q \in kdb.done, q # kfrom, kdb.record[q] # NoRegion
        PROVE  \A x \in CodeIn(q, kdb.record[q]) : x.from # kfrom
    BY <2>3, CodeInIsOwn DEF FloatingTypeOK, Tables, CodeIn
  <2> QED BY <2>1, <2>2, <2>3 DEF DoneHasAll
<1>16. CASE RemoveFloatingModule
  BY <1>16 DEF RemoveFloatingModule, DoneHasAll, HalfAnalyzed, itemK, workK, windowK, boundK
<1>17. CASE ClearStale
  BY <1>17, StaleCleared DEF ClearStale, DoneHasAll, HalfAnalyzed, itemK, workK, windowK, boundK
<1>18. CASE FailTask
  <2>1. CASE ktask = "pass"
    BY <1>18, <2>1, PassGivesUp DEF DoneHasAll, HalfAnalyzed
  <2>2. CASE ktask # "pass"
    BY <1>18, <2>2, IdlesTells DEF FailTask, DoneHasAll, HalfAnalyzed
  <2> QED BY <2>1, <2>2
<1>19. ASSUME NEW r \in Regions, NEW v \in 0..MaxBytes, Change(r, v)
      PROVE  DoneHasAll'
  BY <1>19 DEF Change, Region, DoneHasAll, HalfAnalyzed, itemK, workK, windowK, boundK
<1>20. CASE StartSource
  BY <1>20 DEF StartSource, DoneHasAll, HalfAnalyzed, itemK, workK, windowK, boundK
<1>21. ASSUME NEW task \in {"one", "force"}, NEW r \in Regions, StartOne(task, r)
      PROVE  DoneHasAll'
  BY <1>21 DEF StartOne, DoneHasAll, HalfAnalyzed, itemK, workK, windowK, boundK
<1>22. CASE ReadSavedFlags
  BY <1>22 DEF ReadSavedFlags, Region, DoneHasAll, HalfAnalyzed, itemK, workK, windowK, boundK
<1>23. CASE RestoreSavedFlags
  BY <1>23 DEF RestoreSavedFlags, Region, DoneHasAll, HalfAnalyzed, itemK, workK, windowK,
          boundK
<1>24. CASE EndFloating
  BY <1>24, IdlesTells DEF EndFloating, Leave, DoneHasAll, HalfAnalyzed, itemK, workK, windowK,
          boundK
<1>25. CASE EndInUnloadRow
  <2>1. kdb'.record = kdb.record /\ kdb'.done = kdb.done
        /\ kdb'.refs = {x \in kdb.refs : x.from # kfrom}
        /\ kcut' = kcut \cup HalfAnalyzed \cup {kfrom}
    BY <1>25, RefsCleared DEF EndInUnloadRow, Leave
  <2>2. ASSUME NEW q \in kdb.done, q # kfrom, kdb.record[q] # NoRegion
        PROVE  \A x \in CodeIn(q, kdb.record[q]) : x.from # kfrom
    BY <2>2, CodeInIsOwn DEF FloatingTypeOK, Tables, CodeIn
  <2> QED BY <2>1, <2>2 DEF DoneHasAll
<1>26. CASE LoadSavedFloatingModules
  BY <1>26 DEF LoadSavedFloatingModules, Region, DoneHasAll, HalfAnalyzed, itemK, workK,
          windowK, boundK
<1>27. CASE UNCHANGED flVars
  BY <1>27 DEF flVars, Region, DoneHasAll, HalfAnalyzed, itemK, workK, windowK, boundK
<1> QED BY <1>1, <1>2, <1>3, <1>4, <1>5, <1>6, <1>7, <1>8, <1>9, <1>10, <1>11, <1>12, <1>13,
                <1>14, <1>15, <1>16, <1>17, <1>18, <1>19, <1>20, <1>21, <1>22, <1>23, <1>24,
                <1>25, <1>26, <1>27 DEF FloatingNext, FloatingStep

------------------------------------------------------------------------------
(* The flags in memory and the end of the passes.                            *)

\* A step keeps the flags in memory those on the disk.
LEMMA StepFlags ==
  ASSUME FloatingTypeOK, WorkTells, RowsFirst, RecordIsKnown, AnalyzedAll, StaleIsCut,
         FlagsAreSaved, FloatingTypeOK', WorkTells', [FloatingNext]_flVars
  PROVE  FlagsAreSaved'
<1>1. CASE StartPass
  BY <1>1 DEF StartPass, PendingFloating, FlagsAreSaved, Renewed, itemK, workK, windowK, boundK
<1>2. CASE PassNext
  BY <1>2 DEF PassNext, FlagsAreSaved, Renewed, itemK, workK, windowK, boundK
<1>3. CASE EndTask
  BY <1>3, IdlesTells DEF EndTask, FlagsAreSaved, Renewed, itemK, workK, windowK, boundK
<1>4. CASE Cancelled
  BY <1>4, IdlesTells DEF Cancelled, FlagsAreSaved, Renewed, itemK, workK, windowK, boundK
<1>5. CASE CollectFloatingRegions
  BY <1>5 DEF CollectFloatingRegions, FlagsAreSaved, Renewed, itemK, workK, windowK, boundK
<1>6. ASSUME NEW ok \in BOOLEAN, SaveFloatingSnapshot(ok)
      PROVE  FlagsAreSaved'
  BY <1>6, SnapshotSaved DEF SaveFloatingSnapshot, FlagsAreSaved, Renewed, itemK, workK,
          windowK, boundK
<1>7. CASE RegisterRange
  BY <1>7, RowRegistered DEF RegisterRange, FlagsAreSaved, Renewed, itemK, workK, windowK,
          boundK
<1>8. CASE InsertRecord
  BY <1>8, RecordInserted DEF InsertRecord, WorkTells, SavePcs, FlagsAreSaved, Renewed, itemK,
          workK, windowK, boundK
<1>9. CASE SetFloatingModule
  BY <1>9, ModuleSet DEF SetFloatingModule, WorkTells, SavePcs, FlagsAreSaved, Renewed, itemK,
          workK, windowK, boundK
<1>10. CASE ClearDone
  <2>1. CASE knew = {}
    BY <1>10, <2>1
        DEF ClearDone, AfterDiscover, FlagsAreSaved, Renewed, itemK, workK, windowK, boundK
  <2>2. CASE knew # {}
    BY <1>10, <2>2, DoneCleared DEF ClearDone, FlagsAreSaved, Renewed, itemK, workK, windowK, boundK
  <2> QED BY <2>1, <2>2
<1>11. CASE ClearFloatingReferences
  BY <1>11, RefsCleared DEF ClearFloatingReferences, FlagsAreSaved, Renewed, itemK, workK,
          windowK, boundK
<1>12. CASE AnalyzeRange
  BY <1>12, RangeAnalyzed DEF AnalyzeRange, Only, FlagsAreSaved, Renewed, itemK, workK, windowK,
          boundK
<1>13. CASE SetAnalyzed
  <2>1. kfrom \in Regions /\ UpdateFlags(kfrom, {"analyzeDone"}, {})
    BY <1>13 DEF SetAnalyzed, WorkTells, OnePcs
  <2>2. kpc = "done" /\ kphase = "analyzed" /\ kcut' = kcut
    BY <1>13 DEF SetAnalyzed, WorkTells, windowK
  <2>3. kfrom \notin kcut => kfrom \in kdb.rows
    BY <2>1, <2>2 DEF AnalyzedAll, RowsFirst
  <2>4. /\ kfrom \in kdb.rows => kfrom \in kdb'.done
        /\ \A q \in Regions : q # kfrom =>
             kflags'[q] = kflags[q] /\ (q \in kdb.done => q \in kdb'.done)
    BY <2>1, AnalyzedSet
  <2> QED BY <2>2, <2>3, <2>4 DEF FlagsAreSaved, Renewed
<1>14. CASE RefreshFloatingRegion
  BY <1>14 DEF RefreshFloatingRegion, Only, FlagsAreSaved, Renewed, itemK, workK, windowK,
          boundK
<1>15. CASE UnloadRow
  BY <1>15, RowUnloaded DEF UnloadRow, StaleIsCut, WorkTells, FlagsAreSaved, Renewed, itemK,
          workK, windowK, boundK
<1>16. CASE RemoveFloatingModule
  BY <1>16 DEF RemoveFloatingModule, FlagsAreSaved, Renewed, itemK, workK, windowK, boundK
<1>17. CASE ClearStale
  BY <1>17, StaleCleared DEF ClearStale, FlagsAreSaved, Renewed, itemK, workK, windowK, boundK
<1>18. CASE FailTask
  <2>1. CASE ktask = "pass"
    BY <1>18, <2>1, PassGivesUp DEF FlagsAreSaved, Renewed
  <2>2. CASE ktask # "pass"
    BY <1>18, <2>2, IdlesTells DEF FailTask, FlagsAreSaved, Renewed
  <2> QED BY <2>1, <2>2
<1>19. ASSUME NEW r \in Regions, NEW v \in 0..MaxBytes, Change(r, v)
      PROVE  FlagsAreSaved'
  BY <1>19 DEF Change, FlagsAreSaved, Renewed, itemK, workK, windowK, boundK
<1>20. CASE StartSource
  BY <1>20 DEF StartSource, FlagsAreSaved, Renewed, itemK, workK, windowK, boundK
<1>21. ASSUME NEW task \in {"one", "force"}, NEW r \in Regions, StartOne(task, r)
      PROVE  FlagsAreSaved'
  BY <1>21 DEF StartOne, FlagsAreSaved, Renewed, itemK, workK, windowK, boundK
<1>22. CASE ReadSavedFlags
  BY <1>22 DEF ReadSavedFlags, FlagsAreSaved, Renewed, itemK, workK, windowK, boundK
<1>23. CASE RestoreSavedFlags
  BY <1>23 DEF RestoreSavedFlags, FlagsAreSaved, Renewed, itemK, workK, windowK, boundK
<1>24. CASE EndFloating
  BY <1>24, IdlesTells DEF EndFloating, Leave, FlagsAreSaved, Renewed, itemK, workK, windowK,
          boundK
<1>25. CASE EndInUnloadRow
  <2>1. kdb'.record = kdb.record /\ kdb'.rows = kdb.rows /\ kdb'.done = kdb.done
        /\ kdb'.refs = {x \in kdb.refs : x.from # kfrom}
    BY <1>25, RefsCleared DEF EndInUnloadRow
  <2> QED BY <1>25, <2>1, IdlesTells DEF EndInUnloadRow, Leave, FlagsAreSaved, Renewed
<1>26. CASE LoadSavedFloatingModules
  BY <1>26 DEF LoadSavedFloatingModules, FlagsAreSaved, Renewed, itemK, workK, windowK, boundK
<1>27. CASE UNCHANGED flVars
  BY <1>27 DEF flVars, FlagsAreSaved, Renewed, itemK, workK, windowK, boundK
<1> QED BY <1>1, <1>2, <1>3, <1>4, <1>5, <1>6, <1>7, <1>8, <1>9, <1>10, <1>11, <1>12, <1>13,
                <1>14, <1>15, <1>16, <1>17, <1>18, <1>19, <1>20, <1>21, <1>22, <1>23, <1>24,
                <1>25, <1>26, <1>27 DEF FloatingNext, FloatingStep

\* A task that is over has queued the next pass.
LEMMA StepPending ==
  ASSUME FloatingTypeOK, WorkTells, SourceFollowed, NothingPends, FloatingTypeOK', WorkTells',
         [FloatingNext]_flVars
  PROVE  NothingPends'
<1>1. CASE StartPass
  BY <1>1 DEF StartPass, PendingFloating, NothingPends, PendingFloating, itemK, workK, windowK,
          boundK
<1>2. CASE PassNext
  BY <1>2 DEF PassNext, NothingPends, PendingFloating, itemK, workK, windowK, boundK
<1>3. CASE EndTask
  BY <1>3, IdlesTells DEF EndTask, NothingPends, PendingFloating, itemK, workK, windowK, boundK
<1>4. CASE Cancelled
  BY <1>4, IdlesTells DEF Cancelled, NothingPends, PendingFloating, itemK, workK, windowK,
          boundK
<1>5. CASE CollectFloatingRegions
  BY <1>5 DEF CollectFloatingRegions, NothingPends, PendingFloating, itemK, workK, windowK,
          boundK
<1>6. ASSUME NEW ok \in BOOLEAN, SaveFloatingSnapshot(ok)
      PROVE  NothingPends'
  BY <1>6, SnapshotSaved DEF SaveFloatingSnapshot, NothingPends, PendingFloating, itemK, workK,
          windowK, boundK
<1>7. CASE RegisterRange
  BY <1>7, RowRegistered DEF RegisterRange, NothingPends, PendingFloating, itemK, workK,
          windowK, boundK
<1>8. CASE InsertRecord
  BY <1>8, RecordInserted DEF InsertRecord, NothingPends, PendingFloating, itemK, workK,
          windowK, boundK
<1>9. CASE SetFloatingModule
  BY <1>9, ModuleSet DEF SetFloatingModule, NothingPends, PendingFloating, itemK, workK,
          windowK, boundK
<1>10. CASE ClearDone
  <2>1. CASE knew = {}
    BY <1>10, <2>1
        DEF ClearDone, AfterDiscover, NothingPends, PendingFloating, itemK, workK, windowK, boundK
  <2>2. CASE knew # {}
    BY <1>10, <2>2, DoneCleared
        DEF ClearDone, NothingPends, PendingFloating, itemK, workK, windowK, boundK
  <2> QED BY <2>1, <2>2
<1>11. CASE ClearFloatingReferences
  BY <1>11, RefsCleared DEF ClearFloatingReferences, NothingPends, PendingFloating, itemK,
          workK, windowK, boundK
<1>12. CASE AnalyzeRange
  BY <1>12, RangeAnalyzed DEF AnalyzeRange, Only, NothingPends, PendingFloating, itemK, workK,
          windowK, boundK
<1>13. CASE SetAnalyzed
  <2>1. kfrom \in Regions /\ UpdateFlags(kfrom, {"analyzeDone"}, {})
    BY <1>13 DEF SetAnalyzed, WorkTells, OnePcs
  <2> QED BY <1>13, <2>1, AnalyzedSet
      DEF SetAnalyzed, NothingPends, PendingFloating, itemK, workK, windowK, boundK
<1>14. CASE RefreshFloatingRegion
  BY <1>14 DEF RefreshFloatingRegion, Only, NothingPends, PendingFloating, itemK, workK,
          windowK, boundK
<1>15. CASE UnloadRow
  BY <1>15, RowUnloaded DEF UnloadRow, NothingPends, PendingFloating, itemK, workK, windowK,
          boundK
<1>16. CASE RemoveFloatingModule
  BY <1>16 DEF RemoveFloatingModule, NothingPends, PendingFloating, itemK, workK, windowK,
          boundK
<1>17. CASE ClearStale
  BY <1>17, StaleCleared DEF ClearStale, NothingPends, PendingFloating, itemK, workK, windowK,
          boundK
<1>18. CASE FailTask
  <2>1. CASE ktask = "pass"
    BY <1>18, <2>1, PassGivesUp DEF NothingPends, PendingFloating
  <2>2. CASE ktask # "pass"
    BY <1>18, <2>2, IdlesTells DEF FailTask, NothingPends, PendingFloating
  <2> QED BY <2>1, <2>2
<1>19. ASSUME NEW r \in Regions, NEW v \in 0..MaxBytes, Change(r, v)
      PROVE  NothingPends'
  BY <1>19 DEF Change, NothingPends, PendingFloating, itemK, workK, windowK, boundK
<1>20. CASE StartSource
  BY <1>20 DEF StartSource, NothingPends, PendingFloating, itemK, workK, windowK, boundK
<1>21. ASSUME NEW task \in {"one", "force"}, NEW r \in Regions, StartOne(task, r)
      PROVE  NothingPends'
  BY <1>21 DEF StartOne, NothingPends, PendingFloating, itemK, workK, windowK, boundK
<1>22. CASE ReadSavedFlags
  BY <1>22 DEF ReadSavedFlags, NothingPends, PendingFloating, itemK, workK, windowK, boundK
<1>23. CASE RestoreSavedFlags
  BY <1>23 DEF RestoreSavedFlags, NothingPends, PendingFloating, itemK, workK, windowK, boundK
<1>24. CASE EndFloating
  BY <1>24, IdlesTells DEF EndFloating, Leave, NothingPends, PendingFloating, itemK, workK,
          windowK, boundK
<1>25. CASE EndInUnloadRow
  <2>1. kdb'.record = kdb.record /\ kdb'.rows = kdb.rows /\ kdb'.done = kdb.done
        /\ kdb'.refs = {x \in kdb.refs : x.from # kfrom}
    BY <1>25, RefsCleared DEF EndInUnloadRow
  <2> QED BY <1>25, <2>1, IdlesTells DEF EndInUnloadRow, Leave, NothingPends, PendingFloating
<1>26. CASE LoadSavedFloatingModules
  BY <1>26 DEF LoadSavedFloatingModules, SourceFollowed, NothingPends, PendingFloating, itemK,
          workK, windowK, boundK
<1>27. CASE UNCHANGED flVars
  BY <1>27 DEF flVars, NothingPends, PendingFloating, itemK, workK, windowK, boundK
<1> QED BY <1>1, <1>2, <1>3, <1>4, <1>5, <1>6, <1>7, <1>8, <1>9, <1>10, <1>11, <1>12, <1>13,
                <1>14, <1>15, <1>16, <1>17, <1>18, <1>19, <1>20, <1>21, <1>22, <1>23, <1>24,
                <1>25, <1>26, <1>27 DEF FloatingNext, FloatingStep

\* Memory that was not there when it was looked at stays an exception.
LEMMA StepGone ==
  ASSUME FloatingTypeOK, WorkTells, [FloatingNext]_flVars
  PROVE  \A q \in Regions : Gone(q) => Gone(q)'
<1>1. CASE StartPass
  BY <1>1 DEF StartPass, PendingFloating, Gone, FloatingTypeOK, itemK, workK, windowK, boundK
<1>2. CASE PassNext
  BY <1>2 DEF PassNext, Gone, FloatingTypeOK, itemK, workK, windowK, boundK
<1>3. CASE EndTask
  BY <1>3, IdlesTells DEF EndTask, Gone, FloatingTypeOK, itemK, workK, windowK, boundK
<1>4. CASE Cancelled
  BY <1>4, IdlesTells DEF Cancelled, Gone, FloatingTypeOK, itemK, workK, windowK, boundK
<1>5. CASE CollectFloatingRegions
  BY <1>5 DEF CollectFloatingRegions, Gone, FloatingTypeOK, itemK, workK, windowK, boundK
<1>6. ASSUME NEW ok \in BOOLEAN, SaveFloatingSnapshot(ok)
      PROVE  \A q \in Regions : Gone(q) => Gone(q)'
  BY <1>6 DEF SaveFloatingSnapshot, Gone, FloatingTypeOK, itemK, workK, windowK, boundK
<1>7. CASE RegisterRange
  BY <1>7 DEF RegisterRange, Gone, FloatingTypeOK, itemK, workK, windowK, boundK
<1>8. CASE InsertRecord
  BY <1>8 DEF InsertRecord, Gone, FloatingTypeOK, itemK, workK, windowK, boundK
<1>9. CASE SetFloatingModule
  BY <1>9 DEF SetFloatingModule, Gone, FloatingTypeOK, itemK, workK, windowK, boundK
<1>10. CASE ClearDone
  BY <1>10 DEF ClearDone, AfterDiscover, Gone, FloatingTypeOK, itemK, workK, windowK, boundK
<1>11. CASE ClearFloatingReferences
  BY <1>11 DEF ClearFloatingReferences, Gone, FloatingTypeOK, itemK, workK, windowK, boundK
<1>12. CASE AnalyzeRange
  BY <1>12 DEF AnalyzeRange, Only, Gone, FloatingTypeOK, itemK, workK, windowK, boundK
<1>13. CASE SetAnalyzed
  BY <1>13 DEF SetAnalyzed, Gone, FloatingTypeOK, itemK, workK, windowK, boundK
<1>14. CASE RefreshFloatingRegion
  BY <1>14 DEF RefreshFloatingRegion, Only, Gone, FloatingTypeOK, itemK, workK, windowK, boundK
<1>15. CASE UnloadRow
  BY <1>15 DEF UnloadRow, Gone, FloatingTypeOK, itemK, workK, windowK, boundK
<1>16. CASE RemoveFloatingModule
  BY <1>16 DEF RemoveFloatingModule, Gone, FloatingTypeOK, itemK, workK, windowK, boundK
<1>17. CASE ClearStale
  BY <1>17 DEF ClearStale, Gone, FloatingTypeOK, itemK, workK, windowK, boundK
<1>18. CASE FailTask
  BY <1>18 DEF FailTask, Gone
<1>19. ASSUME NEW r \in Regions, NEW v \in 0..MaxBytes, Change(r, v)
      PROVE  \A q \in Regions : Gone(q) => Gone(q)'
  BY <1>19 DEF Change, Gone, FloatingTypeOK, itemK, workK, windowK, boundK
<1>20. CASE StartSource
  BY <1>20 DEF StartSource, Gone, FloatingTypeOK, itemK, workK, windowK, boundK
<1>21. ASSUME NEW task \in {"one", "force"}, NEW r \in Regions, StartOne(task, r)
      PROVE  \A q \in Regions : Gone(q) => Gone(q)'
  BY <1>21 DEF StartOne, Gone, FloatingTypeOK, itemK, workK, windowK, boundK
<1>22. CASE ReadSavedFlags
  BY <1>22 DEF ReadSavedFlags, Gone, FloatingTypeOK, itemK, workK, windowK, boundK
<1>23. CASE RestoreSavedFlags
  BY <1>23 DEF RestoreSavedFlags, Gone, FloatingTypeOK, itemK, workK, windowK, boundK
<1>24. CASE EndFloating
  BY <1>24 DEF EndFloating, Leave, Gone
<1>25. CASE EndInUnloadRow
  BY <1>25 DEF EndInUnloadRow, Leave, Gone
<1>26. CASE LoadSavedFloatingModules
  BY <1>26 DEF LoadSavedFloatingModules, Gone, FloatingTypeOK, itemK, workK, windowK, boundK
<1>27. CASE UNCHANGED flVars
  BY <1>27 DEF flVars, Gone, windowK
<1> QED BY <1>1, <1>2, <1>3, <1>4, <1>5, <1>6, <1>7, <1>8, <1>9, <1>10, <1>11, <1>12, <1>13,
                <1>14, <1>15, <1>16, <1>17, <1>18, <1>19, <1>20, <1>21, <1>22, <1>23, <1>24,
                <1>25, <1>26, <1>27 DEF FloatingNext, FloatingStep

\* A step loses no entry on the disk.
LEMMA StepEntries ==
  ASSUME FloatingTypeOK, WorkTells, RecordIsKnown, TodoTells, EntriesOnDisk, FloatingTypeOK',
         WorkTells', [FloatingNext]_flVars
  PROVE  EntriesOnDisk'
<1>1. CASE StartPass
  BY <1>1 DEF StartPass, PendingFloating, EntriesOnDisk, Renewed, Gone, itemK, workK, windowK,
          boundK
<1>2. CASE PassNext
  BY <1>2 DEF PassNext, EntriesOnDisk, Renewed, Gone, itemK, workK, windowK, boundK
<1>3. CASE EndTask
  BY <1>3, IdlesTells DEF EndTask, EntriesOnDisk, Renewed, Gone, itemK, workK, windowK, boundK
<1>4. CASE Cancelled
  BY <1>4, IdlesTells DEF Cancelled, EntriesOnDisk, Renewed, Gone, itemK, workK, windowK, boundK
<1>5. CASE CollectFloatingRegions
  BY <1>5 DEF CollectFloatingRegions, EntriesOnDisk, Renewed, Gone, itemK, workK, windowK,
          boundK
<1>6. ASSUME NEW ok \in BOOLEAN, SaveFloatingSnapshot(ok)
      PROVE  EntriesOnDisk'
  BY <1>6, SnapshotSaved DEF SaveFloatingSnapshot, EntriesOnDisk, Renewed, Gone, itemK, workK,
          windowK, boundK
<1>7. CASE RegisterRange
  BY <1>7, RowRegistered DEF RegisterRange, EntriesOnDisk, Renewed, Gone, itemK, workK, windowK,
          boundK
<1>8. CASE InsertRecord
  <2>1. /\ Region \in DOMAIN ktodo /\ Region \in Regions /\ ktodo[Region] # NoRegion
        /\ \A q \in Regions : kdb'.record[q] = IF q = Region THEN ktodo[Region] ELSE kdb.record[q]
        /\ kpc = "record" /\ kpc' = "set" /\ kopen
        /\ UNCHANGED <<mem, known, kphase, kfrom, kmissed>>
    BY <1>8, RecordInserted, FloatingAssumption DEF InsertRecord, WorkTells, itemK
  <2>2. known[Region] # NoRegion => EntriesOf(known[Region]) \subseteq EntriesOf(ktodo[Region])
    BY <2>1 DEF TodoTells, WorkTells, SavePcs, FloatingTypeOK
  <2>3. kphase = "refreshed" => Region = kfrom
    BY <2>1 DEF WorkTells, SavePcs
  <2> QED BY <2>1, <2>2, <2>3 DEF EntriesOnDisk, Renewed, Gone
<1>9. CASE SetFloatingModule
  <2>1. /\ kpc = "set" /\ kpc' \notin {"row", "record", "unload", "remove"} /\ kopen
        /\ UNCHANGED <<mem, kdb, kmissed>>
    BY <1>9, ModuleSet DEF SetFloatingModule, WorkTells, SavePcs, FloatingTypeOK, windowK
  <2>2. kdb.record[Region] = ktodo[Region]
    BY <2>1 DEF RecordIsKnown
  <2> QED BY <1>9, <2>1, <2>2, ModuleSet DEF EntriesOnDisk, Renewed, Gone
<1>10. CASE ClearDone
  <2>1. CASE knew = {}
    BY <1>10, <2>1
        DEF ClearDone, AfterDiscover, EntriesOnDisk, Renewed, Gone, itemK, workK, windowK, boundK
  <2>2. CASE knew # {}
    BY <1>10, <2>2, DoneCleared
        DEF ClearDone, EntriesOnDisk, Renewed, Gone, itemK, workK, windowK, boundK
  <2> QED BY <2>1, <2>2
<1>11. CASE ClearFloatingReferences
  BY <1>11, RefsCleared DEF ClearFloatingReferences, EntriesOnDisk, Renewed, Gone, itemK, workK,
          windowK, boundK
<1>12. CASE AnalyzeRange
  BY <1>12, RangeAnalyzed DEF AnalyzeRange, Only, EntriesOnDisk, Renewed, Gone, itemK, workK,
          windowK, boundK
<1>13. CASE SetAnalyzed
  <2>1. kfrom \in Regions /\ UpdateFlags(kfrom, {"analyzeDone"}, {})
    BY <1>13 DEF SetAnalyzed, WorkTells, OnePcs
  <2> QED BY <1>13, <2>1, AnalyzedSet
      DEF SetAnalyzed, EntriesOnDisk, Renewed, Gone, itemK, workK, windowK, boundK
<1>14. CASE RefreshFloatingRegion
  BY <1>14 DEF RefreshFloatingRegion, Only, EntriesOnDisk, Renewed, Gone, itemK, workK, windowK,
          boundK
<1>15. CASE UnloadRow
  BY <1>15, RowUnloaded DEF UnloadRow, WorkTells, EntriesOnDisk, Renewed, Gone, itemK, workK,
          windowK, boundK
<1>16. CASE RemoveFloatingModule
  BY <1>16 DEF RemoveFloatingModule, EntriesOnDisk, Renewed, Gone, itemK, workK, windowK, boundK
<1>17. CASE ClearStale
  BY <1>17, StaleCleared DEF ClearStale, EntriesOnDisk, Renewed, Gone, itemK, workK, windowK,
          boundK
<1>18. CASE FailTask
  <2>1. /\ kpc' \notin {"row", "record", "unload", "remove"}
        /\ UNCHANGED <<mem, known, kopen>> /\ kdb'.record = kdb.record
        /\ kmissed \cup NotFollowed \subseteq kmissed'
    <3>1. CASE ktask = "pass"
      BY <1>18, <3>1, PassGivesUp
    <3>2. CASE ktask # "pass"
      BY <1>18, <3>2, IdlesTells DEF FailTask
    <3> QED BY <3>1, <3>2
  <2>2. \A r \in Regions : Renewed(r, {"row", "record"}) => r \in NotFollowed
    BY DEF Renewed, NotFollowed
  <2> QED BY <2>1, <2>2 DEF EntriesOnDisk, Renewed, Gone
<1>19. ASSUME NEW r \in Regions, NEW v \in 0..MaxBytes, Change(r, v)
      PROVE  EntriesOnDisk'
  <2>1. UNCHANGED <<known, kdb, kopen, kpc, kphase, kfrom>>
    BY <1>19 DEF Change, itemK, workK
  <2>2. \A q \in Regions : Gone(q) => Gone(q)'
    BY StepGone
  <2>3. kpc \in {"unload", "remove"} => kfrom \in Regions
    BY DEF WorkTells, OnePcs
  <2> QED BY <2>1, <2>2, <2>3 DEF EntriesOnDisk, Renewed
<1>20. CASE StartSource
  BY <1>20 DEF StartSource, EntriesOnDisk, Renewed, Gone, itemK, workK, windowK, boundK
<1>21. ASSUME NEW task \in {"one", "force"}, NEW r \in Regions, StartOne(task, r)
      PROVE  EntriesOnDisk'
  BY <1>21 DEF StartOne, EntriesOnDisk, Renewed, Gone, itemK, workK, windowK, boundK
<1>22. CASE ReadSavedFlags
  BY <1>22 DEF ReadSavedFlags, EntriesOnDisk, Renewed, Gone, itemK, workK, windowK, boundK
<1>23. CASE RestoreSavedFlags
  BY <1>23 DEF RestoreSavedFlags, EntriesOnDisk, Renewed, Gone, itemK, workK, windowK, boundK
<1>24. CASE EndFloating
  BY <1>24, IdlesTells DEF EndFloating, Leave, EntriesOnDisk, Renewed, Gone, itemK, workK,
          windowK, boundK
<1>25. CASE EndInUnloadRow
  <2>1. kdb'.record = kdb.record /\ kdb'.rows = kdb.rows /\ kdb'.done = kdb.done
        /\ kdb'.refs = {x \in kdb.refs : x.from # kfrom}
    BY <1>25, RefsCleared DEF EndInUnloadRow
  <2> QED BY <1>25, <2>1, IdlesTells DEF EndInUnloadRow, Leave, EntriesOnDisk, Renewed, Gone
<1>26. CASE LoadSavedFloatingModules
  BY <1>26 DEF LoadSavedFloatingModules, WorkTells, EntriesOnDisk, Renewed, Gone, itemK, workK,
          windowK, boundK
<1>27. CASE UNCHANGED flVars
  BY <1>27 DEF flVars, EntriesOnDisk, Renewed, Gone, itemK, workK, windowK, boundK
<1> QED BY <1>1, <1>2, <1>3, <1>4, <1>5, <1>6, <1>7, <1>8, <1>9, <1>10, <1>11, <1>12, <1>13,
                <1>14, <1>15, <1>16, <1>17, <1>18, <1>19, <1>20, <1>21, <1>22, <1>23, <1>24,
                <1>25, <1>26, <1>27 DEF FloatingNext, FloatingStep

------------------------------------------------------------------------------
(* Where references lead.                                                    *)

\* A reference that leads to an entry in memory goes on leading to one.
LEMMA StepCovered ==
  ASSUME FloatingTypeOK, WorkTells, TodoTells, EntriesOnDisk, [FloatingNext]_flVars
  PROVE  kopen /\ kopen' => \A p \in Places : Covered(p) => Covered(p)'
<1>1. CASE StartPass
  BY <1>1 DEF StartPass, Covered, Gone, itemK, windowK
<1>2. CASE PassNext
  BY <1>2 DEF PassNext, Covered, Gone, itemK, windowK
<1>3. CASE EndTask
  BY <1>3 DEF EndTask, Covered, Gone, itemK, windowK
<1>4. CASE Cancelled
  BY <1>4 DEF Cancelled, Covered, Gone, itemK, windowK
<1>5. CASE CollectFloatingRegions
  BY <1>5 DEF CollectFloatingRegions, Covered, Gone, itemK, windowK
<1>6. ASSUME NEW ok \in BOOLEAN, SaveFloatingSnapshot(ok)
      PROVE  kopen /\ kopen' => \A p \in Places : Covered(p) => Covered(p)'
  BY <1>6 DEF SaveFloatingSnapshot, Covered, Gone, itemK, windowK
<1>7. CASE RegisterRange
  BY <1>7 DEF RegisterRange, Covered, Gone, itemK, windowK
<1>8. CASE InsertRecord
  BY <1>8 DEF InsertRecord, Covered, Gone, itemK, windowK
<1>9. CASE SetFloatingModule
  <2>1. UNCHANGED <<mem, kmissed>> /\ kpc = "set" /\ kopen
    BY <1>9 DEF SetFloatingModule, windowK, WorkTells
  <2>2. known[Region] # NoRegion => EntriesOf(known[Region]) \subseteq EntriesOf(ktodo[Region])
    BY <1>9, <2>1, ModuleSet DEF TodoTells, WorkTells, SavePcs, FloatingTypeOK
  <2>3. \A q \in Regions, e \in Entries : Has(known[q], e) => Has(known'[q], e)
    BY <1>9, <2>2, ModuleSet DEF Has
  <2> QED BY <2>1, <2>3 DEF Covered, Gone, Places
<1>10. CASE ClearDone
  BY <1>10 DEF ClearDone, Covered, Gone, itemK, windowK
<1>11. CASE ClearFloatingReferences
  BY <1>11 DEF ClearFloatingReferences, Covered, Gone, itemK, windowK
<1>12. CASE AnalyzeRange
  BY <1>12 DEF AnalyzeRange, Covered, Gone, itemK, windowK
<1>13. CASE SetAnalyzed
  BY <1>13 DEF SetAnalyzed, Covered, Gone, itemK, windowK
<1>14. CASE RefreshFloatingRegion
  BY <1>14 DEF RefreshFloatingRegion, Covered, Gone, itemK, windowK
<1>15. CASE UnloadRow
  BY <1>15 DEF UnloadRow, Covered, Gone, itemK, windowK
<1>16. CASE RemoveFloatingModule
  <2>1. UNCHANGED <<mem, kmissed>> /\ Gone(kfrom)
    BY <1>16 DEF RemoveFloatingModule, windowK, WorkTells, EntriesOnDisk
  <2>2. \A q \in Regions : q # kfrom => known'[q] = known[q]
    BY <1>16 DEF RemoveFloatingModule, FloatingTypeOK
  <2> QED BY <2>1, <2>2 DEF Covered, Gone, Places
<1>17. CASE ClearStale
  BY <1>17 DEF ClearStale, Covered, Gone, itemK, windowK
<1>18. CASE FailTask
  BY <1>18 DEF FailTask, Covered, Gone, itemK, windowK
<1>19. ASSUME NEW r \in Regions, NEW v \in 0..MaxBytes, Change(r, v)
      PROVE  kopen /\ kopen' => \A p \in Places : Covered(p) => Covered(p)'
  <2>1. UNCHANGED known
    BY <1>19 DEF Change, itemK
  <2>2. \A q \in Regions : Gone(q) => Gone(q)'
    BY StepGone
  <2> QED BY <2>1, <2>2 DEF Covered, Places
<1>20. CASE StartSource
  BY <1>20 DEF StartSource, Covered, Gone, itemK, windowK
<1>21. ASSUME NEW task \in {"one", "force"}, NEW r \in Regions, StartOne(task, r)
      PROVE  kopen /\ kopen' => \A p \in Places : Covered(p) => Covered(p)'
  BY <1>21 DEF StartOne, Covered, Gone, itemK, windowK
<1>22. CASE ReadSavedFlags
  BY <1>22 DEF ReadSavedFlags, Covered, Gone, itemK, windowK
<1>23. CASE RestoreSavedFlags
  BY <1>23 DEF RestoreSavedFlags, Covered, Gone, itemK, windowK
<1>24. CASE EndFloating
  BY <1>24 DEF EndFloating, Leave
<1>25. CASE EndInUnloadRow
  BY <1>25 DEF EndInUnloadRow, Leave
<1>26. CASE LoadSavedFloatingModules
  BY <1>26 DEF LoadSavedFloatingModules
<1>27. CASE UNCHANGED flVars
  BY <1>27 DEF flVars, Covered, Gone, itemK, windowK
<1> QED BY <1>1, <1>2, <1>3, <1>4, <1>5, <1>6, <1>7, <1>8, <1>9, <1>10, <1>11, <1>12, <1>13,
                <1>14, <1>15, <1>16, <1>17, <1>18, <1>19, <1>20, <1>21, <1>22, <1>23, <1>24,
                <1>25, <1>26, <1>27 DEF FloatingNext, FloatingStep

\* A step keeps every reference of the module under analysis on its way.
LEMMA StepSoon ==
  ASSUME FloatingTypeOK, WorkTells, TodoTells, EntriesOnDisk, FollowedSoon,
         [FloatingNext]_flVars
  PROVE  FollowedSoon'
<1>1. CASE StartPass
  BY <1>1 DEF StartPass, FollowedSoon, SavePcs, WorkTells
<1>2. CASE PassNext
  BY <1>2 DEF PassNext, FollowedSoon, SavePcs, WorkTells
<1>3. CASE EndTask
  BY <1>3, IdlesTells DEF EndTask, FollowedSoon, SavePcs
<1>4. CASE Cancelled
  BY <1>4, IdlesTells DEF Cancelled, FollowedSoon, SavePcs
<1>5. CASE CollectFloatingRegions
  <2>1. /\ DOMAIN ktodo' = {q \in Reached : known[q] # Referred(q)}
        /\ \A q \in DOMAIN ktodo' : ktodo'[q] = Referred(q)
        /\ UNCHANGED <<mem, known, kdb, kfrom, kmissed>>
    BY <1>5 DEF CollectFloatingRegions, itemK, windowK
  <2>2. ASSUME NEW p \in Targeted(kfrom) PROVE CoveredSoon(p)'
    <3>1. p \in Places /\ p[1] \in Regions /\ p[2] \in Entries /\ p = <<p[1], p[2]>>
      BY TargetsIn DEF Places
    <3>2. CASE mem[p[1]] = 0
      BY <2>1, <3>2 DEF CoveredSoon, Covered, Gone
    <3>3. CASE mem[p[1]] # 0
      <4>1. p[1] \in Reached
        BY <3>1, <3>3 DEF Reached
      <4>2. p[2] \in EntriesOf(Referred(p[1])) /\ Referred(p[1]) # NoRegion
        BY <3>1, <4>1, ReferredTells, FloatingAssumption
      <4> QED BY <2>1, <4>1, <4>2 DEF CoveredSoon, Covered, Has
    <3> QED BY <3>2, <3>3
  <2>3. Targeted(kfrom)' = Targeted(kfrom)
    BY <2>1 DEF Targeted
  <2> QED BY <2>2, <2>3 DEF FollowedSoon
<1>6. ASSUME NEW ok \in BOOLEAN, SaveFloatingSnapshot(ok)
      PROVE  FollowedSoon'
  <2>1. /\ kdb'.refs = kdb.refs /\ kfrom' = kfrom /\ kopen /\ kopen'
        /\ (kphase' = "found" /\ kpc' \in SavePcs \cup {"flags"} =>
             kphase = "found" /\ kpc \in SavePcs \cup {"flags"})
    BY <1>6 DEF SaveFloatingSnapshot, WorkTells, SavePcs, itemK, workK, windowK
  <2>2. /\ DOMAIN ktodo' = DOMAIN ktodo
        /\ \A q \in DOMAIN ktodo : EntriesOf(ktodo'[q]) = EntriesOf(ktodo[q])
    BY <1>6, SnapshotSaved DEF SaveFloatingSnapshot, EntriesOf, workK
  <2>3. \A p \in Places : Covered(p) => Covered(p)'
    BY <2>1, StepCovered
  <2>4. Targeted(kfrom)' = Targeted(kfrom) /\ Targeted(kfrom) \in SUBSET Places
    BY <2>1, TargetsIn DEF Targeted
  <2> QED BY <2>1, <2>2, <2>3, <2>4 DEF FollowedSoon, CoveredSoon
<1>7. CASE RegisterRange
  <2>1. /\ kdb'.refs = kdb.refs /\ kfrom' = kfrom /\ kopen /\ kopen'
        /\ (kphase' = "found" /\ kpc' \in SavePcs \cup {"flags"} =>
             kphase = "found" /\ kpc \in SavePcs \cup {"flags"})
    BY <1>7, RowRegistered DEF RegisterRange, WorkTells, SavePcs, itemK, workK, windowK
  <2>2. /\ DOMAIN ktodo' = DOMAIN ktodo
        /\ \A q \in DOMAIN ktodo : EntriesOf(ktodo'[q]) = EntriesOf(ktodo[q])
    BY <1>7 DEF RegisterRange, EntriesOf, workK
  <2>3. \A p \in Places : Covered(p) => Covered(p)'
    BY <2>1, StepCovered
  <2>4. Targeted(kfrom)' = Targeted(kfrom) /\ Targeted(kfrom) \in SUBSET Places
    BY <2>1, TargetsIn DEF Targeted
  <2> QED BY <2>1, <2>2, <2>3, <2>4 DEF FollowedSoon, CoveredSoon
<1>8. CASE InsertRecord
  <2>1. /\ kdb'.refs = kdb.refs /\ kfrom' = kfrom /\ kopen /\ kopen'
        /\ (kphase' = "found" /\ kpc' \in SavePcs \cup {"flags"} =>
             kphase = "found" /\ kpc \in SavePcs \cup {"flags"})
    BY <1>8, RecordInserted DEF InsertRecord, WorkTells, SavePcs, itemK, workK, windowK
  <2>2. /\ DOMAIN ktodo' = DOMAIN ktodo
        /\ \A q \in DOMAIN ktodo : EntriesOf(ktodo'[q]) = EntriesOf(ktodo[q])
    BY <1>8 DEF InsertRecord, EntriesOf, workK
  <2>3. \A p \in Places : Covered(p) => Covered(p)'
    BY <2>1, StepCovered
  <2>4. Targeted(kfrom)' = Targeted(kfrom) /\ Targeted(kfrom) \in SUBSET Places
    BY <2>1, TargetsIn DEF Targeted
  <2> QED BY <2>1, <2>2, <2>3, <2>4 DEF FollowedSoon, CoveredSoon
<1>9. CASE SetFloatingModule
  <2>1. kdb' = kdb /\ kfrom' = kfrom /\ kopen /\ kopen' /\ kphase' = kphase /\ kpc = "set"
    BY <1>9 DEF SetFloatingModule, WorkTells
  <2>2. \A p \in Places : Covered(p) => Covered(p)'
    BY <2>1, StepCovered
  <2>3. Targeted(kfrom)' = Targeted(kfrom) /\ Targeted(kfrom) \in SUBSET Places
    BY <2>1, TargetsIn DEF Targeted
  <2>4. \A p \in Places : p[1] \in DOMAIN ktodo /\ p[2] \in EntriesOf(ktodo[p[1]]) =>
          Covered(p)' \/ (p[1] \in DOMAIN ktodo' /\ p[2] \in EntriesOf(ktodo'[p[1]]))
    BY <1>9, ModuleSet DEF Covered, Has
  <2> QED BY <2>1, <2>2, <2>3, <2>4 DEF FollowedSoon, CoveredSoon, SavePcs
<1>10. CASE ClearDone
  <2>1. CASE knew = {}
    BY <1>10, <2>1 DEF ClearDone, AfterDiscover, FollowedSoon, SavePcs
  <2>2. CASE knew # {}
    <3>1. kdb'.refs = kdb.refs /\ kfrom' = kfrom /\ ktodo' = ktodo /\ kopen /\ kopen'
          /\ kphase' = kphase /\ kpc = "flags"
      BY <1>10, <2>2, DoneCleared DEF ClearDone, WorkTells
    <3>2. \A p \in Places : Covered(p) => Covered(p)'
      BY <3>1, StepCovered
    <3>3. Targeted(kfrom)' = Targeted(kfrom) /\ Targeted(kfrom) \in SUBSET Places
      BY <3>1, TargetsIn DEF Targeted
    <3> QED BY <3>1, <3>2, <3>3 DEF FollowedSoon, CoveredSoon
  <2> QED BY <2>1, <2>2
<1>11. CASE ClearFloatingReferences
  BY <1>11 DEF ClearFloatingReferences, FollowedSoon, SavePcs, WorkTells
<1>12. CASE AnalyzeRange
  BY <1>12 DEF AnalyzeRange, FollowedSoon
<1>13. CASE SetAnalyzed
  BY <1>13 DEF SetAnalyzed, FollowedSoon, SavePcs, WorkTells
<1>14. CASE RefreshFloatingRegion
  BY <1>14 DEF RefreshFloatingRegion, FollowedSoon, SavePcs, WorkTells
<1>15. CASE UnloadRow
  BY <1>15 DEF UnloadRow, FollowedSoon, WorkTells
<1>16. CASE RemoveFloatingModule
  BY <1>16 DEF RemoveFloatingModule, FollowedSoon, SavePcs, WorkTells
<1>17. CASE ClearStale
  BY <1>17 DEF ClearStale, FollowedSoon, SavePcs, WorkTells
<1>18. CASE FailTask
  <2>1. kpc' \in {"idle", "next"}
    BY <1>18, IdlesTells DEF FailTask
  <2> QED BY <2>1 DEF FollowedSoon, SavePcs
<1>19. ASSUME NEW r \in Regions, NEW v \in 0..MaxBytes, Change(r, v)
      PROVE  FollowedSoon'
  <2>1. UNCHANGED <<kdb, kfrom, ktodo, kopen, kphase, kpc>>
    BY <1>19 DEF Change, itemK, workK
  <2>2. kopen => \A p \in Places : Covered(p) => Covered(p)'
    BY <2>1, StepCovered
  <2>3. Targeted(kfrom)' = Targeted(kfrom) /\ Targeted(kfrom) \in SUBSET Places
    BY <2>1, TargetsIn DEF Targeted
  <2> QED BY <2>1, <2>2, <2>3 DEF FollowedSoon, CoveredSoon, WorkTells, SavePcs
<1>20. CASE StartSource
  BY <1>20 DEF StartSource, FollowedSoon, SavePcs, WorkTells
<1>21. ASSUME NEW task \in {"one", "force"}, NEW r \in Regions, StartOne(task, r)
      PROVE  FollowedSoon'
  BY <1>21 DEF StartOne, FollowedSoon, SavePcs, WorkTells
<1>22. CASE ReadSavedFlags
  <2>1. UNCHANGED <<kdb, kfrom, ktodo, kopen, kphase, kpc>>
    BY <1>22 DEF ReadSavedFlags, itemK, workK
  <2>2. kopen => \A p \in Places : Covered(p) => Covered(p)'
    BY <2>1, StepCovered
  <2>3. Targeted(kfrom)' = Targeted(kfrom) /\ Targeted(kfrom) \in SUBSET Places
    BY <2>1, TargetsIn DEF Targeted
  <2> QED BY <2>1, <2>2, <2>3 DEF FollowedSoon, CoveredSoon, WorkTells, SavePcs
<1>23. CASE RestoreSavedFlags
  <2>1. UNCHANGED <<kdb, kfrom, ktodo, kopen, kphase, kpc>>
    BY <1>23 DEF RestoreSavedFlags, itemK, workK
  <2>2. kopen => \A p \in Places : Covered(p) => Covered(p)'
    BY <2>1, StepCovered
  <2>3. Targeted(kfrom)' = Targeted(kfrom) /\ Targeted(kfrom) \in SUBSET Places
    BY <2>1, TargetsIn DEF Targeted
  <2> QED BY <2>1, <2>2, <2>3 DEF FollowedSoon, CoveredSoon, WorkTells, SavePcs
<1>24. CASE EndFloating
  BY <1>24, IdlesTells DEF EndFloating, Leave, FollowedSoon, SavePcs
<1>25. CASE EndInUnloadRow
  BY <1>25, IdlesTells DEF EndInUnloadRow, Leave, FollowedSoon, SavePcs
<1>26. CASE LoadSavedFloatingModules
  BY <1>26 DEF LoadSavedFloatingModules, workK, FollowedSoon, SavePcs, WorkTells
<1>27. CASE UNCHANGED flVars
  <2>1. UNCHANGED <<kdb, kfrom, ktodo, kopen, kphase, kpc>>
    BY <1>27 DEF flVars, itemK, workK
  <2>2. kopen => \A p \in Places : Covered(p) => Covered(p)'
    BY <2>1, StepCovered
  <2>3. Targeted(kfrom)' = Targeted(kfrom) /\ Targeted(kfrom) \in SUBSET Places
    BY <2>1, TargetsIn DEF Targeted
  <2> QED BY <2>1, <2>2, <2>3 DEF FollowedSoon, CoveredSoon, WorkTells, SavePcs
<1> QED BY <1>1, <1>2, <1>3, <1>4, <1>5, <1>6, <1>7, <1>8, <1>9, <1>10, <1>11, <1>12, <1>13,
                <1>14, <1>15, <1>16, <1>17, <1>18, <1>19, <1>20, <1>21, <1>22, <1>23, <1>24,
                <1>25, <1>26, <1>27 DEF FloatingNext, FloatingStep

\* References that go leave no new targets.
LEMMA TargetsShrink ==
  ASSUME kdb'.refs \subseteq kdb.refs
  PROVE  \A s : Targeted(s)' \subseteq Targeted(s)
BY DEF Targeted

\* While the item is open, it is enough that no module is called analyzed, and no
\* longer followed, whose references were not.
LEMMA FollowedKept ==
  ASSUME FloatingTypeOK, WorkTells, TodoTells, EntriesOnDisk, RegionsFollowed,
         [FloatingNext]_flVars, kopen, kopen', kdb'.refs \subseteq kdb.refs,
         \A s \in Regions : Flagged(s)' /\ ~Following(s)' => Flagged(s) /\ ~Following(s)
  PROVE  RegionsFollowed'
<1>1. \A p \in Places : Covered(p) => Covered(p)'
  BY StepCovered
<1>2. \A s : Targeted(s)' \subseteq Targeted(s) /\ Targeted(s) \in SUBSET Places
  BY TargetsShrink, TargetsIn
<1> QED BY <1>1, <1>2 DEF RegionsFollowed

\* A step keeps the references of analyzed regions followed.
LEMMA StepFollowed ==
  ASSUME FloatingTypeOK, WorkTells, TodoTells, EntriesOnDisk, FollowedSoon, RegionsFollowed,
         [FloatingNext]_flVars
  PROVE  RegionsFollowed'
<1>1. CASE StartPass
  <2>1. kopen /\ kopen' /\ kdb'.refs \subseteq kdb.refs
    BY <1>1 DEF StartPass, WorkTells, itemK, workK, windowK
  <2>2. \A s \in Regions : Flagged(s)' /\ ~Following(s)' => Flagged(s) /\ ~Following(s)
    BY <1>1 DEF StartPass, Flagged, Following, SavePcs, WorkTells, itemK, workK, windowK
  <2> QED BY <2>1, <2>2, FollowedKept
<1>2. CASE PassNext
  <2>1. kopen /\ kopen' /\ kdb'.refs \subseteq kdb.refs
    BY <1>2 DEF PassNext, WorkTells, itemK, workK, windowK
  <2>2. \A s \in Regions : Flagged(s)' /\ ~Following(s)' => Flagged(s) /\ ~Following(s)
    BY <1>2 DEF PassNext, Flagged, Following, SavePcs, WorkTells, itemK, workK, windowK
  <2> QED BY <2>1, <2>2, FollowedKept
<1>3. CASE EndTask
  <2>1. kopen /\ kopen' /\ kdb'.refs \subseteq kdb.refs
    BY <1>3, IdlesTells DEF EndTask, WorkTells, itemK, workK, windowK
  <2>2. \A s \in Regions : Flagged(s)' /\ ~Following(s)' => Flagged(s) /\ ~Following(s)
    BY <1>3, IdlesTells DEF EndTask, Flagged, Following, SavePcs, WorkTells, itemK, workK, windowK
  <2> QED BY <2>1, <2>2, FollowedKept
<1>4. CASE Cancelled
  <2>1. kopen /\ kopen' /\ kdb'.refs \subseteq kdb.refs
    BY <1>4, IdlesTells DEF Cancelled, WorkTells, itemK, workK, windowK
  <2>2. \A s \in Regions : Flagged(s)' /\ ~Following(s)' => Flagged(s) /\ ~Following(s)
    BY <1>4, IdlesTells DEF Cancelled, Flagged, Following, SavePcs, WorkTells, itemK, workK, windowK
  <2> QED BY <2>1, <2>2, FollowedKept
<1>5. CASE CollectFloatingRegions
  <2>1. kopen /\ kopen' /\ kdb'.refs \subseteq kdb.refs
    BY <1>5 DEF CollectFloatingRegions, WorkTells, itemK, workK, windowK
  <2>2. \A s \in Regions : Flagged(s)' /\ ~Following(s)' => Flagged(s) /\ ~Following(s)
    BY <1>5
        DEF CollectFloatingRegions, Flagged, Following, SavePcs, WorkTells, itemK, workK, windowK
  <2> QED BY <2>1, <2>2, FollowedKept
<1>6. ASSUME NEW ok \in BOOLEAN, SaveFloatingSnapshot(ok)
      PROVE  RegionsFollowed'
  <2>1. kopen /\ kopen' /\ kdb'.refs \subseteq kdb.refs
    BY <1>6 DEF SaveFloatingSnapshot, WorkTells, itemK, workK, windowK
  <2>2. \A s \in Regions : Flagged(s)' /\ ~Following(s)' => Flagged(s) /\ ~Following(s)
    BY <1>6 DEF SaveFloatingSnapshot, Flagged, Following, SavePcs, WorkTells, itemK, workK, windowK
  <2> QED BY <2>1, <2>2, FollowedKept
<1>7. CASE RegisterRange
  <2>1. kopen /\ kopen' /\ kdb'.refs \subseteq kdb.refs
    BY <1>7, RowRegistered DEF RegisterRange, WorkTells, itemK, workK, windowK
  <2>2. \A s \in Regions : Flagged(s)' /\ ~Following(s)' => Flagged(s) /\ ~Following(s)
    BY <1>7, RowRegistered
        DEF RegisterRange, Flagged, Following, SavePcs, WorkTells, itemK, workK, windowK
  <2> QED BY <2>1, <2>2, FollowedKept
<1>8. CASE InsertRecord
  <2>1. kopen /\ kopen' /\ kdb'.refs \subseteq kdb.refs
    BY <1>8, RecordInserted DEF InsertRecord, WorkTells, itemK, workK, windowK
  <2>2. \A s \in Regions : Flagged(s)' /\ ~Following(s)' => Flagged(s) /\ ~Following(s)
    BY <1>8, RecordInserted
        DEF InsertRecord, Flagged, Following, SavePcs, WorkTells, itemK, workK, windowK
  <2> QED BY <2>1, <2>2, FollowedKept
<1>9. CASE SetFloatingModule
  <2>1. kopen /\ kopen' /\ kdb'.refs \subseteq kdb.refs
    BY <1>9, ModuleSet DEF SetFloatingModule, WorkTells, itemK, workK, windowK
  <2>2. \A s \in Regions : Flagged(s)' /\ ~Following(s)' => Flagged(s) /\ ~Following(s)
    BY <1>9, ModuleSet
        DEF SetFloatingModule, Flagged, Following, SavePcs, WorkTells, itemK, workK, windowK
  <2> QED BY <2>1, <2>2, FollowedKept
<1>10. CASE ClearDone
  <2>1. CASE knew # {}
    <3>1. kopen /\ kopen' /\ kdb'.refs \subseteq kdb.refs
      BY <1>10, <2>1, DoneCleared DEF ClearDone, WorkTells
    <3>2. \A s \in Regions : Flagged(s)' /\ ~Following(s)' => Flagged(s) /\ ~Following(s)
      BY <1>10, <2>1, DoneCleared DEF ClearDone, Flagged, Following
    <3> QED BY <3>1, <3>2, FollowedKept
  <2>2. CASE knew = {}
    <3>1. kopen /\ kopen' /\ UNCHANGED <<kdb, kflags, krestore, kfrom>> /\ kpc = "flags"
          /\ kpc' \in {"next", "end"} /\ kphase = "found" /\ DOMAIN ktodo = {}
      BY <1>10, <2>2 DEF ClearDone, AfterDiscover, WorkTells
    <3>2. \A p \in Places : Covered(p) => Covered(p)'
      BY <3>1, StepCovered
    <3>3. \A s : Targeted(s)' \subseteq Targeted(s) /\ Targeted(s) \in SUBSET Places
      BY <3>1, TargetsShrink, TargetsIn
    <3>4. \A p \in Targeted(kfrom) : Covered(p)
      BY <3>1 DEF FollowedSoon, CoveredSoon
    <3>5. \A s \in Regions : Flagged(s)' => Flagged(s) /\ (Following(s) => s = kfrom)
      BY <3>1 DEF Flagged, Following
    <3> QED BY <3>1, <3>2, <3>3, <3>4, <3>5 DEF RegionsFollowed
  <2> QED BY <2>1, <2>2
<1>11. CASE ClearFloatingReferences
  <2>1. kopen /\ kopen' /\ kdb'.refs \subseteq kdb.refs
    BY <1>11, RefsCleared DEF ClearFloatingReferences, WorkTells, itemK, workK, windowK
  <2>2. \A s \in Regions : Flagged(s)' /\ ~Following(s)' => Flagged(s) /\ ~Following(s)
    BY <1>11, RefsCleared
        DEF ClearFloatingReferences, Flagged, Following, SavePcs, WorkTells, itemK, workK, windowK
  <2> QED BY <2>1, <2>2, FollowedKept
<1>12. CASE AnalyzeRange
  <2> DEFINE code == CodeOf(kfrom, mem[kfrom], EntriesOf(known[kfrom]))
  <2>1. /\ code \subseteq {x \in RefRows : x.from = kfrom} /\ kfrom \in Regions
        /\ kdb'.refs = kdb.refs \cup code /\ kdb'.done = kdb.done
    BY <1>12, RangeAnalyzed
  <2>2. /\ kopen /\ kopen' /\ UNCHANGED <<kflags, krestore, kfrom>>
        /\ kpc = "analyze" /\ kpc' = "row" /\ kphase' = "analyzed"
    BY <1>12 DEF AnalyzeRange, WorkTells, itemK
  <2> HIDE DEF code
  <2>3. \A p \in Places : Covered(p) => Covered(p)'
    BY <2>2, StepCovered
  <2>4. ASSUME NEW s \in Regions, s # kfrom
        PROVE  Targeted(s)' = Targeted(s) /\ Targeted(s) \in SUBSET Places
    <3>1. \A x : x \in kdb'.refs /\ x.from = s <=> x \in kdb.refs /\ x.from = s
      BY <2>1, <2>4
    <3> QED BY <2>4, <3>1, TargetsIn, FloatingAssumption DEF Targeted
  <2>5. Following(kfrom)'
    BY <2>2 DEF Following, SavePcs
  <2>6. \A s \in Regions : Flagged(s)' /\ s # kfrom => Flagged(s) /\ ~Following(s)
    BY <2>1, <2>2 DEF Flagged, Following
  <2> QED BY <2>2, <2>3, <2>4, <2>5, <2>6 DEF RegionsFollowed
<1>13. CASE SetAnalyzed
  <2>1. kfrom \in Regions /\ UpdateFlags(kfrom, {"analyzeDone"}, {})
    BY <1>13 DEF SetAnalyzed, WorkTells, OnePcs
  <2>2. /\ kopen /\ kopen' /\ kdb'.refs \subseteq kdb.refs
        /\ kdb'.done \subseteq kdb.done \cup {kfrom}
        /\ \A q \in Regions : q # kfrom => kflags'[q] = kflags[q]
    BY <1>13, <2>1, AnalyzedSet DEF SetAnalyzed, WorkTells
  <2>3. kpc' = "collect" /\ UNCHANGED <<kfrom, krestore>>
    BY <1>13 DEF SetAnalyzed
  <2>4. \A s \in Regions : Flagged(s)' /\ ~Following(s)' => Flagged(s) /\ ~Following(s)
    BY <2>2, <2>3 DEF Flagged, Following
  <2> QED BY <2>2, <2>4, FollowedKept
<1>14. CASE RefreshFloatingRegion
  <2>1. kopen /\ kopen' /\ kdb'.refs \subseteq kdb.refs
    BY <1>14 DEF RefreshFloatingRegion, WorkTells, itemK, workK, windowK
  <2>2. \A s \in Regions : Flagged(s)' /\ ~Following(s)' => Flagged(s) /\ ~Following(s)
    BY <1>14
        DEF RefreshFloatingRegion, Flagged, Following, SavePcs, WorkTells, itemK, workK, windowK
  <2> QED BY <2>1, <2>2, FollowedKept
<1>15. CASE UnloadRow
  <2>1. kopen /\ kopen' /\ kdb'.refs \subseteq kdb.refs
    BY <1>15, RowUnloaded DEF UnloadRow, WorkTells, itemK, workK, windowK
  <2>2. \A s \in Regions : Flagged(s)' /\ ~Following(s)' => Flagged(s) /\ ~Following(s)
    BY <1>15, RowUnloaded
        DEF UnloadRow, Flagged, Following, SavePcs, WorkTells, itemK, workK, windowK
  <2> QED BY <2>1, <2>2, FollowedKept
<1>16. CASE RemoveFloatingModule
  <2>1. kopen /\ kopen' /\ kdb'.refs \subseteq kdb.refs
    BY <1>16 DEF RemoveFloatingModule, WorkTells
  <2>2. \A s \in Regions : kflags'[s] \subseteq kflags[s]
    BY <1>16 DEF RemoveFloatingModule, FloatingTypeOK
  <2>3. \A s \in Regions : Flagged(s)' /\ ~Following(s)' => Flagged(s) /\ ~Following(s)
    BY <1>16, <2>2 DEF RemoveFloatingModule, Flagged, Following, SavePcs
  <2> QED BY <2>1, <2>3, FollowedKept
<1>17. CASE ClearStale
  <2>1. kopen /\ kopen' /\ kdb'.refs \subseteq kdb.refs
    BY <1>17, StaleCleared DEF ClearStale, WorkTells, itemK, workK, windowK
  <2>2. \A s \in Regions : Flagged(s)' /\ ~Following(s)' => Flagged(s) /\ ~Following(s)
    BY <1>17, StaleCleared
        DEF ClearStale, Flagged, Following, SavePcs, WorkTells, itemK, workK, windowK
  <2> QED BY <2>1, <2>2, FollowedKept
<1>18. CASE FailTask
  <2>1. kopen /\ kopen' /\ kdb'.refs \subseteq kdb.refs /\ kpc' \in {"next", "idle"}
        /\ (kfrom \in Regions => {p[1] : p \in Targeted(kfrom)} \subseteq kmissed')
    <3>1. CASE ktask = "pass"
      BY <1>18, <3>1, PassGivesUp DEF WorkTells, FailTask
    <3>2. CASE ktask # "pass"
      BY <1>18, <3>2, IdlesTells DEF WorkTells, FailTask
    <3> QED BY <3>1, <3>2
  <2>2. \A s \in Regions : Flagged(s)' /\ s # kfrom => Flagged(s)
    <3>1. CASE ktask = "pass"
      BY <1>18, <3>1, PassGivesUp DEF Flagged
    <3>2. CASE ktask # "pass"
      BY <1>18, <3>2 DEF FailTask, Flagged
    <3> QED BY <3>1, <3>2
  <2>3. \A p \in Places : Covered(p) => Covered(p)'
    BY <2>1, StepCovered
  <2>4. \A s : Targeted(s)' \subseteq Targeted(s) /\ Targeted(s) \in SUBSET Places
    BY <2>1, TargetsShrink, TargetsIn
  <2>5. kfrom \in Regions => \A p \in Targeted(kfrom) : Covered(p)'
    BY <2>1 DEF Covered, Gone
  <2>6. \A s \in Regions : Following(s) => s = kfrom
    BY DEF Following
  <2> QED BY <2>1, <2>2, <2>3, <2>4, <2>5, <2>6 DEF RegionsFollowed
<1>19. ASSUME NEW r \in Regions, NEW v \in 0..MaxBytes, Change(r, v)
      PROVE  RegionsFollowed'
  <2>1. UNCHANGED <<kdb, kflags, krestore, kfrom, kopen, kphase, kpc>>
    BY <1>19 DEF Change, itemK, workK
  <2>2. CASE kopen
    <3>1. \A s \in Regions : Flagged(s)' /\ ~Following(s)' => Flagged(s) /\ ~Following(s)
      BY <2>1 DEF Flagged, Following
    <3> QED BY <2>1, <2>2, <3>1, FollowedKept
  <2>3. CASE ~kopen
    <3>1. \A q \in Regions : Gone(q) => Gone(q)'
      BY StepGone
    <3>2. \A s : Targeted(s)' \subseteq Targeted(s) /\ Targeted(s) \in SUBSET Places
      BY <2>1, TargetsShrink, TargetsIn
    <3>3. \A p \in Places : CoveredOnDisk(p) => CoveredOnDisk(p)'
      BY <2>1, <3>1 DEF CoveredOnDisk, Places
    <3> QED BY <2>1, <2>3, <3>2, <3>3 DEF RegionsFollowed
  <2> QED BY <2>2, <2>3
<1>20. CASE StartSource
  <2>1. kopen /\ kopen' /\ kdb'.refs \subseteq kdb.refs
    BY <1>20 DEF StartSource, WorkTells, itemK, workK, windowK
  <2>2. \A s \in Regions : Flagged(s)' /\ ~Following(s)' => Flagged(s) /\ ~Following(s)
    BY <1>20 DEF StartSource, Flagged, Following, SavePcs, WorkTells, itemK, workK, windowK
  <2> QED BY <2>1, <2>2, FollowedKept
<1>21. ASSUME NEW task \in {"one", "force"}, NEW r \in Regions, StartOne(task, r)
      PROVE  RegionsFollowed'
  <2>1. kopen /\ kopen' /\ kdb'.refs \subseteq kdb.refs
    BY <1>21 DEF StartOne, WorkTells, itemK, workK, windowK
  <2>2. \A s \in Regions : Flagged(s)' /\ ~Following(s)' => Flagged(s) /\ ~Following(s)
    BY <1>21 DEF StartOne, Flagged, Following, SavePcs, WorkTells, itemK, workK, windowK
  <2> QED BY <2>1, <2>2, FollowedKept
<1>22. CASE ReadSavedFlags
  <2>1. /\ UNCHANGED <<kdb, kfrom, kopen, kphase, kpc>>
        /\ kopen
    BY <1>22 DEF ReadSavedFlags, itemK, workK, RegionsFollowed
  <2>2. \A s \in Regions : Flagged(s)' /\ ~Following(s)' => Flagged(s) /\ ~Following(s)
    BY <1>22, <2>1 DEF ReadSavedFlags, Flagged, Following, itemK
  <2> QED BY <2>1, <2>2, FollowedKept
<1>23. CASE RestoreSavedFlags
  <2>1. /\ UNCHANGED <<kdb, kfrom, kopen, kphase, kpc>>
        /\ kopen
    BY <1>23 DEF RestoreSavedFlags, itemK, workK, RegionsFollowed
  <2>2. \A s \in Regions : Flagged(s)' /\ ~Following(s)' => Flagged(s) /\ ~Following(s)
    BY <1>23, <2>1 DEF RestoreSavedFlags, Flagged, Following, itemK
  <2> QED BY <2>1, <2>2, FollowedKept
<1>24. CASE EndFloating
  <2>1. /\ kopen /\ ~kopen' /\ krestore' = {} /\ mem' = mem
        /\ kmissed' = kmissed \cup NotFollowed
        /\ kdb'.record = kdb.record /\ kdb'.done = kdb.done /\ kdb'.refs \subseteq kdb.refs
    BY <1>24 DEF EndFloating, Leave
  <2>2. \A s : Targeted(s)' \subseteq Targeted(s) /\ Targeted(s) \in SUBSET Places
    BY <2>1, TargetsShrink, TargetsIn
  <2>3. ASSUME NEW s \in kdb.done, NEW p \in Targeted(s)
        PROVE  CoveredOnDisk(p)'
    <3>1. s \in Regions /\ p[1] \in Regions
      BY <2>2 DEF FloatingTypeOK, Tables, Places
    <3>2. CASE Following(s)
      <4>1. kfrom \in kdb.done /\ p \in Targeted(kfrom)
            /\ kpc \in {"collect", "snap", "row", "record", "set", "done", "flags"}
        BY <2>3, <3>2 DEF Following, SavePcs
      <4>2. p[1] \in NotFollowed
        BY <4>1 DEF NotFollowed
      <4> QED BY <2>1, <4>2 DEF CoveredOnDisk, Gone
    <3>3. CASE ~Following(s)
      <4>1. Covered(p)
        BY <2>1, <2>3, <3>1, <3>3 DEF RegionsFollowed, Flagged
      <4>2. CASE Gone(p[1])
        BY <2>1, <4>2 DEF CoveredOnDisk, Gone
      <4>3. CASE Has(known[p[1]], p[2]) /\ ~Gone(p[1])
        <5>1. CASE Renewed(p[1], {"row", "record"})
          <6>1. p[1] \in NotFollowed
            BY <5>1 DEF Renewed, NotFollowed
          <6> QED BY <2>1, <6>1 DEF CoveredOnDisk, Gone
        <5>2. CASE ~Renewed(p[1], {"row", "record"})
          <6>1. Has(kdb.record[p[1]], p[2])
            BY <2>1, <3>1, <4>3, <5>2 DEF EntriesOnDisk, Has
          <6> QED BY <2>1, <6>1 DEF CoveredOnDisk
        <5> QED BY <5>1, <5>2
      <4> QED BY <4>1, <4>2, <4>3 DEF Covered
    <3> QED BY <3>2, <3>3
  <2> QED BY <2>1, <2>2, <2>3 DEF RegionsFollowed
<1>25. CASE EndInUnloadRow
  <2>1. /\ kopen /\ ~kopen' /\ krestore' = {} /\ mem' = mem
        /\ kmissed' = kmissed \cup NotFollowed
        /\ kdb'.record = kdb.record /\ kdb'.done = kdb.done /\ kdb'.refs \subseteq kdb.refs
    BY <1>25, RefsCleared DEF EndInUnloadRow, Leave
  <2>2. \A s : Targeted(s)' \subseteq Targeted(s) /\ Targeted(s) \in SUBSET Places
    BY <2>1, TargetsShrink, TargetsIn
  <2>3. ASSUME NEW s \in kdb.done, NEW p \in Targeted(s)
        PROVE  CoveredOnDisk(p)'
    <3>1. s \in Regions /\ p[1] \in Regions
      BY <2>2 DEF FloatingTypeOK, Tables, Places
    <3>2. CASE Following(s)
      <4>1. kfrom \in kdb.done /\ p \in Targeted(kfrom)
            /\ kpc \in {"collect", "snap", "row", "record", "set", "done", "flags"}
        BY <2>3, <3>2 DEF Following, SavePcs
      <4>2. p[1] \in NotFollowed
        BY <4>1 DEF NotFollowed
      <4> QED BY <2>1, <4>2 DEF CoveredOnDisk, Gone
    <3>3. CASE ~Following(s)
      <4>1. Covered(p)
        BY <2>1, <2>3, <3>1, <3>3 DEF RegionsFollowed, Flagged
      <4>2. CASE Gone(p[1])
        BY <2>1, <4>2 DEF CoveredOnDisk, Gone
      <4>3. CASE Has(known[p[1]], p[2]) /\ ~Gone(p[1])
        <5>1. CASE Renewed(p[1], {"row", "record"})
          <6>1. p[1] \in NotFollowed
            BY <5>1 DEF Renewed, NotFollowed
          <6> QED BY <2>1, <6>1 DEF CoveredOnDisk, Gone
        <5>2. CASE ~Renewed(p[1], {"row", "record"})
          <6>1. Has(kdb.record[p[1]], p[2])
            BY <2>1, <3>1, <4>3, <5>2 DEF EntriesOnDisk, Has
          <6> QED BY <2>1, <6>1 DEF CoveredOnDisk
        <5> QED BY <5>1, <5>2
      <4> QED BY <4>1, <4>2, <4>3 DEF Covered
    <3> QED BY <3>2, <3>3
  <2> QED BY <2>1, <2>2, <2>3 DEF RegionsFollowed
<1>26. CASE LoadSavedFloatingModules
  <2>1. /\ ~kopen /\ kopen' /\ known' = kdb.record
        /\ UNCHANGED <<mem, kdb, krestore, kmissed>> /\ krestore = {}
    BY <1>26 DEF LoadSavedFloatingModules, RegionsFollowed, windowK
  <2>2. \A s \in Regions : "analyzeDone" \in kflags'[s] => s \in kdb.done
    BY <1>26 DEF LoadSavedFloatingModules
  <2>3. \A s : Targeted(s)' \subseteq Targeted(s)
    BY <2>1, TargetsShrink
  <2>4. \A p : CoveredOnDisk(p) => Covered(p)'
    BY <2>1 DEF CoveredOnDisk, Covered, Gone
  <2> QED BY <2>1, <2>2, <2>3, <2>4 DEF RegionsFollowed, Flagged
<1>27. CASE UNCHANGED flVars
  <2>1. UNCHANGED <<kdb, kflags, krestore, kfrom, kopen, kphase, kpc>>
    BY <1>27 DEF flVars, itemK, workK
  <2>2. CASE kopen
    <3>1. \A s \in Regions : Flagged(s)' /\ ~Following(s)' => Flagged(s) /\ ~Following(s)
      BY <2>1 DEF Flagged, Following
    <3> QED BY <2>1, <2>2, <3>1, FollowedKept
  <2>3. CASE ~kopen
    <3>1. \A q \in Regions : Gone(q) => Gone(q)'
      BY StepGone
    <3>2. \A s : Targeted(s)' \subseteq Targeted(s) /\ Targeted(s) \in SUBSET Places
      BY <2>1, TargetsShrink, TargetsIn
    <3>3. \A p \in Places : CoveredOnDisk(p) => CoveredOnDisk(p)'
      BY <2>1, <3>1 DEF CoveredOnDisk, Places
    <3> QED BY <2>1, <2>3, <3>2, <3>3 DEF RegionsFollowed
  <2> QED BY <2>2, <2>3
<1> QED BY <1>1, <1>2, <1>3, <1>4, <1>5, <1>6, <1>7, <1>8, <1>9, <1>10, <1>11, <1>12, <1>13,
                <1>14, <1>15, <1>16, <1>17, <1>18, <1>19, <1>20, <1>21, <1>22, <1>23, <1>24,
                <1>25, <1>26, <1>27 DEF FloatingNext, FloatingStep


\* The same for the source.
LEMMA SourceKept ==
  ASSUME FloatingTypeOK, WorkTells, TodoTells, EntriesOnDisk, SourceFollowed,
         [FloatingNext]_flVars, kwhole' => kwhole /\ kopen /\ kopen',
         kwhole' /\ Following(Source) => Following(Source)'
  PROVE  SourceFollowed'
<1>1. kopen /\ kopen' => \A p \in Places : Covered(p) => Covered(p)'
  BY StepCovered
<1>2. Targeted(Source)' = Targeted(Source) /\ Targeted(Source) \in SUBSET Places
  BY TargetsIn DEF Targeted
<1> QED BY <1>1, <1>2 DEF SourceFollowed

\* A step keeps the references of the source followed.
LEMMA StepSource ==
  ASSUME FloatingTypeOK, WorkTells, TodoTells, EntriesOnDisk, FollowedSoon, SourceFollowed,
         [FloatingNext]_flVars
  PROVE  SourceFollowed'
<1>1. CASE StartPass
  <2>1. /\ kwhole' => kwhole /\ kopen /\ kopen'
        /\ kwhole' /\ Following(Source) => Following(Source)'
    BY <1>1, FloatingAssumption
        DEF StartPass, SourceFollowed, Following, SavePcs, WorkTells, itemK, workK, windowK
  <2> QED BY <2>1, SourceKept
<1>2. CASE PassNext
  <2>1. /\ kwhole' => kwhole /\ kopen /\ kopen'
        /\ kwhole' /\ Following(Source) => Following(Source)'
    BY <1>2, FloatingAssumption
        DEF PassNext, SourceFollowed, Following, SavePcs, WorkTells, itemK, workK, windowK
  <2> QED BY <2>1, SourceKept
<1>3. CASE EndTask
  <2>1. /\ kwhole' => kwhole /\ kopen /\ kopen'
        /\ kwhole' /\ Following(Source) => Following(Source)'
    BY <1>3, IdlesTells, FloatingAssumption
        DEF EndTask, SourceFollowed, Following, SavePcs, WorkTells, itemK, workK, windowK
  <2> QED BY <2>1, SourceKept
<1>4. CASE Cancelled
  BY <1>4 DEF Cancelled, SourceFollowed
<1>5. CASE CollectFloatingRegions
  <2>1. /\ kwhole' => kwhole /\ kopen /\ kopen'
        /\ kwhole' /\ Following(Source) => Following(Source)'
    BY <1>5, FloatingAssumption
        DEF CollectFloatingRegions, SourceFollowed, Following, SavePcs, WorkTells,
            itemK, workK, windowK
  <2> QED BY <2>1, SourceKept
<1>6. ASSUME NEW ok \in BOOLEAN, SaveFloatingSnapshot(ok)
      PROVE  SourceFollowed'
  <2>1. /\ kwhole' => kwhole /\ kopen /\ kopen'
        /\ kwhole' /\ Following(Source) => Following(Source)'
    BY <1>6, FloatingAssumption
        DEF SaveFloatingSnapshot, SourceFollowed, Following, SavePcs, WorkTells,
            itemK, workK, windowK
  <2> QED BY <2>1, SourceKept
<1>7. CASE RegisterRange
  <2>1. /\ kwhole' => kwhole /\ kopen /\ kopen'
        /\ kwhole' /\ Following(Source) => Following(Source)'
    BY <1>7, FloatingAssumption
        DEF RegisterRange, SourceFollowed, Following, SavePcs, WorkTells, itemK, workK, windowK
  <2> QED BY <2>1, SourceKept
<1>8. CASE InsertRecord
  <2>1. /\ kwhole' => kwhole /\ kopen /\ kopen'
        /\ kwhole' /\ Following(Source) => Following(Source)'
    BY <1>8, FloatingAssumption
        DEF InsertRecord, SourceFollowed, Following, SavePcs, WorkTells, itemK, workK, windowK
  <2> QED BY <2>1, SourceKept
<1>9. CASE SetFloatingModule
  <2>1. /\ kwhole' => kwhole /\ kopen /\ kopen'
        /\ kwhole' /\ Following(Source) => Following(Source)'
    BY <1>9, ModuleSet, FloatingAssumption
        DEF SetFloatingModule, SourceFollowed, Following, SavePcs, WorkTells, itemK, workK, windowK
  <2> QED BY <2>1, SourceKept
<1>10. CASE ClearDone
  <2>1. CASE knew # {}
    <3>1. /\ kwhole' => kwhole /\ kopen /\ kopen'
          /\ kwhole' /\ Following(Source) => Following(Source)'
      BY <1>10, <2>1 DEF ClearDone, SourceFollowed, Following, windowK
    <3> QED BY <3>1, SourceKept
  <2>2. CASE knew = {}
    <3>1. kopen /\ kopen' /\ UNCHANGED <<kfrom, kwhole>> /\ kpc = "flags"
          /\ kphase = "found" /\ DOMAIN ktodo = {}
      BY <1>10, <2>2 DEF ClearDone, WorkTells, windowK
    <3>2. \A p \in Places : Covered(p) => Covered(p)'
      BY <3>1, StepCovered
    <3>3. Targeted(Source)' = Targeted(Source) /\ Targeted(Source) \in SUBSET Places
      BY TargetsIn DEF Targeted
    <3>4. kfrom = Source => \A p \in Targeted(Source) : Covered(p)
      BY <3>1 DEF FollowedSoon, CoveredSoon
    <3>5. Following(Source) => kfrom = Source
      BY DEF Following
    <3> QED BY <3>1, <3>2, <3>3, <3>4, <3>5 DEF SourceFollowed
  <2> QED BY <2>1, <2>2
<1>11. CASE ClearFloatingReferences
  <2>1. /\ kwhole' => kwhole /\ kopen /\ kopen'
        /\ kwhole' /\ Following(Source) => Following(Source)'
    BY <1>11, FloatingAssumption
        DEF ClearFloatingReferences, SourceFollowed, Following, SavePcs, WorkTells,
            itemK, workK, windowK
  <2> QED BY <2>1, SourceKept
<1>12. CASE AnalyzeRange
  <2>1. /\ kwhole' => kwhole /\ kopen /\ kopen'
        /\ kwhole' /\ Following(Source) => Following(Source)'
    BY <1>12, FloatingAssumption
        DEF AnalyzeRange, SourceFollowed, Following, SavePcs, WorkTells, itemK, workK, windowK
  <2> QED BY <2>1, SourceKept
<1>13. CASE SetAnalyzed
  <2>1. /\ kwhole' => kwhole /\ kopen /\ kopen'
        /\ kwhole' /\ Following(Source) => Following(Source)'
    BY <1>13, FloatingAssumption
        DEF SetAnalyzed, SourceFollowed, Following, SavePcs, WorkTells, itemK, workK, windowK
  <2> QED BY <2>1, SourceKept
<1>14. CASE RefreshFloatingRegion
  <2>1. /\ kwhole' => kwhole /\ kopen /\ kopen'
        /\ kwhole' /\ Following(Source) => Following(Source)'
    BY <1>14, FloatingAssumption
        DEF RefreshFloatingRegion, SourceFollowed, Following, SavePcs, WorkTells,
            itemK, workK, windowK
  <2> QED BY <2>1, SourceKept
<1>15. CASE UnloadRow
  <2>1. /\ kwhole' => kwhole /\ kopen /\ kopen'
        /\ kwhole' /\ Following(Source) => Following(Source)'
    BY <1>15, FloatingAssumption
        DEF UnloadRow, SourceFollowed, Following, SavePcs, WorkTells, itemK, workK, windowK
  <2> QED BY <2>1, SourceKept
<1>16. CASE RemoveFloatingModule
  <2>1. /\ kwhole' => kwhole /\ kopen /\ kopen'
        /\ kwhole' /\ Following(Source) => Following(Source)'
    BY <1>16, FloatingAssumption
        DEF RemoveFloatingModule, SourceFollowed, Following, SavePcs, WorkTells,
            itemK, workK, windowK
  <2> QED BY <2>1, SourceKept
<1>17. CASE ClearStale
  <2>1. /\ kwhole' => kwhole /\ kopen /\ kopen'
        /\ kwhole' /\ Following(Source) => Following(Source)'
    BY <1>17, FloatingAssumption
        DEF ClearStale, SourceFollowed, Following, SavePcs, WorkTells, itemK, workK, windowK
  <2> QED BY <2>1, SourceKept
<1>18. CASE FailTask
  BY <1>18 DEF FailTask, SourceFollowed
<1>19. ASSUME NEW r \in Regions, NEW v \in 0..MaxBytes, Change(r, v)
      PROVE  SourceFollowed'
  <2>1. /\ kwhole' => kwhole /\ kopen /\ kopen'
        /\ kwhole' /\ Following(Source) => Following(Source)'
    BY <1>19, FloatingAssumption
        DEF Change, SourceFollowed, Following, SavePcs, WorkTells, itemK, workK, windowK
  <2> QED BY <2>1, SourceKept
<1>20. CASE StartSource
  BY <1>20 DEF StartSource, SourceFollowed, Following, itemK
<1>21. ASSUME NEW task \in {"one", "force"}, NEW r \in Regions, StartOne(task, r)
      PROVE  SourceFollowed'
  <2>1. /\ kwhole' => kwhole /\ kopen /\ kopen'
        /\ kwhole' /\ Following(Source) => Following(Source)'
    BY <1>21, FloatingAssumption
        DEF StartOne, SourceFollowed, Following, SavePcs, WorkTells, itemK, workK, windowK
  <2> QED BY <2>1, SourceKept
<1>22. CASE ReadSavedFlags
  <2>1. /\ kwhole' => kwhole /\ kopen /\ kopen'
        /\ kwhole' /\ Following(Source) => Following(Source)'
    BY <1>22, FloatingAssumption
        DEF ReadSavedFlags, SourceFollowed, Following, SavePcs, WorkTells, itemK, workK, windowK
  <2> QED BY <2>1, SourceKept
<1>23. CASE RestoreSavedFlags
  <2>1. /\ kwhole' => kwhole /\ kopen /\ kopen'
        /\ kwhole' /\ Following(Source) => Following(Source)'
    BY <1>23, FloatingAssumption
        DEF RestoreSavedFlags, SourceFollowed, Following, SavePcs, WorkTells, itemK, workK, windowK
  <2> QED BY <2>1, SourceKept
<1>24. CASE EndFloating
  BY <1>24 DEF EndFloating, Leave, SourceFollowed
<1>25. CASE EndInUnloadRow
  BY <1>25 DEF EndInUnloadRow, Leave, SourceFollowed
<1>26. CASE LoadSavedFloatingModules
  BY <1>26 DEF LoadSavedFloatingModules, SourceFollowed, windowK
<1>27. CASE UNCHANGED flVars
  <2>1. /\ kwhole' => kwhole /\ kopen /\ kopen'
        /\ kwhole' /\ Following(Source) => Following(Source)'
    BY <1>27, FloatingAssumption
        DEF flVars, SourceFollowed, Following, SavePcs, WorkTells, itemK, workK, windowK
  <2> QED BY <2>1, SourceKept
<1> QED BY <1>1, <1>2, <1>3, <1>4, <1>5, <1>6, <1>7, <1>8, <1>9, <1>10, <1>11, <1>12, <1>13,
                <1>14, <1>15, <1>16, <1>17, <1>18, <1>19, <1>20, <1>21, <1>22, <1>23, <1>24,
                <1>25, <1>26, <1>27 DEF FloatingNext, FloatingStep

------------------------------------------------------------------------------
(* The theorems.                                                             *)

\* The item opens on an empty database.
LEMMA FloatingInitial == FloatingInit => FloatingInv
<1> SUFFICES ASSUME FloatingInit PROVE FloatingInv
  OBVIOUS
<1>1. /\ kdb.rows = {} /\ kdb.done = {} /\ kdb.refs = {} /\ DOMAIN ktodo = {}
      /\ kdb.record = [r \in Regions |-> NoRegion]
  BY DEF FloatingInit, NoRecords
<1>2. kdb \in Tables
  BY DEF FloatingInit, NoRecords, Tables
<1>3. /\ known = [r \in Regions |-> NoRegion] /\ kflags = [r \in Regions |-> {}]
      /\ mem \in [Regions -> {0, 1}] /\ snaps = {} /\ kopen = TRUE
      /\ kpc = "idle" /\ ktask = "source" /\ kfrom = Source /\ kphase = "found"
      /\ knew = {} /\ kpass = {} /\ kqueued = FALSE
      /\ krestore = {} /\ kcut = {} /\ kmissed = {} /\ kwhole = FALSE
  BY DEF FloatingInit
<1>4. mem \in [Regions -> 0..MaxBytes]
  BY <1>3, FloatingAssumption
<1>5. FloatingTypeOK
  BY <1>1, <1>2, <1>3, <1>4 DEF FloatingTypeOK
<1>6. WorkTells /\ PassTells
  BY <1>1, <1>3 DEF WorkTells, PassTells, SavePcs, OnePcs
<1>7. BytesTell /\ StaleIsCut
  BY <1>1, <1>3 DEF BytesTell, Named, Fits, StaleIsCut
<1>8. RowsFirst /\ RecordIsKnown /\ TodoTells
  BY <1>1, <1>3 DEF RowsFirst, RecordIsKnown, TodoTells, SavePcs
<1>9. RefsAreOwn /\ Unloaded /\ AnalyzedAll /\ DoneHasAll
  BY <1>1, <1>3 DEF RefsAreOwn, RefsOf, Unloaded, AnalyzedAll, DoneHasAll
<1>10. FlagsAreSaved /\ NothingPends
  BY <1>3 DEF FlagsAreSaved, NothingPends
<1>11. RegionsFollowed /\ SourceFollowed /\ FollowedSoon /\ EntriesOnDisk
  BY <1>1, <1>3 DEF RegionsFollowed, Flagged, SourceFollowed, FollowedSoon, EntriesOnDisk, SavePcs
<1> QED BY <1>5, <1>6, <1>7, <1>8, <1>9, <1>10, <1>11 DEF FloatingInv

\* Every part of the invariant is kept by every step.
LEMMA FloatingStepInv == FloatingInv /\ [FloatingNext]_flVars => FloatingInv'
<1> SUFFICES ASSUME FloatingInv, [FloatingNext]_flVars PROVE FloatingInv'
  OBVIOUS
<1>1. FloatingTypeOK'
  BY StepTypes DEF FloatingInv
<1>2. WorkTells'
  BY <1>1, StepWork DEF FloatingInv
<1>3. PassTells'
  BY <1>1, <1>2, StepPass DEF FloatingInv
<1>4. BytesTell' /\ StaleIsCut'
  BY <1>1, <1>2, StepBytes, StepStale DEF FloatingInv
<1>5. RowsFirst' /\ RecordIsKnown' /\ TodoTells'
  BY <1>1, <1>2, StepRows, StepRecords, StepTodo DEF FloatingInv
<1>6. RefsAreOwn' /\ Unloaded'
  BY <1>1, <1>2, StepRefs, StepUnloaded DEF FloatingInv
<1>7. AnalyzedAll' /\ DoneHasAll'
  BY <1>1, <1>2, StepAnalyzed, StepDone DEF FloatingInv
<1>8. FlagsAreSaved' /\ NothingPends'
  BY <1>1, <1>2, StepFlags, StepPending DEF FloatingInv
<1>9. EntriesOnDisk' /\ FollowedSoon'
  BY <1>1, <1>2, StepEntries, StepSoon DEF FloatingInv
<1>10. RegionsFollowed' /\ SourceFollowed'
  BY StepFollowed, StepSource DEF FloatingInv
<1> QED BY <1>1, <1>2, <1>3, <1>4, <1>5, <1>6, <1>7, <1>8, <1>9, <1>10 DEF FloatingInv

\* The invariant holds in every behaviour of the analyzer, the process, the user
\* and the ends of Orthia.
THEOREM FloatingInvariant == FloatingSpec => []FloatingInv
BY FloatingInitial, FloatingStepInv, PTL DEF FloatingSpec

\* A saved floating module can be relied on after a reopen: its snapshot is there
\* and has the bytes it is recognised by, and "analyzed" on the disk is true of
\* every entry in its record (SaveFloatingSnapshot, SaveFloatingRegion,
\* UpdateModuleFlags), but after one of the windows.
THEOREM SavedRegionsTell == FloatingSpec => []RecordsTell
<1>1. FloatingInv => RecordsTell
  <2> SUFFICES ASSUME FloatingInv PROVE RecordsTell
    OBVIOUS
  <2>1. SnapshotThere
    BY DEF FloatingInv, BytesTell, Named, Fits, SnapshotThere
  <2>2. ASSUME NEW r \in kdb.done \ (kcut \cup HalfAnalyzed), kdb.record[r] # NoRegion
        PROVE  CodeIn(r, kdb.record[r]) = {x \in kdb.refs : x.from = r}
    <3>1. r \in Regions /\ kdb.record[r] \in RegionInfos
      BY <2>2 DEF FloatingInv, FloatingTypeOK, Tables
    <3>2. {x \in kdb.refs : x.from = r} \subseteq CodeIn(r, kdb.record[r])
      BY <2>2, <3>1 DEF FloatingInv, RefsAreOwn, RefsOf
    <3>3. CodeIn(r, kdb.record[r]) \subseteq kdb.refs
      BY <2>2 DEF FloatingInv, DoneHasAll
    <3>4. \A x \in CodeIn(r, kdb.record[r]) : x.from = r
      BY <3>1, CodeInIsOwn DEF CodeIn
    <3> QED BY <3>2, <3>3, <3>4
  <2>3. RecordTells
    BY <2>2 DEF RecordTells, CodeIn
  <2> QED BY <2>1, <2>3 DEF RecordsTell
<1> QED BY <1>1, FloatingInvariant, PTL

\* When the analyzer rests after an .analyze of the source, the passes have come to
\* the fixed point (DiscoverFloatingCode, AnalyzeFloatingModule): every reference
\* into memory leads to a recorded entry and every entry was analyzed, whatever
\* the regions lead to and however the steps were interrupted before.
THEOREM PassesClose == FloatingSpec => []FloatingClosed
<1>1. FloatingInv => FloatingClosed
  <2> SUFFICES ASSUME FloatingInv, kopen, kpc = "idle", ~kqueued, kwhole
               PROVE  FloatingClosed
    BY DEF FloatingClosed
  <2>1. PendingFloating = {}
    BY DEF FloatingInv, NothingPends
  <2>2. \A r \in Regions : known[r] # NoRegion /\ "stale" \notin kflags[r] =>
          "analyzeDone" \in kflags[r]
    BY <2>1 DEF PendingFloating, FloatingInv, FloatingTypeOK
  <2>3. ASSUME NEW s \in {Source} \cup {r \in Regions : known[r] # NoRegion
                                                       /\ "stale" \notin kflags[r]},
               NEW p \in Places, p \in Targeted(s), mem[p[1]] # 0, p[1] \notin kmissed
        PROVE  known[p[1]] # NoRegion /\ p[2] \in EntriesOf(known[p[1]])
    <3>1. ~Following(s)
      BY DEF Following, SavePcs
    <3>2. Covered(p)
      BY <2>2, <2>3, <3>1 DEF FloatingInv, RegionsFollowed, SourceFollowed, Flagged
    <3> QED BY <2>3, <3>2 DEF Covered, Gone, Has
  <2>4. ASSUME NEW r \in Regions \ kcut, known[r] # NoRegion, "stale" \notin kflags[r]
        PROVE  CodeOf(r, known[r].hash, EntriesOf(known[r])) = {x \in kdb.refs : x.from = r}
    <3>1. kdb.record[r] = known[r]
      BY <2>4 DEF FloatingInv, RecordIsKnown
    <3>2. r \in kdb.done
      BY <2>2, <2>4 DEF FloatingInv, FlagsAreSaved, Renewed
    <3>3. r \notin HalfAnalyzed
      BY DEF HalfAnalyzed
    <3>4. known[r] \in RegionInfos
      BY <2>4 DEF FloatingInv, FloatingTypeOK
    <3>5. {x \in kdb.refs : x.from = r} \subseteq CodeIn(r, known[r])
      BY <2>4, <3>1 DEF FloatingInv, RefsAreOwn, RefsOf
    <3>6. CodeIn(r, known[r]) \subseteq kdb.refs
      BY <2>4, <3>1, <3>2, <3>3 DEF FloatingInv, DoneHasAll
    <3>7. \A x \in CodeIn(r, known[r]) : x.from = r
      BY <2>4, <3>4, CodeInIsOwn DEF CodeIn
    <3> QED BY <3>5, <3>6, <3>7 DEF CodeIn
  <2> QED BY <2>1, <2>3, <2>4 DEF FloatingClosed
<1> QED BY <1>1, FloatingInvariant, PTL

\* The references of a stale module stay as they were until .analyze /f of it.
THEOREM StaleIsKept == FloatingSpec => StaleKept
<1> DEFINE Kept == \A r \in Regions : "stale" \in kflags[r] /\ ~(ktask = "force" /\ kfrom = r)
                     => {x \in kdb.refs : x.from = r} = {x \in kdb'.refs : x.from = r}
<1>1. FloatingInv /\ [FloatingNext]_flVars => [Kept]_flVars
  <2> SUFFICES ASSUME FloatingInv, FloatingNext PROVE Kept
    OBVIOUS
  <2>0. FloatingTypeOK /\ WorkTells /\ PassTells
    BY DEF FloatingInv
  <2>1. CASE kdb'.refs = kdb.refs
    BY <2>1
  <2>2. CASE ClearFloatingReferences
    <3>1. kdb'.refs = {x \in kdb.refs : x.from # kfrom} /\ ktask = "force"
      BY <2>0, <2>2, RefsCleared DEF ClearFloatingReferences, WorkTells
    <3> QED BY <3>1
  <2>3. CASE AnalyzeRange
    <3> DEFINE code == CodeOf(kfrom, mem[kfrom], EntriesOf(known[kfrom]))
    <3>1. /\ code \subseteq {x \in RefRows : x.from = kfrom} /\ kdb'.refs = kdb.refs \cup code
          /\ kfrom \in Regions
      BY <2>0, <2>3, RangeAnalyzed
    <3>2. "stale" \notin kflags[kfrom]
      BY <2>0, <2>3 DEF AnalyzeRange, PassTells
    <3> HIDE DEF code
    <3> QED BY <3>1, <3>2
  <2>4. CASE UnloadRow
    <3>1. kdb'.refs = {x \in kdb.refs : x.from # kfrom} /\ ktask = "force"
      BY <2>0, <2>4, RowUnloaded DEF UnloadRow, WorkTells
    <3> QED BY <3>1
  <2>5. CASE EndInUnloadRow
    <3>1. kdb'.refs = {x \in kdb.refs : x.from # kfrom} /\ ktask = "force"
      BY <2>0, <2>5, RefsCleared DEF EndInUnloadRow, WorkTells
    <3> QED BY <3>1
  <2>6. ASSUME kdb' # kdb
        PROVE  kdb'.refs = kdb.refs \/ ClearFloatingReferences \/ AnalyzeRange \/ UnloadRow
               \/ EndInUnloadRow
    <3>1. CASE RegisterRange
      BY <2>0, <3>1, RowRegistered
    <3>2. CASE InsertRecord
      BY <2>0, <3>2, RecordInserted
    <3>3. CASE ClearDone
      BY <2>0, <2>6, <3>3, DoneCleared DEF ClearDone
    <3>4. CASE SetAnalyzed
      <4>1. kfrom \in Regions /\ UpdateFlags(kfrom, {"analyzeDone"}, {})
        BY <2>0, <3>4 DEF SetAnalyzed, WorkTells, OnePcs
      <4> QED BY <2>0, <4>1, AnalyzedSet
    <3>5. CASE ClearStale
      BY <2>0, <3>5, StaleCleared
    <3>6. CASE FailTask
      BY <2>0, <2>6, <3>6, PassGivesUp DEF FailTask
    <3>7. CASE \/ StartPass \/ PassNext \/ EndTask \/ Cancelled \/ CollectFloatingRegions
               \/ \E ok \in BOOLEAN : SaveFloatingSnapshot(ok)
               \/ SetFloatingModule \/ RefreshFloatingRegion \/ RemoveFloatingModule
               \/ \E r \in Regions, v \in 0..MaxBytes : Change(r, v)
               \/ StartSource
               \/ \E task \in {"one", "force"}, r \in Regions : StartOne(task, r)
               \/ ReadSavedFlags \/ RestoreSavedFlags \/ EndFloating \/ LoadSavedFloatingModules
      BY <2>6, <3>7 DEF StartPass, PassNext, EndTask, Cancelled, CollectFloatingRegions,
           SaveFloatingSnapshot, SetFloatingModule, RefreshFloatingRegion, RemoveFloatingModule,
           Change, StartSource, StartOne, ReadSavedFlags, RestoreSavedFlags, EndFloating,
           LoadSavedFloatingModules
    <3> QED BY <3>1, <3>2, <3>3, <3>4, <3>5, <3>6, <3>7 DEF FloatingNext, FloatingStep
  <2> QED BY <2>1, <2>2, <2>3, <2>4, <2>5, <2>6
<1> QED BY <1>1, FloatingInvariant, PTL DEF FloatingSpec, StaleKept
==============================================================================
