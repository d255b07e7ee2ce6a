--------------------------- MODULE ProcessItemProofs ---------------------------
(* Proofs about ProcessItem for any module files at any places, and any number *)
(* of loads, reloads, tasks and ends of Orthia.                                *)
EXTENDS ProcessItem, NaturalsInduction, WellFoundedInduction, TLAPS

(* S is the set of addresses where a window was met.                         *)
Lost(S, b) == RangeOf(b) \subseteq S
RowLost(S, rows, a) == RowRange(rows, a) \subseteq S

Tables == [rows : [Addrs -> Nat], meta : [Addrs -> Infos \cup {NoInfo}], names : {{}},
           refs : SUBSET References, comments : SUBSET Comments]

(* A row has the size of a module that may be at its place, a description is *)
(* that of a module and has its row.                                         *)
TableShape(t) ==
  /\ t \in Tables
  /\ \A a \in Addrs : t.rows[a] # 0 => \E b \in Builds : BaseOf[b] = a /\ SizeOf[b] = t.rows[a]
  /\ \A a \in Addrs : t.meta[a] # NoInfo =>
       t.rows[a] # 0 /\ t.meta[a].build \in Builds /\ BaseOf[t.meta[a].build] = a

(* A row has the size of its description; only a module whose analysis is    *)
(* being saved (fresh) has none yet.                                         *)
RowTells(S, t, a, fresh) ==
  \/ RowLost(S, t.rows, a)
  \/ /\ t.meta[a] # NoInfo
     /\ t.rows[a] = SizeOf[t.meta[a].build] /\ t.meta[a].ident = t.meta[a].build
  \/ /\ t.meta[a] = NoInfo /\ fresh # NoBuild
     /\ a = BaseOf[fresh] /\ t.rows[a] = SizeOf[fresh]

(* The references of a module have its row, with its size and description.   *)
RefTells(S, t, r, fresh) ==
  \/ r.from \in S
  \/ /\ t.rows[BaseOf[r.build]] = SizeOf[r.build]
     /\ t.meta[BaseOf[r.build]] = NoInfo => fresh = r.build
     /\ t.meta[BaseOf[r.build]] # NoInfo => t.meta[BaseOf[r.build]].build = r.build

RowsApart(S, rows) ==
  \A a, c \in Addrs : a # c => RowRange(rows, a) \cap RowRange(rows, c) \subseteq S

TableInv(S, t, fresh) ==
  /\ TableShape(t)
  /\ \A a \in Addrs : RowTells(S, t, a, fresh)
  /\ \A r \in t.refs : RefTells(S, t, r, fresh)
  /\ RowsApart(S, t.rows)

(* What is called analyzed is, except at the addresses of X.                 *)
DoneTells(S, t, X) ==
  \A a \in Addrs \ X :
    (/\ t.meta[a] # NoInfo /\ "analyzeDone" \in t.meta[a].flags
     /\ RangeOf(t.meta[a].build) \cap S = {})
    => t.meta[a].ident = t.meta[a].build /\ Found(t.meta[a].build, "code") \subseteq t.refs

(* Rows that reach into the place of the module b under analysis.            *)
PlaceFits(S, t, a, b) ==
  \/ RowLost(S, t.rows, a) /\ Lost(S, b)
  \/ /\ a = BaseOf[b] /\ t.rows[a] = SizeOf[b]
     /\ t.meta[a] # NoInfo => t.meta[a].build = b /\ t.meta[a].ident = b
PlaceInv(S, t, b) ==
  \A a \in Addrs : RowRange(t.rows, a) \cap RangeOf(b) # {} => PlaceFits(S, t, a, b)

------------------------------------------------------------------------------
(* Where the analyzer is.                                                    *)
Place == BaseOf[amod]
HasBuild == apc \in {"save", "flag", "ident", "info"}
HasInfo == apc \in {"ident0", "info0", "ident", "info"}
Clearing == apc \in {"clear", "unflag", "ident0", "info0"}

Fresh == IF HasBuild THEN amod ELSE NoBuild
DiskFresh == IF tx THEN NoBuild ELSE Fresh
Exempt == IF apc \in {"unflag", "ident0", "info0"} THEN {Place} ELSE {}

VarTypes ==
  /\ tx \in BOOLEAN
  /\ loaded \subseteq Builds /\ listed \subseteq Builds /\ xml \subseteq Builds
  /\ alive \in BOOLEAN /\ opened \in BOOLEAN /\ view \in {"closed", "live", "saved"}
  /\ flags \in [Addrs -> SUBSET Flags]
  /\ upc \in {"idle", "apply", "xml", "rows", "meta", "drop"}
  /\ ulist \subseteq Builds /\ urows \in [Addrs -> Nat] /\ udrop \subseteq Addrs
  /\ urestore \in [Addrs -> SUBSET SavedFlags]
  /\ apc \in {"idle", "clear", "unflag", "ident0", "info0", "begin", "save", "flag", "ident",
              "info"}
  /\ atask \in Tasks /\ amod \in Builds \cup {NoBuild} /\ abuild \in Builds \cup {NoBuild}
  /\ ainfo \in Infos \cup {NoInfo}
  /\ spoilt \subseteq Addrs
  /\ tx <=> apc = "save"

(* The connection and the disk: only a row and references of the save under  *)
(* way, and comments written meanwhile, are not on the disk.                 *)
Mirror ==
  /\ ~tx => conn = disk
  /\ conn.meta = disk.meta
  /\ disk.refs \subseteq conn.refs /\ disk.comments \subseteq conn.comments
  /\ \A a \in Addrs : disk.rows[a] # 0 => disk.rows[a] = conn.rows[a]

TablesTell ==
  /\ TableInv(spoilt, conn, Fresh) /\ TableInv(spoilt, disk, DiskFresh)
  /\ DoneTells(spoilt, disk, Exempt)

Apart(list) == \A b, c \in list : b # c => ~Overlap(b, c)

(* The lists are what one process had loaded at one time.                    *)
ListsTell ==
  /\ Apart(loaded) /\ Apart(listed) /\ Apart(ulist) /\ Apart(xml)
  /\ ~alive => loaded = {}
  /\ view = "saved" => ~alive /\ (listed = {} \/ listed = xml) /\ (upc = "apply" => ulist = xml)
                       /\ upc # "xml"
  /\ view = "closed" => listed = {} /\ upc = "idle" /\ ~opened
  /\ ~opened => ~Busy

(* What the UI thread has read, by where it is.                              *)
ReloadTells ==
  /\ upc # "drop" => udrop = {} /\ \A a \in Addrs : urestore[a] = {}
  /\ upc \notin {"meta", "drop"} => \A a \in Addrs : urows[a] = 0
  /\ udrop # {} => view # "saved"

(* The module under analysis is listed and loaded as long as no window was   *)
(* met; what came to its place met one.                                      *)
TaskTells ==
  /\ ~Busy => amod = NoBuild
  /\ ~HasBuild => abuild = NoBuild
  /\ Busy =>
       /\ amod \in Builds
       /\ amod \in listed \/ Lost(spoilt, amod)
       /\ amod \in loaded \/ view = "saved" \/ Lost(spoilt, amod)
       /\ \A c \in listed \cup loaded : c # amod /\ Overlap(c, amod) => Lost(spoilt, c)
  /\ HasBuild =>
       /\ abuild \in Builds /\ BaseOf[abuild] = Place
       /\ abuild # amod => Lost(spoilt, abuild) /\ Lost(spoilt, amod)

InfoTells ==
  HasInfo =>
    /\ ainfo \in Infos
    /\ ainfo.build # NoBuild => BaseOf[ainfo.build] = Place
    /\ ~Lost(spoilt, amod) =>
         ainfo.build = amod /\ (apc \in {"info0", "info"} => ainfo.ident = amod)
    /\ apc \in {"ident0", "info0"} => "analyzeDone" \notin ainfo.flags

(* The place of the module: its row is there once the save has begun, and    *)
(* while references and flag are cleared; a committed save is whole.         *)
PlaceTells ==
  /\ Busy => PlaceInv(spoilt, conn, amod)
  /\ HasBuild => Lost(spoilt, amod) \/ conn.rows[Place] # 0
  /\ Clearing => Place \in spoilt \/ conn.rows[Place] # 0
  /\ apc \in {"flag", "ident", "info"} /\ Clean(amod) => Found(amod, "code") \subseteq conn.refs

------------------------------------------------------------------------------
(* What the UI thread read of the rows is true when it acts on it, or the    *)
(* place met a window.                                                       *)
ReadTells ==
  \A a \in Addrs : urows[a] # 0 /\ conn.rows[a] # 0 =>
    urows[a] = conn.rows[a] \/ RowLost(spoilt, conn.rows, a) \/ \E b \in listed : BaseOf[b] = a
DropTells ==
  /\ Busy /\ Place \in udrop => Lost(spoilt, amod)
  /\ \A a \in udrop : urows[a] # 0 /\ conn.rows[a] # 0 =>
       RowLost(spoilt, conn.rows, a) \/ Replaced(conn.rows, a)
  /\ \A a \in udrop : urows[a] = 0 => conn.meta[a] = NoInfo \/ a \in spoilt
RestoreTells ==
  \A a \in Addrs : urestore[a] # {} =>
    /\ a \notin udrop /\ conn.meta[a] # NoInfo
    /\ a \in spoilt \/ conn.meta[a].ident \in listed

------------------------------------------------------------------------------
(* The flags in memory of what is at an address, and those of its record.    *)
Kept(a) == flags[a] \cap SavedFlags
Recorded(a, b) == IF conn.meta[a] # NoInfo /\ conn.meta[a].ident = b THEN conn.meta[a].flags ELSE {}
Unsaved(a) == HasInfo /\ a = Place

(* They were compared with the records.                                      *)
Settled(a) == \/ upc = "idle"
              \/ upc = "meta" /\ urows[a] = 0
              \/ upc = "drop" /\ urestore[a] = {}

Known(a, b) == \/ Kept(a) = {}
               \/ /\ conn.meta[a] # NoInfo /\ Kept(a) = conn.meta[a].flags
                  /\ view = "saved" => conn.meta[a].ident = b

FlagsTell(a) ==
  /\ (\A b \in listed : BaseOf[b] # a) => Kept(a) = {}
  /\ Unsaved(a) => ainfo.flags = Kept(a)
  /\ ~Unsaved(a) /\ a \notin udrop => \A b \in listed : BaseOf[b] = a =>
       Known(a, b) /\ (Settled(a) => Kept(a) = Recorded(a, b))
MemoryTells == \A a \in Addrs \ spoilt : FlagsTell(a)

ItemInv ==
  /\ VarTypes /\ Mirror /\ TablesTell /\ ListsTell /\ ReloadTells
  /\ TaskTells /\ InfoTells /\ PlaceTells
  /\ ReadTells /\ DropTells /\ RestoreTells /\ MemoryTells

------------------------------------------------------------------------------
(* Facts about places, rows and lists.                                       *)

\* The place of a module, from its base on.
LEMMA RangeFacts ==
  ASSUME NEW b \in Builds
  PROVE  /\ BaseOf[b] \in Addrs /\ BaseOf[b] \in Nat
         /\ SizeOf[b] \in Nat /\ SizeOf[b] > 0
         /\ RangeOf(b) \subseteq Addrs /\ BaseOf[b] \in RangeOf(b)
         /\ b # NoBuild
<1>1. BaseOf[b] \in Addrs /\ BaseOf[b] \in Nat /\ SizeOf[b] \in Nat /\ SizeOf[b] # 0
  BY ItemAssumption
<1>2. BaseOf[b] \in Nat /\ SizeOf[b] \in Nat /\ SizeOf[b] > 0
  BY <1>1
<1>3. BaseOf[b] \in RangeOf(b)
  BY <1>2 DEF RangeOf
<1>4. RangeOf(b) \subseteq Addrs /\ b # NoBuild
  BY ItemAssumption
<1> QED BY <1>1, <1>2, <1>3, <1>4

\* A row covers the addresses from its own on; one with the size of a module
\* covers the module.
LEMMA RowFacts ==
  ASSUME NEW rows \in [Addrs -> Nat], NEW a \in Addrs
  PROVE  /\ rows[a] # 0 => a \in RowRange(rows, a)
         /\ rows[a] = 0 => RowRange(rows, a) = {}
         /\ \A b \in Builds : BaseOf[b] = a /\ rows[a] = SizeOf[b] => RowRange(rows, a) = RangeOf(b)
<1>1. a \in Nat /\ rows[a] \in Nat
  BY ItemAssumption
<1>2. rows[a] # 0 => a \in RowRange(rows, a)
  BY <1>1 DEF RowRange
<1>3. rows[a] = 0 => RowRange(rows, a) = {}
  BY <1>1 DEF RowRange
<1>4. \A b \in Builds : BaseOf[b] = a /\ rows[a] = SizeOf[b] => RowRange(rows, a) = RangeOf(b)
  BY DEF RowRange, RangeOf
<1> QED BY <1>2, <1>3, <1>4

\* A range depends on its own row only.
LEMMA SameRow ==
  ASSUME NEW rows, NEW rows2, NEW a, rows2[a] = rows[a]
  PROVE  RowRange(rows2, a) = RowRange(rows, a)
  BY DEF RowRange

\* The fields of the tables.
LEMMA TableTypes ==
  ASSUME NEW t \in Tables
  PROVE  /\ t.rows \in [Addrs -> Nat] /\ t.meta \in [Addrs -> Infos \cup {NoInfo}]
         /\ t.names = {} /\ t.refs \subseteq References /\ t.comments \subseteq Comments
         /\ t = [rows |-> t.rows, meta |-> t.meta, names |-> t.names, refs |-> t.refs,
                 comments |-> t.comments]
  BY DEF Tables

\* A reference is made from inside of its module.
LEMMA ReferenceFacts ==
  ASSUME NEW r \in References
  PROVE  r.build \in Builds /\ r.from \in RangeOf(r.build)
<1>1. PICK b \in Builds, k \in {"code", "private"} : r \in Found(b, k)
  BY DEF References
<1> QED BY <1>1 DEF Found

\* What the analysis of a module wants to save.
LEMMA WantedFacts ==
  ASSUME NEW b \in Builds, NEW task
  PROVE  /\ Wanted(b, task) \subseteq References /\ FirstPart(b, task) \subseteq Wanted(b, task)
         /\ Found(b, "code") \subseteq Wanted(b, task)
         /\ \A r \in Wanted(b, task) : r.build = b /\ r.from \in RangeOf(b)
<1>1. Found(b, "code") \subseteq References /\ Found(b, "private") \subseteq References
  BY DEF References
<1>2. \A k : \A r \in Found(b, k) : r.build = b /\ r.from \in RangeOf(b)
  BY DEF Found
<1> QED BY <1>1, <1>2 DEF Wanted, FirstPart

\* In a list whose modules lie apart, one is found at its base.
LEMMA BuildAtFacts ==
  ASSUME NEW list \in SUBSET Builds
  PROVE  /\ \A a : BuildAt(list, a) # NoBuild => BuildAt(list, a) \in list
                                                 /\ BaseOf[BuildAt(list, a)] = a
         /\ Apart(list) => \A b, c \in list : BaseOf[b] = BaseOf[c] => b = c
         /\ Apart(list) => \A b \in list : BuildAt(list, BaseOf[b]) = b
<1>1. \A a : BuildAt(list, a) # NoBuild => BuildAt(list, a) \in list /\ BaseOf[BuildAt(list, a)] = a
  BY DEF BuildAt
<1>2. ASSUME Apart(list), NEW b \in list, NEW c \in list, BaseOf[b] = BaseOf[c] PROVE b = c
  <2>1. BaseOf[b] \in RangeOf(b) /\ BaseOf[b] \in RangeOf(c)
    BY <1>2, RangeFacts
  <2> QED BY <2>1, <1>2 DEF Apart, Overlap
<1>3. ASSUME Apart(list), NEW b \in list PROVE BuildAt(list, BaseOf[b]) = b
  <2>1. BuildAt(list, BaseOf[b]) \in list /\ BaseOf[BuildAt(list, BaseOf[b])] = BaseOf[b]
    BY DEF BuildAt
  <2> QED BY <2>1, <1>2, <1>3
<1> QED BY <1>1, <1>2, <1>3

\* A lost module has no clean address, its base least of all.
LEMMA LostFacts ==
  ASSUME NEW S, NEW b \in Builds
  PROVE  /\ Lost(S, b) => BaseOf[b] \in S
         /\ RangeOf(b) \cap S = {} => BaseOf[b] \notin S /\ ~Lost(S, b)
  BY RangeFacts DEF Lost

------------------------------------------------------------------------------
(* What the statements keep of the tables.                                   *)

\* A window more: everything that was promised still is.
LEMMA TableGrows ==
  ASSUME NEW S, NEW T, NEW t, NEW f, TableInv(S, t, f), S \subseteq T
  PROVE  TableInv(T, t, f)
  BY DEF TableInv, RowTells, RefTells, RowLost, RowsApart

\* The same for what is called analyzed.
LEMMA DoneGrows ==
  ASSUME NEW S, NEW T, NEW t, NEW X, NEW Y, DoneTells(S, t, X), S \subseteq T, X \subseteq Y
  PROVE  DoneTells(T, t, Y)
  BY DEF DoneTells

\* The row of a module that will be saved may have no description.
LEMMA TableFresh ==
  ASSUME NEW S, NEW t, NEW f, TableInv(S, t, NoBuild)
  PROVE  TableInv(S, t, f)
<1>1. \A a \in Addrs : RowTells(S, t, a, f)
  BY DEF TableInv, RowTells
<1>2. ASSUME NEW r \in t.refs PROVE RefTells(S, t, r, f)
  <2>1. r.build # NoBuild
    BY ReferenceFacts, RangeFacts, TableTypes DEF TableInv, TableShape
  <2> QED BY <2>1 DEF TableInv, RefTells
<1> QED BY <1>1, <1>2 DEF TableInv

\* It has one at the end of the task, or met a window.
LEMMA TableSettles ==
  ASSUME NEW S, NEW t, NEW b \in Builds, TableInv(S, t, b),
         t.meta[BaseOf[b]] # NoInfo \/ t.rows[BaseOf[b]] = 0 \/ Lost(S, b)
  PROVE  TableInv(S, t, NoBuild)
<1>0. t.rows \in [Addrs -> Nat] /\ t.refs \subseteq References
  BY TableTypes DEF TableInv, TableShape
<1>1. ASSUME NEW a \in Addrs PROVE RowTells(S, t, a, NoBuild)
  <2>1. RowTells(S, t, a, b)
    BY DEF TableInv
  <2>2. CASE t.meta[a] = NoInfo /\ a = BaseOf[b] /\ t.rows[a] = SizeOf[b]
    <3>1. t.rows[a] # 0 /\ RowRange(t.rows, a) = RangeOf(b)
      BY <2>2, <1>0, RangeFacts, RowFacts
    <3> QED BY <3>1, <2>2 DEF RowTells, RowLost, Lost
  <2> QED BY <2>1, <2>2 DEF RowTells
<1>2. ASSUME NEW r \in t.refs PROVE RefTells(S, t, r, NoBuild)
  <2>1. RefTells(S, t, r, b) /\ r.build \in Builds /\ r.from \in RangeOf(r.build)
    BY <1>0, ReferenceFacts DEF TableInv
  <2>2. SizeOf[r.build] # 0
    BY <2>1, RangeFacts
  <2>3. CASE t.meta[BaseOf[r.build]] = NoInfo /\ b = r.build
    BY <2>1, <2>2, <2>3 DEF RefTells, Lost
  <2> QED BY <2>1, <2>3 DEF RefTells
<1> QED BY <1>1, <1>2 DEF TableInv

\* Two rows with clean addresses in common are one.
LEMMA OneRow ==
  ASSUME NEW S, NEW t, NEW f, TableInv(S, t, f), NEW a \in Addrs,
         NEW r \in t.refs, r.from \in RowRange(t.rows, a), r.from \notin S
  PROVE  /\ BaseOf[r.build] = a /\ t.rows[a] = SizeOf[r.build]
         /\ RowRange(t.rows, a) = RangeOf(r.build)
<1>1. t.rows \in [Addrs -> Nat] /\ r.build \in Builds /\ r.from \in RangeOf(r.build)
  BY ReferenceFacts, TableTypes DEF TableInv, TableShape
<1>2. t.rows[BaseOf[r.build]] = SizeOf[r.build] /\ BaseOf[r.build] \in Addrs
  BY <1>1, RangeFacts DEF TableInv, RefTells
<1>3. RowRange(t.rows, BaseOf[r.build]) = RangeOf(r.build)
  BY <1>1, <1>2, RowFacts
<1> QED BY <1>1, <1>2, <1>3 DEF TableInv, RowsApart

\* What is called analyzed has its row, with its size.
LEMMA CleanRow ==
  ASSUME NEW S, NEW t, NEW f, TableInv(S, t, f), NEW a \in Addrs,
         t.meta[a] # NoInfo, a \notin S
  PROVE  /\ t.meta[a].build \in Builds /\ BaseOf[t.meta[a].build] = a
         /\ t.meta[a].ident = t.meta[a].build
         /\ t.rows[a] = SizeOf[t.meta[a].build] /\ t.rows[a] # 0
         /\ RowRange(t.rows, a) = RangeOf(t.meta[a].build)
<1>1. /\ t.rows \in [Addrs -> Nat] /\ t.rows[a] # 0
      /\ t.meta[a].build \in Builds /\ BaseOf[t.meta[a].build] = a
  BY TableTypes DEF TableInv, TableShape
<1>2. a \in RowRange(t.rows, a)
  BY <1>1, RowFacts
<1>3. t.rows[a] = SizeOf[t.meta[a].build] /\ t.meta[a].ident = t.meta[a].build
  BY <1>2 DEF TableInv, RowTells, RowLost
<1>4. RowRange(t.rows, a) = RangeOf(t.meta[a].build)
  BY <1>1, <1>3, RowFacts
<1> QED BY <1>1, <1>3, <1>4

\* Less references, and no other change.
LEMMA TableLess ==
  ASSUME NEW S, NEW t, NEW u, NEW f, TableInv(S, t, f), u \in Tables,
         u.rows = t.rows, u.meta = t.meta, u.refs \subseteq t.refs
  PROVE  TableInv(S, u, f)
  BY DEF TableInv, TableShape, RowTells, RefTells

\* A row goes, with its description and the references made from its range.
LEMMA TableDelete ==
  ASSUME NEW S, NEW t, NEW u, NEW f, NEW a \in Addrs, TableInv(S, t, f), u \in Tables,
         u.rows = [t.rows EXCEPT ![a] = 0], u.meta = [t.meta EXCEPT ![a] = NoInfo],
         u.refs = t.refs \ {r \in t.refs : r.from \in RowRange(t.rows, a)}
  PROVE  TableInv(S, u, f)
<1>1. /\ t.rows \in [Addrs -> Nat] /\ t.meta \in [Addrs -> Infos \cup {NoInfo}]
      /\ u.rows \in [Addrs -> Nat] /\ t.refs \subseteq References
  BY TableTypes DEF TableInv, TableShape
<1>2. \A c \in Addrs \ {a} : /\ u.rows[c] = t.rows[c] /\ u.meta[c] = t.meta[c]
                             /\ RowRange(u.rows, c) = RowRange(t.rows, c)
  BY <1>1, SameRow
<1>3. u.rows[a] = 0 /\ u.meta[a] = NoInfo /\ RowRange(u.rows, a) = {}
  BY <1>1, RowFacts
<1>4. TableShape(u)
  BY <1>2, <1>3 DEF TableInv, TableShape
<1>5. ASSUME NEW c \in Addrs PROVE RowTells(S, u, c, f)
  <2>1. CASE c = a
    BY <2>1, <1>3 DEF RowTells, RowLost
  <2>2. CASE c # a
    BY <2>2, <1>2 DEF TableInv, RowTells, RowLost
  <2> QED BY <2>1, <2>2
<1>6. ASSUME NEW r \in u.refs PROVE RefTells(S, u, r, f)
  <2>1. r \in t.refs /\ r.from \notin RowRange(t.rows, a)
    BY Zenon
  <2>2. RefTells(S, t, r, f) /\ r.build \in Builds /\ r.from \in RangeOf(r.build)
    BY <2>1, <1>1, ReferenceFacts DEF TableInv
  <2>3. BaseOf[r.build] \in Addrs
    BY <2>2, RangeFacts
  <2>4. CASE BaseOf[r.build] = a
    <3>1. t.rows[a] = SizeOf[r.build] => r.from \in RowRange(t.rows, a)
      BY <2>2, <2>4, <1>1, RowFacts
    <3> QED BY <3>1, <2>1, <2>2, <2>4 DEF RefTells
  <2>5. CASE BaseOf[r.build] # a
    BY <2>2, <2>3, <2>5, <1>2 DEF RefTells
  <2> QED BY <2>4, <2>5
<1>7. RowsApart(S, u.rows)
  <2> SUFFICES ASSUME NEW c \in Addrs, NEW d \in Addrs, c # d
               PROVE  RowRange(u.rows, c) \cap RowRange(u.rows, d) \subseteq S
    BY DEF RowsApart
  <2>1. CASE c = a \/ d = a
    BY <2>1, <1>3
  <2>2. CASE c # a /\ d # a
    BY <2>2, <1>2 DEF TableInv, RowsApart
  <2> QED BY <2>1, <2>2
<1> QED BY <1>4, <1>5, <1>6, <1>7 DEF TableInv

\* The references made from the range of a row go; the row itself may.
LEMMA DoneDelete ==
  ASSUME NEW S, NEW t, NEW u, NEW f, NEW X, NEW a \in Addrs,
         TableInv(S, t, f), DoneTells(S, t, X),
         u.refs = t.refs \ {r \in t.refs : r.from \in RowRange(t.rows, a)},
         \A c \in Addrs \ {a} : u.meta[c] = t.meta[c],
         u.meta[a] = NoInfo \/ a \in X
  PROVE  DoneTells(S, u, X)
<1> SUFFICES ASSUME NEW c \in Addrs \ X, u.meta[c] # NoInfo, "analyzeDone" \in u.meta[c].flags,
                    RangeOf(u.meta[c].build) \cap S = {}
             PROVE  /\ u.meta[c].ident = u.meta[c].build
                    /\ Found(u.meta[c].build, "code") \subseteq u.refs
  BY DEF DoneTells
<1>1. c # a /\ u.meta[c] = t.meta[c]
  OBVIOUS
<1>2. t.meta[c].ident = t.meta[c].build /\ Found(t.meta[c].build, "code") \subseteq t.refs
  BY <1>1 DEF DoneTells
<1>3. t.meta[c].build \in Builds /\ BaseOf[t.meta[c].build] = c
  BY <1>1 DEF TableInv, TableShape
<1>4. c \notin S
  BY <1>1, <1>3, LostFacts
<1>5. RowRange(t.rows, c) = RangeOf(t.meta[c].build)
  BY <1>1, <1>4, CleanRow
<1>6. RangeOf(t.meta[c].build) \cap RowRange(t.rows, a) = {}
  BY <1>1, <1>5 DEF TableInv, RowsApart
<1>7. \A r \in Found(t.meta[c].build, "code") : r.from \in RangeOf(t.meta[c].build)
  BY DEF Found
<1> QED BY <1>1, <1>2, <1>6, <1>7

\* INSERT INTO tbl_modules for the module whose save begins.
LEMMA TableInsert ==
  ASSUME NEW S, NEW t, NEW u, NEW f, NEW b \in Builds, TableInv(S, t, f), u \in Tables,
         t.rows[BaseOf[b]] = 0, u.rows = [t.rows EXCEPT ![BaseOf[b]] = SizeOf[b]],
         u.meta = t.meta, u.refs = t.refs, f = b \/ Lost(S, b),
         \A c \in Addrs \ {BaseOf[b]} : RowRange(t.rows, c) \cap RangeOf(b) \subseteq S
  PROVE  TableInv(S, u, f)
<1> DEFINE a == BaseOf[b]
<1>1. /\ t.rows \in [Addrs -> Nat] /\ u.rows \in [Addrs -> Nat] /\ t.refs \subseteq References
      /\ a \in Addrs
  BY TableTypes, RangeFacts DEF TableInv, TableShape
<1>2. \A c \in Addrs \ {a} : u.rows[c] = t.rows[c] /\ RowRange(u.rows, c) = RowRange(t.rows, c)
  <2>1. \A c \in Addrs \ {a} : u.rows[c] = t.rows[c]
    BY <1>1
  <2> QED BY <2>1 DEF RowRange
<1>3. u.rows[a] = SizeOf[b] /\ RowRange(u.rows, a) = RangeOf(b) /\ t.meta[a] = NoInfo /\ b # NoBuild
  BY <1>1, RowFacts, RangeFacts DEF TableInv, TableShape
<1> HIDE DEF a
<1>4. TableShape(u)
  BY <1>2, <1>3 DEF TableInv, TableShape, a
<1>5. ASSUME NEW c \in Addrs PROVE RowTells(S, u, c, f)
  <2>1. CASE c = a
    BY <2>1, <1>3 DEF RowTells, RowLost, Lost, a
  <2>2. CASE c # a
    BY <2>2, <1>2 DEF TableInv, RowTells, RowLost
  <2> QED BY <2>1, <2>2
<1>6. ASSUME NEW r \in u.refs PROVE RefTells(S, u, r, f)
  <2>1. RefTells(S, t, r, f) /\ r.build \in Builds
    BY <1>1, ReferenceFacts DEF TableInv
  <2>2. BaseOf[r.build] \in Addrs /\ SizeOf[r.build] # 0
    BY <2>1, RangeFacts
  <2> QED BY <2>1, <2>2, <1>2 DEF RefTells, a
<1>7. RowsApart(S, u.rows)
  <2> SUFFICES ASSUME NEW c \in Addrs, NEW d \in Addrs, c # d
               PROVE  RowRange(u.rows, c) \cap RowRange(u.rows, d) \subseteq S
    BY DEF RowsApart
  <2>1. CASE c = a
    BY <2>1, <1>2, <1>3 DEF a
  <2>2. CASE d = a
    BY <2>2, <1>2, <1>3 DEF a
  <2>3. CASE c # a /\ d # a
    BY <2>3, <1>2 DEF TableInv, RowsApart
  <2> QED BY <2>1, <2>2, <2>3
<1> QED BY <1>4, <1>5, <1>6, <1>7 DEF TableInv

\* References of the module b that is saved; it has its row, or met a window.
LEMMA TableAddRefs ==
  ASSUME NEW S, NEW t, NEW u, NEW f, NEW b \in Builds, NEW R, TableInv(S, t, f), u \in Tables,
         u.rows = t.rows, u.meta = t.meta, u.refs = t.refs \cup R,
         \A r \in R : r.build = b /\ r.from \in RangeOf(b),
         Lost(S, b) \/ /\ t.rows[BaseOf[b]] = SizeOf[b]
                       /\ t.meta[BaseOf[b]] = NoInfo => f = b
                       /\ t.meta[BaseOf[b]] # NoInfo => t.meta[BaseOf[b]].build = b
  PROVE  TableInv(S, u, f)
<1>1. TableShape(u)
  BY DEF TableInv, TableShape
<1>2. \A a \in Addrs : RowTells(S, u, a, f)
  BY DEF TableInv, RowTells
<1>3. \A r \in t.refs : RefTells(S, u, r, f)
  BY DEF TableInv, RefTells
<1>4. ASSUME NEW r \in R PROVE RefTells(S, u, r, f)
  <2>1. r.build = b /\ r.from \in RangeOf(b)
    OBVIOUS
  <2> QED BY <2>1 DEF RefTells, Lost
<1> QED BY <1>1, <1>2, <1>3, <1>4 DEF TableInv

\* More references take nothing from what is called analyzed.
LEMMA DoneMore ==
  ASSUME NEW S, NEW t, NEW u, NEW X, DoneTells(S, t, X), u.meta = t.meta, t.refs \subseteq u.refs
  PROVE  DoneTells(S, u, X)
  BY DEF DoneTells

\* InsertMetaInfo: the description is that of the module whose row it is, or the
\* row met a window.
LEMMA TableMeta ==
  ASSUME NEW S, NEW t, NEW u, NEW f, NEW a \in Addrs, NEW info \in Infos,
         TableInv(S, t, f), u \in Tables,
         u.rows = t.rows, u.meta = [t.meta EXCEPT ![a] = info], u.refs = t.refs,
         t.rows[a] # 0, info.build \in Builds, BaseOf[info.build] = a,
         \/ RowLost(S, t.rows, a)
         \/ /\ t.rows[a] = SizeOf[info.build] /\ info.ident = info.build
            /\ t.meta[a] = NoInfo => f \in {NoBuild, info.build}
            /\ t.meta[a] # NoInfo => t.meta[a].build = info.build
  PROVE  TableInv(S, u, f)
<1>1. /\ t.meta \in [Addrs -> Infos \cup {NoInfo}] /\ t.refs \subseteq References
      /\ t.rows \in [Addrs -> Nat]
  BY TableTypes DEF TableInv, TableShape
<1>2. u.meta[a] = info /\ info # NoInfo /\ \A c \in Addrs \ {a} : u.meta[c] = t.meta[c]
  BY <1>1, ItemAssumption
<1>3. TableShape(u)
  BY <1>2 DEF TableInv, TableShape
<1>4. ASSUME NEW c \in Addrs PROVE RowTells(S, u, c, f)
  <2>1. CASE c = a
    <3>1. CASE RowLost(S, t.rows, a)
      BY <3>1, <2>1 DEF RowTells
    <3>2. CASE ~RowLost(S, t.rows, a)
      BY <3>2, <2>1, <1>2 DEF RowTells
    <3> QED BY <3>1, <3>2
  <2>2. CASE c # a
    BY <2>2, <1>2 DEF TableInv, RowTells
  <2> QED BY <2>1, <2>2
<1>5. ASSUME NEW r \in u.refs PROVE RefTells(S, u, r, f)
  <2>1. RefTells(S, t, r, f) /\ r.build \in Builds /\ r.from \in RangeOf(r.build)
    BY <1>1, ReferenceFacts DEF TableInv
  <2>2. BaseOf[r.build] \in Addrs /\ r.build # NoBuild
    BY <2>1, RangeFacts
  <2>3. CASE BaseOf[r.build] # a
    BY <2>1, <2>2, <2>3, <1>2 DEF RefTells
  <2>4. CASE BaseOf[r.build] = a /\ r.from \notin S
    <3>1. t.rows[a] = SizeOf[r.build]
      BY <2>1, <2>4 DEF RefTells
    <3>2. r.from \in RowRange(t.rows, a)
      BY <3>1, <2>1, <2>4, <1>1, RowFacts
    <3>3. r.build = info.build
      BY <3>2, <2>1, <2>2, <2>4 DEF RefTells, RowLost
    <3> QED BY <3>1, <3>3, <1>2, <2>4 DEF RefTells
  <2> QED BY <2>3, <2>4 DEF RefTells
<1>6. RowsApart(S, u.rows)
  BY DEF TableInv
<1> QED BY <1>3, <1>4, <1>5, <1>6 DEF TableInv

\* The description says "analyzed" of what is, or not at all.
LEMMA DoneMeta ==
  ASSUME NEW S, NEW t, NEW u, NEW X, NEW Y, NEW a \in Addrs, NEW info, DoneTells(S, t, X),
         t.meta \in [Addrs -> Infos \cup {NoInfo}],
         u.meta = [t.meta EXCEPT ![a] = info], u.refs = t.refs, X \subseteq Y \cup {a},
         "analyzeDone" \in info.flags /\ RangeOf(info.build) \cap S = {} =>
           info.ident = info.build /\ Found(info.build, "code") \subseteq t.refs
  PROVE  DoneTells(S, u, Y)
<1>1. u.meta[a] = info /\ \A c \in Addrs \ {a} : u.meta[c] = t.meta[c]
  OBVIOUS
<1> SUFFICES ASSUME NEW c \in Addrs \ Y, u.meta[c] # NoInfo, "analyzeDone" \in u.meta[c].flags,
                    RangeOf(u.meta[c].build) \cap S = {}
             PROVE  /\ u.meta[c].ident = u.meta[c].build
                    /\ Found(u.meta[c].build, "code") \subseteq u.refs
  BY DEF DoneTells
<1>2. CASE c = a
  BY <1>1, <1>2
<1>3. CASE c # a
  BY <1>1, <1>3 DEF DoneTells
<1> QED BY <1>2, <1>3

------------------------------------------------------------------------------
(* The place of the module under analysis.                                   *)

\* A window more.
LEMMA PlaceGrows ==
  ASSUME NEW S, NEW T, NEW t, NEW b, PlaceInv(S, t, b), S \subseteq T
  PROVE  PlaceInv(T, t, b)
  BY DEF PlaceInv, PlaceFits, RowLost, Lost

\* Rows go; the others keep their size and description.
LEMMA PlaceLess ==
  ASSUME NEW S, NEW t, NEW u, NEW b, PlaceInv(S, t, b), TableShape(t), TableShape(u),
         \A a \in Addrs : u.rows[a] # 0 => u.rows[a] = t.rows[a] /\ u.meta[a] = t.meta[a]
  PROVE  PlaceInv(S, u, b)
<1> SUFFICES ASSUME NEW a \in Addrs, RowRange(u.rows, a) \cap RangeOf(b) # {}
             PROVE  PlaceFits(S, u, a, b)
  BY DEF PlaceInv
<1>1. u.rows[a] # 0
  BY RowFacts, TableTypes DEF TableShape
<1>2. u.rows[a] = t.rows[a] /\ u.meta[a] = t.meta[a] /\ RowRange(u.rows, a) = RowRange(t.rows, a)
  BY <1>1, SameRow
<1>3. PlaceFits(S, t, a, b)
  BY <1>2 DEF PlaceInv
<1> QED BY <1>2, <1>3 DEF PlaceFits, RowLost

\* The row of the module itself comes, or of one that met a window.
LEMMA PlaceInsert ==
  ASSUME NEW S, NEW t, NEW u, NEW b \in Builds, NEW c \in Builds, PlaceInv(S, t, b),
         TableShape(t), TableShape(u), BaseOf[c] = BaseOf[b], t.rows[BaseOf[b]] = 0,
         u.rows = [t.rows EXCEPT ![BaseOf[b]] = SizeOf[c]], u.meta = t.meta,
         c = b \/ (Lost(S, c) /\ Lost(S, b))
  PROVE  PlaceInv(S, u, b)
<1> DEFINE p == BaseOf[b]
<1>1. t.rows \in [Addrs -> Nat] /\ u.rows \in [Addrs -> Nat] /\ p \in Addrs
  BY TableTypes, RangeFacts DEF TableShape
<1>2. u.rows[p] = SizeOf[c] /\ u.meta[p] = NoInfo /\ RowRange(u.rows, p) = RangeOf(c)
  BY <1>1, RowFacts DEF TableShape
<1>3. \A a \in Addrs \ {p} : u.rows[a] = t.rows[a] /\ RowRange(u.rows, a) = RowRange(t.rows, a)
  BY <1>1, SameRow
<1> HIDE DEF p
<1> SUFFICES ASSUME NEW a \in Addrs, RowRange(u.rows, a) \cap RangeOf(b) # {}
             PROVE  PlaceFits(S, u, a, b)
  BY DEF PlaceInv
<1>4. CASE a = p
  BY <1>2, <1>4 DEF PlaceFits, RowLost, Lost, p
<1>5. CASE a # p
  <2>1. PlaceFits(S, t, a, b)
    BY <1>3, <1>5 DEF PlaceInv
  <2> QED BY <2>1, <1>3, <1>5 DEF PlaceFits, RowLost
<1> QED BY <1>4, <1>5

\* A row at the place of the module is its own, or met a window, or both did.
LEMMA PlaceRow ==
  ASSUME NEW S, NEW t, NEW b \in Builds, PlaceInv(S, t, b), TableShape(t), t.rows[BaseOf[b]] # 0
  PROVE  /\ PlaceFits(S, t, BaseOf[b], b)
         /\ Lost(S, b) => RowLost(S, t.rows, BaseOf[b])
<1>1. t.rows \in [Addrs -> Nat] /\ BaseOf[b] \in Addrs /\ BaseOf[b] \in RangeOf(b)
  BY TableTypes, RangeFacts DEF TableShape
<1>2. BaseOf[b] \in RowRange(t.rows, BaseOf[b])
  BY <1>1, RowFacts
<1>3. PlaceFits(S, t, BaseOf[b], b)
  BY <1>1, <1>2 DEF PlaceInv
<1>4. t.rows[BaseOf[b]] = SizeOf[b] => RowRange(t.rows, BaseOf[b]) = RangeOf(b)
  BY <1>1, RowFacts
<1> QED BY <1>3, <1>4 DEF PlaceFits, RowLost, Lost

\* Its description is written.
LEMMA PlaceMeta ==
  ASSUME NEW S, NEW t, NEW u, NEW b \in Builds, NEW info, PlaceInv(S, t, b), TableShape(t),
         t.rows[BaseOf[b]] # 0, u.rows = t.rows, u.meta = [t.meta EXCEPT ![BaseOf[b]] = info],
         Lost(S, b) \/ (info.build = b /\ info.ident = b)
  PROVE  PlaceInv(S, u, b)
<1> DEFINE p == BaseOf[b]
<1>1. t.meta \in [Addrs -> Infos \cup {NoInfo}] /\ p \in Addrs
  BY TableTypes, RangeFacts DEF TableShape
<1>2. u.meta[p] = info /\ \A a \in Addrs \ {p} : u.meta[a] = t.meta[a]
  BY <1>1
<1>3. PlaceFits(S, t, p, b) /\ (Lost(S, b) => RowLost(S, t.rows, p))
  BY PlaceRow
<1> HIDE DEF p
<1> SUFFICES ASSUME NEW a \in Addrs, RowRange(u.rows, a) \cap RangeOf(b) # {}
             PROVE  PlaceFits(S, u, a, b)
  BY DEF PlaceInv
<1>4. CASE a = p
  BY <1>2, <1>3, <1>4 DEF PlaceFits
<1>5. CASE a # p
  BY <1>2, <1>5 DEF PlaceFits, PlaceInv
<1> QED BY <1>4, <1>5

------------------------------------------------------------------------------
(* The statements, field by field.                                           *)

\* DELETE FROM tbl_references.
LEMMA DeleteRefsFields ==
  ASSUME NEW t \in Tables, NEW a \in Addrs, NEW u, u = DeleteRefs(t, a)
  PROVE  /\ u \in Tables /\ u.rows = t.rows /\ u.meta = t.meta /\ u.comments = t.comments
         /\ u.refs = t.refs \ {r \in t.refs : r.from \in RowRange(t.rows, a)}
<1>1. u = [t EXCEPT !.refs = t.refs \ {r \in t.refs : r.from \in RowRange(t.rows, a)}]
  BY TableTypes DEF DeleteRefs, RefsFrom, RowRange
<1> QED BY <1>1 DEF Tables

\* DELETE FROM tbl_modules; the description goes with the row.
LEMMA DeleteRowFields ==
  ASSUME NEW t \in Tables, NEW a \in Addrs, NEW u, u = DeleteRow(t, a)
  PROVE  /\ u \in Tables /\ u.comments = t.comments /\ u.refs = t.refs
         /\ u.rows = [t.rows EXCEPT ![a] = 0] /\ u.meta = [t.meta EXCEPT ![a] = NoInfo]
<1> DEFINE rows == [t.rows EXCEPT ![a] = 0]
           meta == [t.meta EXCEPT ![a] = NoInfo]
<1>1. /\ t.names = {} /\ t.rows \in [Addrs -> Nat] /\ t.meta \in [Addrs -> Infos \cup {NoInfo}]
      /\ t.refs \subseteq References /\ t.comments \subseteq Comments
      /\ t = [rows |-> t.rows, meta |-> t.meta, names |-> t.names, refs |-> t.refs,
              comments |-> t.comments]
  BY TableTypes
<1>2. rows \in [Addrs -> Nat] /\ meta \in [Addrs -> Infos \cup {NoInfo}]
  BY <1>1
<1>3. u = [t EXCEPT !.rows = rows, !.meta = meta, !.names = {}]
  BY <1>1 DEF DeleteRow
<1> HIDE DEF rows, meta
<1>4. u = [rows |-> rows, meta |-> meta, names |-> {}, refs |-> t.refs, comments |-> t.comments]
  BY <1>1, <1>3
<1>5. /\ u.rows = rows /\ u.meta = meta /\ u.refs = t.refs /\ u.comments = t.comments
      /\ u \in Tables
  BY <1>1, <1>2, <1>4 DEF Tables
<1> QED BY <1>5 DEF rows, meta

\* Both statements of UnloadModule.
LEMMA DeleteModuleFields ==
  ASSUME NEW t \in Tables, NEW a \in Addrs, NEW u, u = DeleteModule(t, a)
  PROVE  /\ u \in Tables /\ u.comments = t.comments
         /\ u.rows = [t.rows EXCEPT ![a] = 0] /\ u.meta = [t.meta EXCEPT ![a] = NoInfo]
         /\ u.refs = t.refs \ {r \in t.refs : r.from \in RowRange(t.rows, a)}
<1> DEFINE v == DeleteRefs(t, a)
<1>1. /\ v \in Tables /\ v.rows = t.rows /\ v.meta = t.meta /\ v.comments = t.comments
      /\ v.refs = t.refs \ {r \in t.refs : r.from \in RowRange(t.rows, a)}
  BY DeleteRefsFields
<1>2. u = DeleteRow(v, a)
  BY DEF DeleteModule
<1> HIDE DEF v
<1>3. /\ u \in Tables /\ u.comments = v.comments /\ u.refs = v.refs
      /\ u.rows = [v.rows EXCEPT ![a] = 0] /\ u.meta = [v.meta EXCEPT ![a] = NoInfo]
  <2>1. v \in Tables
    BY <1>1
  <2> QED BY <2>1, <1>2, DeleteRowFields
<1> QED BY <1>1, <1>3

\* INSERT INTO tbl_modules, where there was no description.
LEMMA InsertModuleFields ==
  ASSUME NEW t \in Tables, NEW a \in Addrs, NEW size \in Nat, NEW u, u = InsertModule(t, a, size),
         t.meta[a] = NoInfo
  PROVE  /\ u \in Tables /\ u.comments = t.comments
         /\ u.rows = [t.rows EXCEPT ![a] = size] /\ u.meta = t.meta /\ u.refs = t.refs
<1> DEFINE v == DeleteRow(t, a)
           rows == [v.rows EXCEPT ![a] = size]
<1>1. t.meta = [t.meta EXCEPT ![a] = NoInfo] /\ t.rows \in [Addrs -> Nat]
  BY TableTypes
<1>2. /\ v \in Tables /\ v.rows = [t.rows EXCEPT ![a] = 0] /\ v.meta = t.meta
      /\ v.refs = t.refs /\ v.comments = t.comments
  BY <1>1, DeleteRowFields
<1>3. u = [v EXCEPT !.rows = rows]
  BY DEF InsertModule
<1> HIDE DEF v
<1>4. rows = [t.rows EXCEPT ![a] = size] /\ rows \in [Addrs -> Nat]
  BY <1>1, <1>2
<1> HIDE DEF rows
<1>5. u \in Tables /\ u.rows = rows /\ u.meta = v.meta /\ u.refs = v.refs /\ u.comments = v.comments
  BY <1>2, <1>3, <1>4 DEF Tables
<1> QED BY <1>2, <1>4, <1>5

\* INSERT INTO tbl_metainfo: nothing without a row.
LEMMA InsertMetaInfoFields ==
  ASSUME NEW t \in Tables, NEW a \in Addrs, NEW info \in Infos, NEW u,
         u = InsertMetaInfo(t, a, info)
  PROVE  /\ u \in Tables /\ u.comments = t.comments /\ u.rows = t.rows /\ u.refs = t.refs
         /\ t.rows[a] # 0 => u.meta = [t.meta EXCEPT ![a] = info]
         /\ t.rows[a] = 0 => u.meta = t.meta /\ u = t
<1>1. t.meta \in [Addrs -> Infos \cup {NoInfo}]
  BY TableTypes
<1>2. CASE t.rows[a] # 0
  <2>1. u = [t EXCEPT !.meta[a] = info]
    BY <1>2 DEF InsertMetaInfo
  <2> QED BY <2>1, <1>2 DEF Tables
<1>3. CASE t.rows[a] = 0
  <2>1. u = [t EXCEPT !.meta[a] = t.meta[a]]
    BY <1>3 DEF InsertMetaInfo
  <2>2. u = t
    BY <2>1, <1>1, TableTypes
  <2> QED BY <2>2, <1>3
<1> QED BY <1>2, <1>3

\* The references of the save, and comments, are added.
LEMMA MoreFields ==
  ASSUME NEW t \in Tables, NEW R, R \subseteq References, NEW u, u = [t EXCEPT !.refs = @ \cup R]
  PROVE  /\ u \in Tables /\ u.rows = t.rows /\ u.meta = t.meta /\ u.comments = t.comments
         /\ u.refs = t.refs \cup R
  BY DEF Tables

\* A comment.
LEMMA CommentFields ==
  ASSUME NEW t \in Tables, NEW c \in Comments, NEW u, u = [t EXCEPT !.comments = @ \cup {c}]
  PROVE  /\ u \in Tables /\ u.rows = t.rows /\ u.meta = t.meta /\ u.refs = t.refs
         /\ u.comments = t.comments \cup {c}
  BY DEF Tables

------------------------------------------------------------------------------
(* A part of the invariant stays when what it is about does, whatever windows *)
(* are met elsewhere.                                                        *)

\* The connection and the disk.
LEMMA MirrorFrame ==
  ASSUME Mirror, UNCHANGED <<conn, disk, tx>>
  PROVE  Mirror'
  BY DEF Mirror

\* What the tables tell.
LEMMA TablesFrame ==
  ASSUME TablesTell, UNCHANGED <<conn, disk, tx>>, Fresh' = Fresh, Exempt \subseteq Exempt',
         spoilt \subseteq spoilt'
  PROVE  TablesTell'
<1>1. DiskFresh' = DiskFresh
  BY DEF DiskFresh
<1>2. TableInv(spoilt', conn, Fresh) /\ TableInv(spoilt', disk, DiskFresh)
  BY TableGrows DEF TablesTell
<1>3. DoneTells(spoilt', disk, Exempt')
  BY DoneGrows DEF TablesTell
<1> QED BY <1>1, <1>2, <1>3 DEF TablesTell

\* The module under analysis.
LEMMA TaskFrame ==
  ASSUME TaskTells, UNCHANGED <<apc, amod, abuild, listed, loaded, view>>, spoilt \subseteq spoilt'
  PROVE  TaskTells'
  BY DEF TaskTells, Busy, HasBuild, Lost, Place

\* The description that will be saved.
LEMMA InfoFrame ==
  ASSUME InfoTells, UNCHANGED <<apc, amod, ainfo>>, spoilt \subseteq spoilt'
  PROVE  InfoTells'
  BY DEF InfoTells, HasInfo, Lost, Place

\* The place of the module under analysis.
LEMMA PlaceFrame ==
  ASSUME PlaceTells, UNCHANGED <<apc, amod>>, conn'.rows = conn.rows, conn'.meta = conn.meta,
         conn.refs \subseteq conn'.refs, spoilt \subseteq spoilt'
  PROVE  PlaceTells'
<1>1. Busy => PlaceInv(spoilt', conn, amod)
  BY PlaceGrows DEF PlaceTells
<1>2. Busy => PlaceInv(spoilt', conn', amod)
  BY <1>1 DEF PlaceInv, PlaceFits
<1> QED BY <1>2 DEF PlaceTells, Busy, HasBuild, Clearing, Lost, Place, Clean

\* The rows that were read.
LEMMA ReadFrame ==
  ASSUME ReadTells, UNCHANGED <<urows, listed>>, conn'.rows = conn.rows, spoilt \subseteq spoilt'
  PROVE  ReadTells'
  BY DEF ReadTells, RowLost

\* The rows that will be dropped.
LEMMA DropFrame ==
  ASSUME DropTells, UNCHANGED <<amod, udrop, urows, listed>>, Busy' = Busy,
         conn'.rows = conn.rows, conn'.meta = conn.meta, spoilt \subseteq spoilt'
  PROVE  DropTells'
<1>1. \A a : Replaced(conn.rows, a)' <=> Replaced(conn.rows, a)
  BY DEF Replaced, Over, RowIsSame
<1> QED BY <1>1 DEF DropTells, RowLost, Lost, Place

\* The flags that will be restored.
LEMMA RestoreFrame ==
  ASSUME RestoreTells, UNCHANGED <<urestore, udrop, listed>>, conn'.meta = conn.meta,
         spoilt \subseteq spoilt'
  PROVE  RestoreTells'
  BY DEF RestoreTells

\* The flags in memory.
LEMMA MemoryFrame ==
  ASSUME MemoryTells, spoilt \subseteq spoilt',
         UNCHANGED <<flags, listed, ainfo, apc, amod, upc, urows, urestore, udrop, view>>,
         conn'.meta = conn.meta
  PROVE  MemoryTells'
  BY DEF MemoryTells, FlagsTell, Kept, Unsaved, Known, Settled, Recorded, HasInfo, Place

\* The analyzer stays where it is.
LEMMA SameTask ==
  ASSUME UNCHANGED <<apc, amod>>
  PROVE  Fresh' = Fresh /\ Exempt' = Exempt /\ Busy' = Busy
  BY DEF Fresh, Exempt, Busy, HasBuild, Place

------------------------------------------------------------------------------
(* The process.                                                              *)

\* The window of a module that comes or goes at the place of the analysis.
LEMMA RaceFacts ==
  ASSUME TaskTells, NEW b \in Builds
  PROVE  /\ RaceAt(b) \subseteq Addrs
         /\ Busy /\ Overlap(b, amod) => Lost(RaceAt(b), b) /\ Lost(RaceAt(b), amod)
<1>1. Busy => amod \in Builds
  BY DEF TaskTells
<1>2. RangeOf(b) \subseteq Addrs /\ (Busy => RangeOf(amod) \subseteq Addrs)
  BY <1>1, RangeFacts
<1> QED BY <1>2 DEF RaceAt, Lost

\* A module lies at its own place.
LEMMA OverlapsItself ==
  ASSUME NEW b \in Builds
  PROVE  Overlap(b, b)
  BY RangeFacts DEF Overlap

\* The process loads a module.
LEMMA OsLoadKeeps ==
  ASSUME ItemInv, NEW b \in Builds, OsLoad(b)
  PROVE  ItemInv'
<1> USE DEF OsLoad, dbVars, itemVars, uiVars, anVars
<1>1. RaceAt(b) \subseteq Addrs /\ (Busy /\ Overlap(b, amod) => Lost(RaceAt(b), b))
  BY RaceFacts DEF ItemInv
<1>2. VarTypes'
  BY <1>1 DEF ItemInv, VarTypes
<1>3. ListsTell'
  <2>1. Apart(loaded')
    BY DEF ItemInv, ListsTell, Apart, Overlap
  <2> QED BY <2>1 DEF ItemInv, ListsTell, Apart, Busy
<1>4. TaskTells'
  <2>1. Busy /\ Overlap(b, amod) => Lost(spoilt', b)
    BY <1>1 DEF Lost
  <2>2. Busy => /\ amod \in listed \/ Lost(spoilt', amod)
                /\ amod \in loaded' \/ view = "saved" \/ Lost(spoilt', amod)
                /\ \A c \in listed \cup loaded : c # amod /\ Overlap(c, amod) => Lost(spoilt', c)
    BY DEF ItemInv, TaskTells, Lost
  <2>3. HasBuild /\ abuild # amod => Lost(spoilt', abuild) /\ Lost(spoilt', amod)
    BY DEF ItemInv, TaskTells, Lost
  <2> QED BY <2>1, <2>2, <2>3 DEF ItemInv, TaskTells, Busy, HasBuild, Place
<1>5. Mirror' /\ TablesTell'
  BY MirrorFrame, TablesFrame, SameTask DEF ItemInv
<1>6. InfoTells' /\ PlaceTells'
  BY InfoFrame, PlaceFrame DEF ItemInv
<1>7. ReloadTells'
  BY DEF ItemInv, ReloadTells
<1>8. ReadTells' /\ DropTells' /\ RestoreTells'
  BY ReadFrame, DropFrame, RestoreFrame, SameTask DEF ItemInv
<1>9. MemoryTells'
  BY MemoryFrame DEF ItemInv
<1> QED BY <1>2, <1>3, <1>4, <1>5, <1>6, <1>7, <1>8, <1>9 DEF ItemInv

\* The process unloads modules, one of them or all.
LEMMA UnloadKeeps ==
  ASSUME ItemInv, loaded' \subseteq loaded, alive' \in BOOLEAN, ~alive' => loaded' = {},
         alive, spoilt' = spoilt \cup UNION {RaceAt(b) : b \in loaded \ loaded'},
         UNCHANGED <<dbVars, itemVars, uiVars, anVars>>
  PROVE  ItemInv'
<1> USE DEF dbVars, itemVars, uiVars, anVars
<1>0. loaded \subseteq Builds
  BY DEF ItemInv, VarTypes
<1>1. \A b \in loaded : /\ RaceAt(b) \subseteq Addrs
                        /\ Busy /\ Overlap(b, amod) => Lost(RaceAt(b), amod)
  BY <1>0, RaceFacts DEF ItemInv
<1>2. spoilt \subseteq spoilt' /\ \A b \in loaded \ loaded' : RaceAt(b) \subseteq spoilt'
  OBVIOUS
<1>3. spoilt' \subseteq Addrs
  BY <1>1 DEF ItemInv, VarTypes
<1>4. VarTypes'
  BY <1>3 DEF ItemInv, VarTypes
<1>5. ListsTell'
  BY DEF ItemInv, ListsTell, Apart, Busy
<1>6. TaskTells'
  <2>1. ASSUME Busy, amod \in loaded, amod \notin loaded' PROVE Lost(spoilt', amod)
    <3>1. Overlap(amod, amod) /\ RaceAt(amod) \subseteq spoilt'
      BY <2>1, <1>0, <1>2, OverlapsItself
    <3> QED BY <2>1, <3>1, <1>1 DEF Lost
  <2>2. Busy => /\ amod \in listed \/ Lost(spoilt', amod)
                /\ amod \in loaded' \/ view = "saved" \/ Lost(spoilt', amod)
                /\ \A c \in listed \cup loaded : c # amod /\ Overlap(c, amod) => Lost(spoilt', c)
    BY <2>1, <1>2 DEF ItemInv, TaskTells, Lost
  <2>3. HasBuild /\ abuild # amod => Lost(spoilt', abuild) /\ Lost(spoilt', amod)
    BY <1>2 DEF ItemInv, TaskTells, Lost
  <2> QED BY <2>2, <2>3 DEF ItemInv, TaskTells, Busy, HasBuild, Place
<1>7. Mirror' /\ TablesTell'
  BY <1>2, MirrorFrame, TablesFrame, SameTask DEF ItemInv
<1>8. InfoTells' /\ PlaceTells'
  BY <1>2, InfoFrame, PlaceFrame DEF ItemInv
<1>9. ReloadTells'
  BY DEF ItemInv, ReloadTells
<1>10. ReadTells' /\ DropTells' /\ RestoreTells'
  BY <1>2, ReadFrame, DropFrame, RestoreFrame, SameTask DEF ItemInv
<1>11. MemoryTells'
  BY <1>2, MemoryFrame DEF ItemInv
<1> QED BY <1>4, <1>5, <1>6, <1>7, <1>8, <1>9, <1>10, <1>11 DEF ItemInv

\* The process unloads a module.
LEMMA OsUnloadKeeps ==
  ASSUME ItemInv, NEW b \in Builds, OsUnload(b)
  PROVE  ItemInv'
<1>1. loaded' \subseteq loaded /\ loaded \ loaded' = {b} /\ alive /\ alive' = alive
  BY DEF OsUnload
<1>2. spoilt' = spoilt \cup UNION {RaceAt(c) : c \in loaded \ loaded'}
  BY <1>1 DEF OsUnload
<1> QED BY <1>1, <1>2, UnloadKeeps DEF OsUnload

\* The process exits.
LEMMA OsExitKeeps ==
  ASSUME ItemInv, OsExit
  PROVE  ItemInv'
<1>1. loaded' = {} /\ loaded \ loaded' = loaded /\ alive /\ alive' = FALSE
  BY DEF OsExit
<1>2. spoilt' = spoilt \cup UNION {RaceAt(c) : c \in loaded \ loaded'}
  BY <1>1 DEF OsExit
<1> QED BY <1>1, <1>2, UnloadKeeps DEF OsExit

------------------------------------------------------------------------------
(* Opening and reloading.                                                    *)

\* What the item and the analyzer know, while the UI thread takes a step that
\* changes neither the tables nor the list.
LEMMA QuietFrame ==
  ASSUME ItemInv, UNCHANGED <<conn, disk, tx, apc, amod, abuild, ainfo, listed, loaded>>,
         spoilt \subseteq spoilt'
  PROVE  Mirror' /\ TablesTell' /\ InfoTells' /\ PlaceTells'
<1>1. Mirror' /\ TablesTell'
  BY MirrorFrame, TablesFrame, SameTask DEF ItemInv
<1>2. InfoTells' /\ PlaceTells'
  BY InfoFrame, PlaceFrame DEF ItemInv
<1> QED BY <1>1, <1>2

\* The item is made with its first list.
LEMMA OpenKeeps ==
  ASSUME ItemInv, NEW v \in {"live", "saved"}, Open(v)
  PROVE  ItemInv'
<1> USE DEF Open, dbVars, procVars, anVars
<1>1. listed = {} /\ ~opened /\ ~Busy
  BY DEF ItemInv, ListsTell
<1>2. VarTypes'
  BY DEF ItemInv, VarTypes, QueryModules
<1>3. ListsTell'
  BY <1>1 DEF ItemInv, ListsTell, Apart, QueryModules, Busy
<1>4. ReloadTells'
  BY DEF ItemInv, ReloadTells
<1>5. TaskTells'
  BY <1>1 DEF ItemInv, TaskTells, Busy, HasBuild
<1>6. Mirror' /\ TablesTell' /\ InfoTells' /\ PlaceTells'
  BY QuietFrame
<1>7. ReadTells' /\ DropTells' /\ RestoreTells'
  BY ReadFrame, DropFrame, RestoreFrame, SameTask DEF ItemInv
<1>8. MemoryTells'
  <2>1. ~HasInfo
    BY <1>1 DEF Busy, HasInfo
  <2> QED BY <1>1, <2>1 DEF ItemInv, MemoryTells, FlagsTell, Kept, Unsaved, HasInfo
<1> QED BY <1>2, <1>3, <1>4, <1>5, <1>6, <1>7, <1>8 DEF ItemInv

\* F5 in the modules window.
LEMMA ReloadModulesKeeps ==
  ASSUME ItemInv, ReloadModules
  PROVE  ItemInv'
<1> USE DEF ReloadModules, dbVars, procVars, anVars
<1>1. VarTypes'
  BY DEF ItemInv, VarTypes, QueryModules
<1>2. ListsTell'
  BY DEF ItemInv, ListsTell, Apart, QueryModules, Busy
<1>3. ReloadTells'
  BY DEF ItemInv, ReloadTells
<1>4. TaskTells'
  BY TaskFrame DEF ItemInv
<1>5. Mirror' /\ TablesTell' /\ InfoTells' /\ PlaceTells'
  BY QuietFrame
<1>6. ReadTells' /\ DropTells' /\ RestoreTells'
  BY ReadFrame, DropFrame, RestoreFrame, SameTask DEF ItemInv
<1>7. MemoryTells'
  BY DEF ItemInv, MemoryTells, FlagsTell, Kept, Unsaved, Known, Settled, HasInfo, Place
<1> QED BY <1>1, <1>2, <1>3, <1>4, <1>5, <1>6, <1>7 DEF ItemInv

\* The list is replaced, with the flags of what went.
LEMMA ApplyListKeeps ==
  ASSUME ItemInv, ApplyList
  PROVE  ItemInv'
<1> USE DEF ApplyList, dbVars, procVars, anVars
<1> DEFINE Moved == (listed \ ulist) \cup (ulist \ listed)
<1>1. listed \subseteq Builds /\ ulist \subseteq Builds /\ Apart(listed) /\ Apart(ulist)
  BY DEF ItemInv, VarTypes, ListsTell
<1>2. \A b \in Moved : /\ RaceAt(b) \subseteq Addrs
                       /\ Busy /\ Overlap(b, amod) => Lost(RaceAt(b), b) /\ Lost(RaceAt(b), amod)
  BY <1>1, RaceFacts DEF ItemInv
<1>3. spoilt \subseteq spoilt' /\ \A b \in Moved : RaceAt(b) \subseteq spoilt'
  OBVIOUS
<1>4. spoilt' \subseteq Addrs
  BY <1>2 DEF ItemInv, VarTypes
<1>5. VarTypes'
  BY <1>4 DEF ItemInv, VarTypes
<1>6. ListsTell'
  BY DEF ItemInv, ListsTell, Apart, Busy
<1>7. ReloadTells' /\ udrop = {} /\ \A a \in Addrs : urestore[a] = {} /\ urows[a] = 0
  BY DEF ItemInv, ReloadTells
<1>8. Busy => /\ amod \in Builds
              /\ amod \in ulist \/ Lost(spoilt', amod)
              /\ amod \in listed \/ Lost(spoilt', amod)
              /\ amod \in loaded \/ view = "saved" \/ Lost(spoilt', amod)
              /\ \A c \in ulist \cup loaded : c # amod /\ Overlap(c, amod) => Lost(spoilt', c)
  <2> SUFFICES ASSUME Busy
               PROVE  /\ amod \in Builds
                      /\ amod \in ulist \/ Lost(spoilt', amod)
                      /\ amod \in listed \/ Lost(spoilt', amod)
                      /\ amod \in loaded \/ view = "saved" \/ Lost(spoilt', amod)
                      /\ \A c \in ulist \cup loaded :
                           c # amod /\ Overlap(c, amod) => Lost(spoilt', c)
    OBVIOUS
  <2>1. /\ amod \in Builds
        /\ amod \in listed \/ Lost(spoilt', amod)
        /\ amod \in loaded \/ view = "saved" \/ Lost(spoilt', amod)
        /\ \A c \in listed \cup loaded : c # amod /\ Overlap(c, amod) => Lost(spoilt', c)
    BY <1>3 DEF ItemInv, TaskTells, Lost
  <2>2. amod \in listed \ ulist => Lost(spoilt', amod)
    <3>1. Overlap(amod, amod)
      BY <2>1, OverlapsItself
    <3> QED BY <3>1, <1>2, <1>3 DEF Lost
  <2>3. \A c \in ulist \ listed : Overlap(c, amod) => Lost(spoilt', c)
    BY <1>2, <1>3 DEF Lost
  <2> QED BY <2>1, <2>2, <2>3
<1>9. TaskTells'
  <2>1. HasBuild /\ abuild # amod => Lost(spoilt', abuild) /\ Lost(spoilt', amod)
    BY <1>3 DEF ItemInv, TaskTells, Lost
  <2> QED BY <2>1, <1>8 DEF ItemInv, TaskTells, Busy, HasBuild, Place
<1>10. Mirror' /\ TablesTell'
  BY <1>3, MirrorFrame, TablesFrame, SameTask DEF ItemInv
<1>11. InfoTells' /\ PlaceTells'
  BY <1>3, InfoFrame, PlaceFrame DEF ItemInv
<1>12. ReadTells' /\ DropTells' /\ RestoreTells'
  BY <1>7 DEF ReadTells, DropTells, RestoreTells
<1>13. MemoryTells'
  <2> SUFFICES ASSUME NEW a \in Addrs, a \notin spoilt'
               PROVE  FlagsTell(a)'
    BY DEF MemoryTells
  <2>1. FlagsTell(a)
    BY <1>3 DEF ItemInv, MemoryTells
  <2>2. flags'[a] = IF \E old \in listed : BaseOf[old] = a /\ ~Stays(old, ulist)
                    THEN {} ELSE flags[a]
    OBVIOUS
  <2>3. Kept(a)' = {} \/ Kept(a)' = Kept(a)
    BY <2>2 DEF Kept
  <2>4. (\A b \in ulist : BaseOf[b] # a) => Kept(a)' = {}
    <3>1. CASE \E old \in listed : BaseOf[old] = a
      BY <3>1, <2>2 DEF Stays, Kept
    <3>2. CASE \A old \in listed : BaseOf[old] # a
      BY <3>2, <2>1, <2>3 DEF FlagsTell
    <3> QED BY <3>1, <3>2
  <2>5. ASSUME Unsaved(a) PROVE Kept(a)' = Kept(a)
    <3>1. Busy /\ a = Place
      BY <2>5 DEF Unsaved, HasInfo, Busy
    <3>2. amod \in Builds /\ amod \in listed /\ amod \in ulist
      BY <3>1, <1>8, LostFacts DEF Place
    <3>3. \A old \in listed : BaseOf[old] = a => old = amod
      BY <3>1, <3>2, <1>1, BuildAtFacts DEF Place
    <3>4. Stays(amod, ulist)
      BY <3>2 DEF Stays
    <3> QED BY <2>2, <3>3, <3>4 DEF Kept
  <2>6. ASSUME ~Unsaved(a), NEW b \in ulist, BaseOf[b] = a PROVE Known(a, b)'
    <3>1. CASE Kept(a)' = {}
      BY <3>1 DEF Known
    <3>2. CASE Kept(a)' # {}
      <4>1. Kept(a)' = Kept(a) /\ Kept(a) # {}
        BY <3>2, <2>3
      <4>2. PICK old \in listed : BaseOf[old] = a
        BY <4>1, <2>1 DEF FlagsTell
      <4>3. Known(a, old)
        BY <4>2, <2>1, <2>6, <1>7 DEF FlagsTell
      <4>4. view = "saved" => old = b
        BY <4>2, <2>6, <1>1, BuildAtFacts DEF ItemInv, ListsTell
      <4> QED BY <4>1, <4>3, <4>4 DEF Known
    <3> QED BY <3>1, <3>2
  <2>7. ~Settled(a)' /\ (Unsaved(a)' <=> Unsaved(a))
    BY DEF Settled, Unsaved, HasInfo, Place
  <2> QED BY <2>1, <2>4, <2>5, <2>6, <2>7 DEF FlagsTell
<1> QED BY <1>5, <1>6, <1>7, <1>9, <1>10, <1>11, <1>12, <1>13 DEF ItemInv

\* modules.xml follows.
LEMMA SaveModuleListKeeps ==
  ASSUME ItemInv, SaveModuleList
  PROVE  ItemInv'
<1> USE DEF SaveModuleList, dbVars, procVars, anVars
<1>1. VarTypes'
  BY DEF ItemInv, VarTypes
<1>2. ListsTell'
  BY DEF ItemInv, ListsTell, Apart, Busy
<1>3. ReloadTells'
  BY DEF ItemInv, ReloadTells
<1>4. TaskTells'
  BY TaskFrame DEF ItemInv
<1>5. Mirror' /\ TablesTell' /\ InfoTells' /\ PlaceTells'
  BY QuietFrame
<1>6. ReadTells' /\ DropTells' /\ RestoreTells'
  BY ReadFrame, DropFrame, RestoreFrame, SameTask DEF ItemInv
<1>7. MemoryTells'
  BY DEF ItemInv, MemoryTells, FlagsTell, Kept, Unsaved, Known, Settled, HasInfo, Place
<1> QED BY <1>1, <1>2, <1>3, <1>4, <1>5, <1>6, <1>7 DEF ItemInv

------------------------------------------------------------------------------
(* SyncDatabaseModules.                                                      *)

\* A module listed at the address of a row lies over it.
LEMMA OverFacts ==
  ASSUME VarTypes, NEW rows \in [Addrs -> Nat], NEW a \in Addrs, rows[a] # 0,
         NEW b \in listed, BaseOf[b] = a
  PROVE  b \in Over(rows, a)
<1>1. a \in RangeOf(b) /\ a \in RowRange(rows, a)
  BY RangeFacts, RowFacts DEF VarTypes
<1> QED BY <1>1 DEF Over

\* The rows of the connection, their types and what they cover.
LEMMA ConnFacts ==
  ASSUME TablesTell
  PROVE  /\ conn \in Tables /\ TableShape(conn) /\ TableShape(disk)
         /\ conn.rows \in [Addrs -> Nat] /\ conn.meta \in [Addrs -> Infos \cup {NoInfo}]
         /\ \A a \in Addrs : /\ RowRange(conn.rows, a) \subseteq Addrs
                             /\ conn.meta[a] # NoInfo => conn.rows[a] # 0
                             /\ conn.meta[a] # NoInfo => conn.meta[a].flags \subseteq SavedFlags
<1>1. conn \in Tables /\ TableShape(conn) /\ TableShape(disk)
  BY DEF TablesTell, TableInv, TableShape
<1>2. conn.rows \in [Addrs -> Nat] /\ conn.meta \in [Addrs -> Infos \cup {NoInfo}]
  BY <1>1, TableTypes
<1>3. ASSUME NEW a \in Addrs PROVE RowRange(conn.rows, a) \subseteq Addrs
  <2>1. CASE conn.rows[a] = 0
    BY <2>1, <1>2, RowFacts
  <2>2. CASE conn.rows[a] # 0
    <3>1. PICK b \in Builds : BaseOf[b] = a /\ SizeOf[b] = conn.rows[a]
      BY <2>2, <1>1 DEF TableShape
    <3> QED BY <3>1, <1>2, RowFacts, RangeFacts
  <2> QED BY <2>1, <2>2
<1>4. ASSUME NEW a \in Addrs, conn.meta[a] # NoInfo
      PROVE  conn.rows[a] # 0 /\ conn.meta[a].flags \subseteq SavedFlags
  <2>1. conn.meta[a] \in Infos
    BY <1>2, <1>4
  <2> QED BY <2>1, <1>1, <1>4 DEF TableShape, Infos
<1> QED BY <1>1, <1>2, <1>3, <1>4

\* The rows are read.
LEMMA QueryRowsKeeps ==
  ASSUME ItemInv, QueryRows
  PROVE  ItemInv'
<1> USE DEF QueryRows, dbVars, procVars, itemVars, anVars
<1>0. /\ conn.rows \in [Addrs -> Nat]
      /\ \A a \in Addrs : conn.rows[a] = 0 => conn.meta[a] = NoInfo
  BY ConnFacts DEF ItemInv
<1>1. VarTypes'
  BY <1>0 DEF ItemInv, VarTypes
<1>2. ListsTell'
  BY DEF ItemInv, ListsTell, Apart, Busy
<1>3. ReloadTells' /\ udrop = {} /\ \A a \in Addrs : urestore[a] = {}
  BY DEF ItemInv, ReloadTells
<1>4. TaskTells'
  BY TaskFrame DEF ItemInv
<1>5. Mirror' /\ TablesTell' /\ InfoTells' /\ PlaceTells'
  BY QuietFrame
<1>6. ReadTells' /\ DropTells' /\ RestoreTells'
  BY <1>3 DEF ReadTells, DropTells, RestoreTells
<1>7. MemoryTells'
  <2> SUFFICES ASSUME NEW a \in Addrs, a \notin spoilt
               PROVE  FlagsTell(a)'
    BY DEF MemoryTells
  <2>1. FlagsTell(a)
    BY DEF ItemInv, MemoryTells
  <2>2. Settled(a)' => conn.meta[a] = NoInfo
    BY <1>0 DEF Settled
  <2>3. Kept(a)' = Kept(a) /\ (Unsaved(a)' <=> Unsaved(a))
    BY DEF Kept, Unsaved, HasInfo, Place
  <2>4. ASSUME ~Unsaved(a), NEW b \in listed, BaseOf[b] = a
        PROVE  Known(a, b)' /\ (Settled(a)' => Kept(a)' = Recorded(a, b)')
    <3>1. Known(a, b)
      BY <2>1, <2>4, <1>3 DEF FlagsTell
    <3> QED BY <3>1, <2>2, <2>3 DEF Known, Recorded
  <2> QED BY <2>1, <2>3, <2>4 DEF FlagsTell
<1> QED BY <1>1, <1>2, <1>3, <1>4, <1>5, <1>6, <1>7 DEF ItemInv

\* The records are read, and what follows from them is decided.
LEMMA QueryMetaKeeps ==
  ASSUME ItemInv, QueryMeta
  PROVE  ItemInv'
<1> USE DEF QueryMeta, dbVars, procVars, itemVars, anVars
<1>0. /\ VarTypes /\ urows \in [Addrs -> Nat] /\ listed \subseteq Builds
      /\ TableInv(spoilt, conn, Fresh) /\ Apart(listed)
  BY DEF ItemInv, VarTypes, TablesTell, ListsTell
<1>c. /\ conn.rows \in [Addrs -> Nat] /\ TableShape(conn)
      /\ \A a \in Addrs : conn.meta[a] # NoInfo => /\ conn.rows[a] # 0
                                                   /\ conn.meta[a].flags \subseteq SavedFlags
  BY ConnFacts DEF ItemInv
<1>1. udrop = {} /\ \A a \in Addrs : urestore[a] = {}
  BY DEF ItemInv, ReloadTells
<1>2. VarTypes'
  BY DEF ItemInv, VarTypes
<1>3. ListsTell'
  BY DEF ItemInv, ListsTell, Apart, Busy
<1>4. ReloadTells'
  BY DEF ReloadTells, MustDrop
<1>5. TaskTells'
  BY TaskFrame DEF ItemInv
<1>6. Mirror' /\ TablesTell' /\ InfoTells' /\ PlaceTells'
  BY QuietFrame
<1>7. ReadTells'
  BY ReadFrame DEF ItemInv
<1>8. DropTells'
  <2>1. ASSUME Busy, Place \in udrop' PROVE Lost(spoilt, amod)
    <3> SUFFICES ASSUME ~Lost(spoilt, amod) PROVE FALSE
      OBVIOUS
    <3>1. amod \in Builds /\ amod \in listed /\ PlaceInv(spoilt, conn, amod)
      BY <2>1 DEF ItemInv, TaskTells, PlaceTells
    <3>2. urows[Place] # 0 /\ Place \in Addrs /\ ~RowIsSame(urows, Place)
      BY <2>1 DEF MustDrop, Replaced
    <3>3. amod \in Over(urows, Place)
      BY <3>1, <3>2, <1>0, OverFacts DEF Place
    <3>4. conn.meta[Place] # NoInfo /\ ~Same(Place, amod, conn.meta[Place])
      BY <3>2, <3>3 DEF RowIsSame, Same, Place
    <3>5. PlaceFits(spoilt, conn, Place, amod)
      BY <3>1, <3>2, <3>4, <1>c, PlaceRow DEF Place
    <3> QED BY <3>4, <3>5 DEF PlaceFits, Same
  <2>2. ASSUME NEW a \in udrop', urows[a] # 0, conn.rows[a] # 0
        PROVE  RowLost(spoilt, conn.rows, a) \/ Replaced(conn.rows, a)
    <3>1. a \in Addrs /\ Over(urows, a) # {} /\ ~RowIsSame(urows, a)
      BY <2>2 DEF MustDrop, Replaced
    <3>2. CASE urows[a] = conn.rows[a]
      <4>1. RowRange(urows, a) = RowRange(conn.rows, a)
        BY <3>2, SameRow
      <4> QED BY <3>1, <4>1 DEF Replaced, RowIsSame, Over
    <3>3. ASSUME NEW b \in listed, BaseOf[b] = a PROVE Replaced(conn.rows, a)
      <4>1. b \in Over(conn.rows, a)
        BY <2>2, <3>1, <3>3, <1>0, <1>c, OverFacts
      <4>2. ~RowIsSame(conn.rows, a)
        <5> SUFFICES ASSUME NEW c \in listed, BaseOf[c] = a, Same(a, c, conn.meta[a]) PROVE FALSE
          BY DEF RowIsSame, Over
        <5>1. c \in Over(urows, a)
          BY <2>2, <3>1, <1>0, OverFacts
        <5> QED BY <5>1, <3>1 DEF RowIsSame
      <4> QED BY <4>1, <4>2 DEF Replaced
    <3> QED BY <2>2, <3>1, <3>2, <3>3 DEF ItemInv, ReadTells
  <2>3. \A a : Replaced(conn.rows, a)' <=> Replaced(conn.rows, a)
    BY DEF Replaced, Over, RowIsSame
  <2>4. \A a \in udrop' : urows[a] # 0
    OBVIOUS
  <2> QED BY <2>1, <2>2, <2>3, <2>4 DEF DropTells, Busy, Place
<1>9. RestoreTells'
  <2> SUFFICES ASSUME NEW a \in Addrs, urestore'[a] # {}
               PROVE  /\ a \notin udrop' /\ conn.meta[a] # NoInfo
                      /\ a \in spoilt \/ conn.meta[a].ident \in listed
    BY DEF RestoreTells
  <2>1. urows[a] # 0 /\ RowIsSame(urows, a) /\ conn.meta[a] # NoInfo
    OBVIOUS
  <2>2. a \notin udrop'
    BY <2>1 DEF MustDrop, Replaced
  <2>3. ASSUME a \notin spoilt PROVE conn.meta[a].ident \in listed
    <3>1. PICK c \in listed : BaseOf[c] = a /\ Same(a, c, conn.meta[a])
      BY <2>1 DEF RowIsSame, Over
    <3>2. conn.meta[a].ident \in Builds
      BY <2>1, <2>3, <1>0, CleanRow
    <3> QED BY <3>1, <3>2, <2>1, ItemAssumption DEF Same
  <2> QED BY <2>1, <2>2, <2>3
<1>10. MemoryTells'
  <2> SUFFICES ASSUME NEW a \in Addrs, a \notin spoilt
               PROVE  FlagsTell(a)'
    BY DEF MemoryTells
  <2>1. FlagsTell(a)
    BY DEF ItemInv, MemoryTells
  <2>2. Kept(a)' = Kept(a) /\ (Unsaved(a)' <=> Unsaved(a))
    BY DEF Kept, Unsaved, HasInfo, Place
  <2>3. ASSUME ~Unsaved(a), a \notin udrop', NEW b \in listed, BaseOf[b] = a
        PROVE  Known(a, b)' /\ (Settled(a)' => Kept(a)' = Recorded(a, b)')
    <3>1. Known(a, b) /\ (Settled(a) => Kept(a) = Recorded(a, b))
      BY <2>1, <2>3, <1>1 DEF FlagsTell
    <3>2. Known(a, b)' /\ Recorded(a, b)' = Recorded(a, b)
      BY <3>1, <2>2 DEF Known, Recorded
    <3> SUFFICES ASSUME urestore'[a] = {} PROVE Kept(a) = Recorded(a, b)
      BY <3>2, <2>2 DEF Settled
    <3>3. CASE conn.meta[a] = NoInfo
      BY <3>1, <3>3 DEF Known, Recorded
    <3>4. CASE conn.meta[a] # NoInfo /\ urows[a] = 0
      BY <3>1, <3>4 DEF Settled
    <3>5. CASE conn.meta[a] # NoInfo /\ urows[a] # 0 /\ RowIsSame(urows, a)
      <4>1. conn.meta[a].flags = {}
        BY <3>5, <1>c
      <4> QED BY <3>1, <4>1 DEF Known, Recorded
    <3>6. CASE conn.meta[a] # NoInfo /\ urows[a] # 0 /\ ~RowIsSame(urows, a)
      <4>1. b \in Over(urows, a)
        BY <2>3, <3>6, <1>0, OverFacts
      <4>2. view = "saved"
        BY <2>3, <3>6, <4>1 DEF MustDrop, Replaced
      <4>3. conn.meta[a].ident # b
        <5>1. conn.meta[a].ident = conn.meta[a].build
          BY <3>6, <1>0, CleanRow
        <5> QED BY <5>1, <4>1, <3>6, <2>3 DEF RowIsSame, Same
      <4> QED BY <4>2, <4>3, <3>1 DEF Known, Recorded
    <3> QED BY <3>3, <3>4, <3>5, <3>6
  <2> QED BY <2>1, <2>2, <2>3 DEF FlagsTell
<1> QED BY <1>2, <1>3, <1>4, <1>5, <1>6, <1>7, <1>8, <1>9, <1>10 DEF ItemInv

\* The flags of what was dropped go, the saved ones come back.
LEMMA RestoreFlagsKeeps ==
  ASSUME ItemInv, RestoreFlags
  PROVE  ItemInv'
<1> USE DEF RestoreFlags, dbVars, procVars, anVars
<1>0. /\ TableInv(spoilt, conn, Fresh) /\ Apart(listed) /\ listed \subseteq Builds
      /\ urestore \in [Addrs -> SUBSET SavedFlags] /\ urows \in [Addrs -> Nat]
      /\ flags \in [Addrs -> SUBSET Flags] /\ udrop \subseteq Addrs
  BY DEF ItemInv, TablesTell, ListsTell, VarTypes
<1>1. /\ conn.rows \in [Addrs -> Nat]
      /\ \A a \in Addrs : /\ RowRange(conn.rows, a) \subseteq Addrs
                          /\ conn.meta[a] # NoInfo => conn.rows[a] # 0
                          /\ conn.meta[a] # NoInfo => conn.meta[a].flags \subseteq SavedFlags
  BY ConnFacts DEF ItemInv
<1>2. spoilt \subseteq spoilt' /\ spoilt' \subseteq Addrs
  <2>1. StaleFlags \subseteq Addrs
    BY <1>1 DEF StaleFlags
  <2> QED BY <2>1 DEF ItemInv, VarTypes
<1>3. VarTypes'
  <2>1. flags' \in [Addrs -> SUBSET Flags]
    BY <1>0 DEF Flags, SavedFlags
  <2>2. urows' \in [Addrs -> Nat] /\ urestore' \in [Addrs -> SUBSET SavedFlags]
    BY DEF EmptyDb
  <2> QED BY <2>1, <2>2, <1>2 DEF ItemInv, VarTypes
<1>4. ListsTell'
  BY DEF ItemInv, ListsTell, Apart, Busy
<1>5. (\A a \in Addrs : urows'[a] = 0 /\ urestore'[a] = {}) /\ udrop' = {}
  BY DEF EmptyDb
<1>6. ReloadTells' /\ ReadTells' /\ DropTells' /\ RestoreTells'
  BY <1>5 DEF ReloadTells, ReadTells, DropTells, RestoreTells
<1>7. TaskTells'
  BY <1>2, TaskFrame DEF ItemInv
<1>8. Mirror' /\ TablesTell' /\ InfoTells' /\ PlaceTells'
  BY <1>2, QuietFrame
<1>9. MemoryTells'
  <2> SUFFICES ASSUME NEW a \in Addrs, a \notin spoilt'
               PROVE  FlagsTell(a)'
    BY DEF MemoryTells
  <2>1. FlagsTell(a) /\ a \notin spoilt
    BY <1>2 DEF ItemInv, MemoryTells
  <2>2. /\ flags'[a] = (IF a \in udrop THEN {} ELSE flags[a]) \cup urestore[a]
        /\ urestore[a] \subseteq SavedFlags
    BY <1>0
  <2>3. ASSUME urestore[a] # {}
        PROVE  /\ a \notin udrop /\ conn.meta[a] # NoInfo /\ conn.meta[a].flags = urestore[a]
               /\ conn.meta[a].ident \in listed /\ BaseOf[conn.meta[a].ident] = a
               /\ ~(Busy /\ BaseOf[amod] = a)
    <3>1. a \notin udrop /\ conn.meta[a] # NoInfo /\ conn.meta[a].ident \in listed
      BY <2>1, <2>3 DEF ItemInv, RestoreTells
    <3>2. BaseOf[conn.meta[a].ident] = a
      BY <3>1, <2>1, <1>0, CleanRow
    <3>3. a \in RowRange(conn.rows, a)
      BY <3>1, <1>1, RowFacts
    <3>4. a \notin StaleFlags
      OBVIOUS
    <3>5. conn.meta[a].flags = urestore[a] /\ ~(Busy /\ BaseOf[amod] = a)
      BY <3>3, <3>4, <2>3 DEF StaleFlags
    <3> QED BY <3>1, <3>2, <3>5
  <2>4. (\A b \in listed : BaseOf[b] # a) => Kept(a)' = {}
    BY <2>1, <2>2, <2>3 DEF FlagsTell, Kept
  <2>5. Unsaved(a)' <=> Unsaved(a)
    BY DEF Unsaved, HasInfo, Place
  <2>6. ASSUME Unsaved(a) PROVE Kept(a)' = Kept(a)
    <3>1. Busy /\ a = Place
      BY <2>6 DEF Unsaved, HasInfo, Busy
    <3>2. a \notin udrop
      <4>1. amod \in Builds
        BY <3>1 DEF ItemInv, TaskTells
      <4> QED BY <4>1, <3>1, <2>1, LostFacts DEF ItemInv, DropTells, Place
    <3>3. urestore[a] = {}
      BY <2>3, <3>1 DEF Place
    <3> QED BY <3>2, <3>3, <2>2 DEF Kept
  <2>7. ASSUME ~Unsaved(a), NEW b \in listed, BaseOf[b] = a
        PROVE  Known(a, b)' /\ Kept(a)' = Recorded(a, b)'
    <3>1. CASE a \in udrop
      <4>1. urows[a] = 0
        BY <3>1 DEF Pending
      <4>2. conn.meta[a] = NoInfo
        BY <3>1, <4>1, <2>1 DEF ItemInv, DropTells
      <4>3. Kept(a)' = {}
        BY <3>1, <2>2, <2>3 DEF Kept
      <4> QED BY <4>2, <4>3 DEF Known, Recorded
    <3>2. CASE a \notin udrop /\ urestore[a] = {}
      <4>1. Known(a, b) /\ Kept(a) = Recorded(a, b)
        BY <3>2, <2>1, <2>7 DEF FlagsTell, Settled
      <4>2. Kept(a)' = Kept(a)
        BY <3>2, <2>2 DEF Kept
      <4> QED BY <4>1, <4>2 DEF Known, Recorded
    <3>3. CASE a \notin udrop /\ urestore[a] # {}
      <4>1. conn.meta[a] # NoInfo /\ conn.meta[a].flags = urestore[a] /\ conn.meta[a].ident = b
        BY <3>3, <2>3, <2>7, <1>0, BuildAtFacts
      <4>2. Kept(a) = {} \/ Kept(a) = conn.meta[a].flags
        BY <3>3, <2>1, <2>7 DEF FlagsTell, Known
      <4>3. Kept(a)' = Kept(a) \cup urestore[a]
        BY <3>3, <2>2 DEF Kept
      <4> QED BY <4>1, <4>2, <4>3 DEF Known, Recorded
    <3> QED BY <3>1, <3>2, <3>3
  <2> QED BY <2>1, <2>4, <2>5, <2>6, <2>7 DEF FlagsTell
<1> QED BY <1>3, <1>4, <1>6, <1>7, <1>8, <1>9 DEF ItemInv

\* A comment, in the transaction of a save or on its own.
LEMMA WriteCommentKeeps ==
  ASSUME ItemInv, NEW c \in Comments, WriteComment(c)
  PROVE  ItemInv'
<1> USE DEF WriteComment, procVars, itemVars, uiVars, anVars
<1>0. /\ tx' = tx /\ conn' = [conn EXCEPT !.comments = @ \cup {c}]
      /\ disk' = IF tx THEN disk ELSE conn'
  BY DEF Execute
<1>1. conn \in Tables
  BY ConnFacts DEF ItemInv
<1>2. /\ conn' \in Tables /\ conn'.rows = conn.rows /\ conn'.meta = conn.meta
      /\ conn'.refs = conn.refs /\ conn.comments \subseteq conn'.comments
  BY <1>0, <1>1, CommentFields
<1>3. VarTypes'
  BY <1>0 DEF ItemInv, VarTypes
<1>4. Mirror'
  BY <1>0, <1>2 DEF ItemInv, Mirror
<1>5. TablesTell'
  <2>1. Fresh' = Fresh /\ Exempt' = Exempt /\ DiskFresh' = DiskFresh
    BY <1>0, SameTask DEF DiskFresh
  <2>2. TableInv(spoilt, conn', Fresh)
    BY <1>2, TableLess DEF ItemInv, TablesTell
  <2>3. CASE tx
    BY <2>1, <2>2, <2>3, <1>0 DEF ItemInv, TablesTell
  <2>4. CASE ~tx
    <3>1. disk' = conn' /\ disk = conn /\ DiskFresh = Fresh
      BY <2>4, <1>0 DEF ItemInv, Mirror, DiskFresh
    <3>2. DoneTells(spoilt, conn', Exempt)
      BY <3>1, <1>2, DoneMore DEF ItemInv, TablesTell
    <3> QED BY <2>1, <2>2, <3>1, <3>2 DEF TablesTell
  <2> QED BY <2>3, <2>4, <1>0 DEF ItemInv, VarTypes
<1>6. ListsTell' /\ ReloadTells'
  BY DEF ItemInv, ListsTell, ReloadTells, Apart, Busy
<1>7. TaskTells' /\ InfoTells' /\ PlaceTells'
  BY <1>2, TaskFrame, InfoFrame, PlaceFrame DEF ItemInv
<1>8. ReadTells' /\ DropTells' /\ RestoreTells' /\ MemoryTells'
  BY <1>2, ReadFrame, DropFrame, RestoreFrame, MemoryFrame, SameTask DEF ItemInv
<1> QED BY <1>3, <1>4, <1>5, <1>6, <1>7, <1>8 DEF ItemInv

\* The flag of the symbols is not saved.
LEMMA LoadSymbolsKeeps ==
  ASSUME ItemInv, NEW b \in Builds, LoadSymbols(b)
  PROVE  ItemInv'
<1> USE DEF LoadSymbols, dbVars, procVars, uiVars, anVars
<1>1. flags' \in [Addrs -> SUBSET Flags] /\ \A a \in Addrs : Kept(a)' = Kept(a)
  BY DEF ItemInv, VarTypes, Flags, SavedFlags, Kept
<1>2. VarTypes'
  BY <1>1 DEF ItemInv, VarTypes
<1>3. ListsTell' /\ ReloadTells'
  BY DEF ItemInv, ListsTell, ReloadTells, Apart, Busy
<1>4. TaskTells'
  BY TaskFrame DEF ItemInv
<1>5. Mirror' /\ TablesTell' /\ InfoTells' /\ PlaceTells'
  BY QuietFrame
<1>6. ReadTells' /\ DropTells' /\ RestoreTells'
  BY ReadFrame, DropFrame, RestoreFrame, SameTask DEF ItemInv
<1>7. MemoryTells'
  <2> SUFFICES ASSUME NEW a \in Addrs, a \notin spoilt
               PROVE  FlagsTell(a)'
    BY DEF MemoryTells
  <2>1. FlagsTell(a)
    BY DEF ItemInv, MemoryTells
  <2> QED BY <2>1, <1>1 DEF FlagsTell, Unsaved, Known, Settled, Recorded, HasInfo, Place
<1> QED BY <1>2, <1>3, <1>4, <1>5, <1>6, <1>7 DEF ItemInv

------------------------------------------------------------------------------
(* Dropping what another module replaced.                                    *)

\* A set of numbers has a least one.
LEMMA LeastNat ==
  ASSUME NEW T \in SUBSET Nat, T # {}
  PROVE  \E n \in T : \A m \in T : n <= m
<1>1. IsWellFoundedOn(OpToRel(<, Nat), Nat)
  BY NatLessThanWellFounded
<1>2. PICK n \in T : \A m \in T : ~(<<m, n>> \in OpToRel(<, Nat))
  BY <1>1, WFMin
<1>3. ASSUME NEW m \in T PROVE n <= m
  <2>1. ~(m < n)
    BY <1>2, <1>3 DEF OpToRel
  <2> QED BY <2>1
<1> QED BY <1>3

\* The next row to drop is one of those to drop.
LEMMA NextDropFacts ==
  ASSUME VarTypes, Pending # {}
  PROVE  NextDrop \in Pending /\ NextDrop \in udrop /\ NextDrop \in Addrs /\ urows[NextDrop] # 0
<1>1. Pending \subseteq Nat /\ Pending \subseteq udrop /\ udrop \subseteq Addrs
  BY ItemAssumption DEF VarTypes, Pending
<1>2. \E a \in Pending : \A c \in Pending : a <= c
  BY <1>1, LeastNat
<1>3. NextDrop \in Pending
  BY <1>2 DEF NextDrop
<1> QED BY <1>1, <1>3 DEF Pending

\* One row is dropped, or was already gone.
LEMMA UnloadModuleKeeps ==
  ASSUME ItemInv, UnloadModule
  PROVE  ItemInv'
<1> USE DEF UnloadModule, procVars, itemVars, anVars
<1> DEFINE n == NextDrop
<1>0. n \in udrop /\ n \in Addrs /\ urows[n] # 0
  BY NextDropFacts DEF ItemInv
<1>1. ~tx /\ conn = disk /\ tx \in BOOLEAN
  BY DEF ItemInv, VarTypes, Mirror, Saving
<1>2. /\ conn \in Tables /\ TableShape(conn) /\ conn.rows \in [Addrs -> Nat]
      /\ conn.meta \in [Addrs -> Infos \cup {NoInfo}]
      /\ \A a \in Addrs : conn.rows[a] = 0 => conn.meta[a] = NoInfo
  BY ConnFacts DEF ItemInv
<1>3. /\ tx' = tx /\ disk' = conn' /\ conn' \in Tables /\ conn'.comments = conn.comments
      /\ conn'.rows = [conn.rows EXCEPT ![n] = 0] /\ conn'.meta = [conn.meta EXCEPT ![n] = NoInfo]
      /\ conn'.refs = conn.refs \ {r \in conn.refs : r.from \in RowRange(conn.rows, n)}
  <2>1. CASE conn.rows[n] # 0
    <3>1. tx' = tx /\ disk' = conn' /\ conn' = DeleteModule(conn, n)
      BY <2>1, <1>1 DEF Execute, IsModuleExists
    <3> QED BY <3>1, <1>0, <1>2, DeleteModuleFields
  <2>2. CASE conn.rows[n] = 0
    <3>1. conn' = conn /\ disk' = conn' /\ tx' = tx
      BY <2>2, <1>1 DEF dbVars, IsModuleExists
    <3>2. conn.meta[n] = NoInfo /\ RowRange(conn.rows, n) = {}
      BY <2>2, <1>0, <1>2, RowFacts
    <3>3. conn.rows = [conn.rows EXCEPT ![n] = 0] /\ conn.meta = [conn.meta EXCEPT ![n] = NoInfo]
      BY <2>2, <3>2, <1>0, <1>2
    <3> QED BY <3>1, <3>2, <3>3, <1>2
  <2> QED BY <2>1, <2>2
<1>4. urows' = [urows EXCEPT ![n] = 0] /\ urows \in [Addrs -> Nat]
  BY DEF ItemInv, VarTypes
<1> HIDE DEF n
<1>5. /\ conn'.rows[n] = 0 /\ conn'.meta[n] = NoInfo /\ urows'[n] = 0
      /\ \A a \in Addrs \ {n} : /\ conn'.rows[a] = conn.rows[a] /\ conn'.meta[a] = conn.meta[a]
                                /\ urows'[a] = urows[a]
                                /\ RowRange(conn'.rows, a) = RowRange(conn.rows, a)
  BY <1>0, <1>2, <1>3, <1>4, SameRow
<1>6. VarTypes'
  BY <1>3, <1>4, <1>0 DEF ItemInv, VarTypes
<1>7. Mirror'
  BY <1>3 DEF Mirror
<1>8. TablesTell'
  <2>1. Fresh' = Fresh /\ Exempt' = Exempt /\ DiskFresh' = Fresh /\ DiskFresh = Fresh
    BY <1>1, <1>3, SameTask DEF DiskFresh
  <2>2. TableInv(spoilt, conn', Fresh)
    BY <1>0, <1>3, TableDelete DEF ItemInv, TablesTell
  <2>3. DoneTells(spoilt, conn', Exempt)
    <3>1. TableInv(spoilt, conn, Fresh) /\ DoneTells(spoilt, conn, Exempt)
      BY <1>1 DEF ItemInv, TablesTell
    <3>2. conn'.meta[n] = NoInfo /\ \A c \in Addrs \ {n} : conn'.meta[c] = conn.meta[c]
      BY <1>5
    <3>3. conn'.refs = conn.refs \ {r \in conn.refs : r.from \in RowRange(conn.rows, n)}
      BY <1>3
    <3> QED BY <3>1, <3>2, <3>3, <1>0, DoneDelete
  <2> QED BY <2>1, <2>2, <2>3, <1>3 DEF TablesTell
<1>9. ListsTell' /\ ReloadTells'
  BY DEF ItemInv, ListsTell, ReloadTells, Apart, Busy
<1>10. TaskTells' /\ InfoTells'
  BY TaskFrame, InfoFrame DEF ItemInv
<1>11. ASSUME Busy
       PROVE  /\ amod \in Builds /\ Place \in Addrs /\ Place \in RangeOf(amod)
              /\ n = Place => Lost(spoilt, amod) /\ Place \in spoilt
  <2>1. amod \in Builds
    BY <1>11 DEF ItemInv, TaskTells
  <2> QED BY <2>1, <1>0, <1>11, RangeFacts, LostFacts DEF ItemInv, DropTells, Place
<1>12. PlaceTells'
  <2>1. ASSUME Busy PROVE PlaceInv(spoilt, conn', amod)
    <3>1. TableShape(conn')
      BY <1>8 DEF TablesTell, TableInv
    <3>2. \A a \in Addrs : conn'.rows[a] # 0 =>
            conn'.rows[a] = conn.rows[a] /\ conn'.meta[a] = conn.meta[a]
      BY <1>5
    <3>3. PlaceInv(spoilt, conn, amod)
      BY <2>1 DEF ItemInv, PlaceTells
    <3> QED BY <3>1, <3>2, <3>3, <1>2, PlaceLess
  <2>2. HasBuild => Lost(spoilt, amod) \/ conn'.rows[Place] # 0
    <3>1. HasBuild => Busy
      BY DEF HasBuild, Busy
    <3> QED BY <3>1, <1>5, <1>11 DEF ItemInv, PlaceTells
  <2>3. Clearing => Place \in spoilt \/ conn'.rows[Place] # 0
    <3>1. Clearing => Busy
      BY DEF Clearing, Busy
    <3> QED BY <3>1, <1>5, <1>11 DEF ItemInv, PlaceTells
  <2>4. ASSUME apc \in {"flag", "ident", "info"}, Clean(amod)
        PROVE  Found(amod, "code") \subseteq conn'.refs
    <3>1. Busy /\ Found(amod, "code") \subseteq conn.refs /\ PlaceInv(spoilt, conn, amod)
      BY <2>4 DEF ItemInv, PlaceTells, Busy
    <3>2. ~Lost(spoilt, amod) /\ n # Place
      BY <2>4, <3>1, <1>11, LostFacts DEF Clean
    <3>3. RowRange(conn.rows, n) \cap RangeOf(amod) = {}
      BY <3>1, <3>2, <1>0 DEF PlaceInv, PlaceFits, Place
    <3>4. \A r \in Found(amod, "code") : r.from \in RangeOf(amod)
      BY DEF Found
    <3> QED BY <3>1, <3>3, <3>4, <1>3
  <2> QED BY <2>1, <2>2, <2>3, <2>4 DEF PlaceTells, Busy, HasBuild, Clearing, Place, Clean
<1>13. ReadTells'
  BY <1>5 DEF ItemInv, ReadTells, RowLost
<1>14. DropTells'
  <2>1. \A a \in Addrs \ {n} : Replaced(conn.rows, a)' <=> Replaced(conn.rows, a)
    BY <1>5 DEF Replaced, Over, RowIsSame
  <2>2. udrop \subseteq Addrs
    BY DEF ItemInv, VarTypes
  <2> QED BY <2>1, <2>2, <1>5 DEF ItemInv, DropTells, RowLost, Busy, Place
<1>15. RestoreTells'
  BY <1>0, <1>5 DEF ItemInv, RestoreTells
<1>16. MemoryTells'
  <2> SUFFICES ASSUME NEW a \in Addrs, a \notin spoilt
               PROVE  FlagsTell(a)'
    BY DEF MemoryTells
  <2>1. FlagsTell(a)
    BY DEF ItemInv, MemoryTells
  <2>2. Kept(a)' = Kept(a) /\ (Unsaved(a)' <=> Unsaved(a)) /\ (Settled(a)' <=> Settled(a))
    BY DEF Kept, Unsaved, HasInfo, Place, Settled
  <2>3. CASE a = n
    BY <2>1, <2>2, <2>3, <1>0 DEF FlagsTell
  <2>4. CASE a # n
    <3>1. conn'.meta[a] = conn.meta[a]
      BY <2>4, <1>5
    <3> QED BY <2>1, <2>2, <3>1 DEF FlagsTell, Known, Recorded
  <2> QED BY <2>3, <2>4
<1> QED BY <1>6, <1>7, <1>8, <1>9, <1>10, <1>12, <1>13, <1>14, <1>15, <1>16 DEF ItemInv

------------------------------------------------------------------------------
(* The analyzer: where a task stands.                                        *)

\* The parts that depend on the place of the analyzer, in one fact.
LEMMA TaskFacts ==
  ASSUME ItemInv, Busy
  PROVE  /\ amod \in Builds /\ Place \in Addrs /\ Place \in RangeOf(amod)
         /\ PlaceInv(spoilt, conn, amod)
         /\ Lost(spoilt, amod) => Place \in spoilt
         /\ ~Lost(spoilt, amod) => amod \in listed
         /\ Place \in udrop => Lost(spoilt, amod)
<1>1. amod \in Builds
  BY DEF ItemInv, TaskTells
<1>2. Place \in Addrs /\ Place \in RangeOf(amod) /\ (Lost(spoilt, amod) => Place \in spoilt)
  BY <1>1, RangeFacts, LostFacts DEF Place
<1> QED BY <1>1, <1>2 DEF ItemInv, TaskTells, PlaceTells, DropTells

\* Outside of a save, the disk has what the connection has.
LEMMA NoSave ==
  ASSUME ItemInv, apc # "save"
  PROVE  ~tx /\ tx = FALSE /\ conn = disk /\ DiskFresh = Fresh
  BY DEF ItemInv, VarTypes, Mirror, DiskFresh

\* A task without a description to save says nothing about the flags.
LEMMA MemoryMoves ==
  ASSUME MemoryTells, ~HasInfo, ~HasInfo', conn'.meta = conn.meta, spoilt \subseteq spoilt',
         UNCHANGED <<flags, listed, upc, urows, urestore, udrop, view>>
  PROVE  MemoryTells'
  BY DEF MemoryTells, FlagsTell, Kept, Unsaved, Known, Settled, Recorded

\* A task starts.
LEMMA StartTaskKeeps ==
  ASSUME ItemInv, NEW task \in Tasks \ {"symbols"}, NEW b \in Builds, StartTask(task, b)
  PROVE  ItemInv'
<1> USE DEF StartTask, dbVars, procVars, uiVars
<1>0. apc = "idle" /\ apc' \in {"begin", "clear"} /\ b \in listed /\ amod' = b
  BY DEF Busy
<1>1. ~HasInfo /\ ~HasInfo' /\ ~HasBuild /\ ~HasBuild' /\ Exempt = {} /\ Exempt' = {} /\ Busy'
  BY <1>0 DEF HasInfo, HasBuild, Exempt, Busy
<1>2. Fresh = NoBuild /\ Fresh' = NoBuild
  BY <1>1 DEF Fresh
<1>3. /\ conn.rows \in [Addrs -> Nat] /\ TableShape(conn) /\ TableInv(spoilt, conn, NoBuild)
      /\ \A a \in Addrs : /\ RowRange(conn.rows, a) \subseteq Addrs
                          /\ conn.meta[a] # NoInfo => conn.rows[a] # 0
  BY <1>2, ConnFacts DEF ItemInv, TablesTell
<1>4. /\ BaseOf[b] \in Addrs /\ BaseOf[b] \in RangeOf(b) /\ RangeOf(b) \subseteq Addrs
      /\ \A c \in loaded : RangeOf(c) \subseteq Addrs
  BY RangeFacts DEF ItemInv, VarTypes
<1>5. /\ spoilt \subseteq spoilt'
      /\ b \in loaded \/ view = "saved" \/ (Lost(spoilt', b) /\ \A c \in loaded : Lost(spoilt', c))
      /\ BaseOf[b] \in udrop \/ Misfits(b) # {} => Lost(spoilt', b)
      /\ \A a \in Misfits(b) : RowLost(spoilt', conn.rows, a)
  BY DEF Lost, RowLost
<1>6. spoilt' \subseteq Addrs
  <2>1. \A a \in Misfits(b) : RowRange(conn.rows, a) \subseteq Addrs
    BY <1>3 DEF Misfits
  <2>2. spoilt \subseteq Addrs
    BY DEF ItemInv, VarTypes
  <2>3. UNION {RowRange(conn.rows, a) : a \in Misfits(b)} \subseteq Addrs
    BY <2>1
  <2>4. UNION {RangeOf(c) : c \in loaded} \subseteq Addrs
    BY <1>4
  <2> QED BY <2>2, <2>3, <2>4, <1>4
<1>7. VarTypes'
  BY <1>0, <1>6 DEF ItemInv, VarTypes
<1>8. Mirror' /\ TablesTell'
  BY <1>1, <1>2, <1>5, MirrorFrame, TablesFrame DEF ItemInv
<1>9. ListsTell' /\ ReloadTells'
  BY DEF ItemInv, ListsTell, ReloadTells, Apart
<1>10. TaskTells'
  <2>1. ASSUME NEW c \in listed \cup loaded, c # b, Overlap(c, b) PROVE Lost(spoilt', c)
    <3>1. Apart(listed) /\ Apart(loaded) /\ (view = "saved" => loaded = {})
      BY DEF ItemInv, ListsTell
    <3> QED BY <2>1, <3>1, <1>0, <1>5 DEF Apart
  <2> QED BY <2>1, <1>0, <1>1, <1>5 DEF TaskTells
<1>11. InfoTells'
  BY <1>1 DEF InfoTells
<1>12. PlaceTells'
  <2>1. PlaceInv(spoilt', conn, b)
    <3> SUFFICES ASSUME NEW a \in Addrs, RowRange(conn.rows, a) \cap RangeOf(b) # {}
                 PROVE  PlaceFits(spoilt', conn, a, b)
      BY DEF PlaceInv
    <3>1. CASE a \in Misfits(b)
      BY <3>1, <1>5 DEF PlaceFits
    <3>2. CASE a \notin Misfits(b)
      <4>1. a = BaseOf[b] /\ conn.rows[a] = SizeOf[b] /\ Same(a, b, conn.meta[a])
        BY <3>2 DEF Misfits
      <4>2. RowRange(conn.rows, a) = RangeOf(b)
        BY <4>1, <1>3, RowFacts
      <4>3. RowTells(spoilt, conn, a, NoBuild)
        BY <1>3 DEF TableInv
      <4>4. CASE RowLost(spoilt, conn.rows, a)
        BY <4>2, <4>4, <1>5 DEF PlaceFits, RowLost, Lost
      <4>5. CASE conn.meta[a] # NoInfo /\ conn.meta[a].ident = conn.meta[a].build
        <5>1. conn.meta[a].build # NoBuild
          BY <4>5, <1>3, RangeFacts DEF TableShape
        <5> QED BY <5>1, <4>1, <4>5 DEF PlaceFits, Same
      <4> QED BY <4>3, <4>4, <4>5 DEF RowTells
    <3> QED BY <3>1, <3>2
  <2>2. ASSUME apc' = "clear", BaseOf[b] \notin spoilt' PROVE conn.rows[BaseOf[b]] # 0
    <3>1. "analyzeDone" \in flags[BaseOf[b]]
      BY <2>2
    <3>2. BaseOf[b] \notin udrop /\ BaseOf[b] \notin spoilt
      BY <2>2, <1>4, <1>5 DEF Lost
    <3>3. Known(BaseOf[b], b)
      BY <3>2, <1>0, <1>1, <1>4 DEF ItemInv, MemoryTells, FlagsTell, Unsaved
    <3>4. Kept(BaseOf[b]) # {}
      BY <3>1 DEF Kept, SavedFlags
    <3> QED BY <3>3, <3>4, <1>3, <1>4 DEF Known
  <2>3. Clearing' => apc' = "clear"
    BY <1>0 DEF Clearing
  <2> QED BY <2>1, <2>2, <2>3, <1>0, <1>1 DEF PlaceTells, Place
<1>13. ReadTells' /\ RestoreTells' /\ MemoryTells'
  BY <1>1, <1>5, ReadFrame, RestoreFrame, MemoryMoves DEF ItemInv
<1>14. DropTells'
  <2>1. Busy' /\ Place' \in udrop => Lost(spoilt', amod')
    BY <1>0, <1>5 DEF Place
  <2>2. \A a : Replaced(conn.rows, a)' <=> Replaced(conn.rows, a)
    BY DEF Replaced, Over, RowIsSame
  <2> QED BY <2>1, <2>2, <1>5 DEF ItemInv, DropTells, RowLost
<1> QED BY <1>7, <1>8, <1>9, <1>10, <1>11, <1>12, <1>13, <1>14 DEF ItemInv

\* .analyze /f: the references go.
LEMMA ClearReferencesKeeps ==
  ASSUME ItemInv, ClearReferences
  PROVE  ItemInv'
<1> USE DEF ClearReferences, procVars, itemVars, uiVars
<1>0. /\ Busy /\ Busy' /\ ~HasInfo /\ ~HasInfo' /\ ~HasBuild /\ ~HasBuild' /\ Clearing /\ Clearing'
      /\ Exempt = {} /\ Exempt' = {Place} /\ Fresh = NoBuild /\ Fresh' = NoBuild
  BY DEF Busy, HasInfo, HasBuild, Clearing, Exempt, Fresh, Place
<1>1. ~tx /\ tx = FALSE /\ conn = disk /\ DiskFresh = Fresh
  BY NoSave
<1>2. amod \in Builds /\ Place \in Addrs
  BY <1>0, TaskFacts
<1>3. conn \in Tables /\ conn.rows \in [Addrs -> Nat]
  BY ConnFacts DEF ItemInv
<1>4. /\ tx' = tx /\ disk' = conn' /\ conn' \in Tables /\ conn'.comments = conn.comments
      /\ conn'.rows = conn.rows /\ conn'.meta = conn.meta
      /\ conn'.refs = conn.refs \ {r \in conn.refs : r.from \in RowRange(conn.rows, Place)}
  <2>1. tx' = tx /\ disk' = conn'
    BY <1>1 DEF Execute
  <2>2. CASE conn.rows[Place] # 0
    <3>1. conn' = DeleteRefs(conn, Place)
      BY <2>2 DEF Execute, IsModuleExists, Place
    <3> QED BY <2>1, <3>1, <1>2, <1>3, DeleteRefsFields
  <2>3. CASE conn.rows[Place] = 0
    <3>1. conn' = conn
      BY <2>3 DEF Execute, IsModuleExists, Place
    <3>2. RowRange(conn.rows, Place) = {}
      BY <2>3, <1>2, <1>3, RowFacts
    <3> QED BY <2>1, <3>1, <3>2, <1>3
  <2> QED BY <2>2, <2>3
<1>5. VarTypes'
  BY <1>1, <1>4 DEF ItemInv, VarTypes
<1>6. Mirror'
  BY <1>4 DEF Mirror
<1>7. TablesTell'
  <2>1. TableInv(spoilt, conn, NoBuild) /\ DoneTells(spoilt, conn, {})
    BY <1>0, <1>1 DEF ItemInv, TablesTell
  <2>2. TableInv(spoilt, conn', NoBuild)
    BY <2>1, <1>4, TableLess
  <2>3. DoneTells(spoilt, conn, {Place})
    BY <2>1, DoneGrows
  <2>4. DoneTells(spoilt, conn', {Place})
    <3>1. \A c \in Addrs \ {Place} : conn'.meta[c] = conn.meta[c]
      BY <1>4
    <3>2. conn'.refs = conn.refs \ {r \in conn.refs : r.from \in RowRange(conn.rows, Place)}
      BY <1>4
    <3> QED BY <3>1, <3>2, <2>1, <2>3, <1>2, DoneDelete
  <2>5. DiskFresh' = NoBuild
    BY <1>0 DEF DiskFresh
  <2> QED BY <2>2, <2>4, <2>5, <1>0, <1>4 DEF TablesTell
<1>8. ListsTell' /\ ReloadTells'
  BY <1>0 DEF ItemInv, ListsTell, ReloadTells, Apart
<1>9. TaskTells' /\ InfoTells'
  BY <1>0 DEF ItemInv, TaskTells, InfoTells
<1>10. PlaceTells'
  <2>1. PlaceInv(spoilt, conn', amod)
    BY <1>0, <1>4, TaskFacts DEF PlaceInv, PlaceFits
  <2> QED BY <2>1, <1>0, <1>4 DEF ItemInv, PlaceTells, Place
<1>11. ReadTells' /\ DropTells' /\ RestoreTells' /\ MemoryTells'
  BY <1>0, <1>4, ReadFrame, DropFrame, RestoreFrame, MemoryMoves DEF ItemInv
<1> QED BY <1>5, <1>6, <1>7, <1>8, <1>9, <1>10, <1>11 DEF ItemInv

\* UpdateModuleFlags: the description follows the flags.
LEMMA SetFlagsKeeps ==
  ASSUME ItemInv, NEW set \in SUBSET Flags, NEW remove \in SUBSET Flags,
         SetFlags(BaseOf[amod], set, remove), Busy, ~HasInfo, apc' \in {"ident0", "ident"},
         apc' = "ident0" => remove = {"analyzeDone"} /\ set = {},
         UNCHANGED <<conn, listed, view, upc, urows, udrop, urestore, amod, spoilt>>
  PROVE  /\ flags' \in [Addrs -> SUBSET Flags] /\ ainfo' \in Infos
         /\ InfoTells' /\ MemoryTells'
<1> USE DEF SetFlags
<1>0. /\ flags \in [Addrs -> SUBSET Flags] /\ listed \subseteq Builds /\ Apart(listed)
  BY DEF ItemInv, VarTypes, ListsTell
<1>1. /\ amod \in Builds /\ Place \in Addrs /\ Place' = Place
      /\ ~Lost(spoilt, amod) => amod \in listed
      /\ Lost(spoilt, amod) => Place \in spoilt
  BY TaskFacts DEF Place
<1>2. /\ flags' \in [Addrs -> SUBSET Flags] /\ flags'[Place] = (flags[Place] \cup set) \ remove
      /\ \A a \in Addrs \ {Place} : flags'[a] = flags[a]
  BY <1>0, <1>1 DEF Place
<1>3. /\ ainfo'.build = BuildAt(listed, Place) /\ ainfo'.flags = flags'[Place] \cap SavedFlags
      /\ ainfo' \in Infos
  <2>1. BuildAt(listed, Place) \in Builds \cup {NoBuild}
    BY <1>0, BuildAtFacts
  <2> QED BY <2>1 DEF Infos, Place
<1>4. InfoTells'
  <2>1. ainfo'.build # NoBuild => BaseOf[ainfo'.build] = Place
    BY <1>0, <1>3, BuildAtFacts
  <2>2. ~Lost(spoilt, amod) => ainfo'.build = amod
    BY <1>0, <1>1, <1>3, BuildAtFacts DEF Place
  <2>3. apc' = "ident0" => "analyzeDone" \notin ainfo'.flags
    BY <1>2, <1>3
  <2> QED BY <2>1, <2>2, <2>3, <1>1, <1>3 DEF InfoTells
<1>5. MemoryTells'
  <2> SUFFICES ASSUME NEW a \in Addrs, a \notin spoilt
               PROVE  FlagsTell(a)'
    BY DEF MemoryTells
  <2>1. FlagsTell(a)
    BY DEF ItemInv, MemoryTells
  <2>2. Unsaved(a)' <=> a = Place
    BY <1>1 DEF Unsaved, HasInfo
  <2>3. CASE a = Place
    <3>1. ainfo'.flags = Kept(a)'
      BY <2>3, <1>3 DEF Kept
    <3>2. amod \in listed /\ BaseOf[amod] = a
      BY <2>3, <1>1 DEF Place
    <3> QED BY <2>2, <2>3, <3>1, <3>2 DEF FlagsTell
  <2>4. CASE a # Place
    <3>1. Kept(a)' = Kept(a) /\ ~Unsaved(a)' /\ ~Unsaved(a)
      BY <2>2, <2>4, <1>2 DEF Kept, Unsaved
    <3> QED BY <3>1, <2>1 DEF FlagsTell, Known, Settled, Recorded
  <2> QED BY <2>3, <2>4
<1> QED BY <1>2, <1>3, <1>4, <1>5

\* The flag of the module goes from memory.
LEMMA ClearFlagKeeps ==
  ASSUME ItemInv, ClearFlag
  PROVE  ItemInv'
<1> USE DEF ClearFlag, dbVars, procVars, uiVars
<1>0. /\ Busy /\ Busy' /\ ~HasInfo /\ ~HasBuild /\ ~HasBuild' /\ Clearing /\ Clearing'
      /\ Exempt' = Exempt /\ Fresh' = Fresh
  BY DEF Busy, HasInfo, HasBuild, Clearing, Exempt, Fresh, Place
<1>1. flags' \in [Addrs -> SUBSET Flags] /\ ainfo' \in Infos /\ InfoTells' /\ MemoryTells'
  <2>1. {"analyzeDone"} \in SUBSET Flags /\ {} \in SUBSET Flags
    BY DEF Flags
  <2>2. UNCHANGED <<conn, listed, view, upc, urows, udrop, urestore, amod, spoilt>>
    OBVIOUS
  <2>3. SetFlags(BaseOf[amod], {}, {"analyzeDone"}) /\ apc' = "ident0"
    OBVIOUS
  <2> QED BY <2>1, <2>2, <2>3, <1>0, SetFlagsKeeps
<1>2. VarTypes'
  BY <1>1 DEF ItemInv, VarTypes
<1>3. Mirror' /\ TablesTell'
  BY <1>0, MirrorFrame, TablesFrame DEF ItemInv
<1>4. ListsTell' /\ ReloadTells'
  BY <1>0 DEF ItemInv, ListsTell, ReloadTells, Apart
<1>5. TaskTells' /\ PlaceTells'
  BY <1>0 DEF ItemInv, TaskTells, PlaceTells, Place
<1>6. ReadTells' /\ DropTells' /\ RestoreTells'
  BY <1>0, ReadFrame, DropFrame, RestoreFrame DEF ItemInv
<1> QED BY <1>1, <1>2, <1>3, <1>4, <1>5, <1>6 DEF ItemInv

\* The flag of a committed analysis comes.
LEMMA SetDoneKeeps ==
  ASSUME ItemInv, SetDone
  PROVE  ItemInv'
<1> USE DEF SetDone, dbVars, procVars, uiVars
<1>0. /\ Busy /\ Busy' /\ ~HasInfo /\ HasBuild /\ HasBuild' /\ ~Clearing /\ ~Clearing'
      /\ Exempt' = Exempt /\ Fresh' = Fresh
  BY DEF Busy, HasInfo, HasBuild, Clearing, Exempt, Fresh, Place
<1>1. flags' \in [Addrs -> SUBSET Flags] /\ ainfo' \in Infos /\ InfoTells' /\ MemoryTells'
  <2>1. {DoneFlag} \in SUBSET Flags /\ {} \in SUBSET Flags
    BY DEF Flags, DoneFlag
  <2>2. UNCHANGED <<conn, listed, view, upc, urows, udrop, urestore, amod, spoilt>>
    OBVIOUS
  <2>3. SetFlags(BaseOf[amod], {DoneFlag}, {}) /\ apc' = "ident"
    OBVIOUS
  <2> QED BY <2>1, <2>2, <2>3, <1>0, SetFlagsKeeps
<1>2. VarTypes'
  BY <1>1 DEF ItemInv, VarTypes
<1>3. Mirror' /\ TablesTell'
  BY <1>0, MirrorFrame, TablesFrame DEF ItemInv
<1>4. ListsTell' /\ ReloadTells'
  BY <1>0 DEF ItemInv, ListsTell, ReloadTells, Apart
<1>5. TaskTells' /\ PlaceTells'
  BY <1>0 DEF ItemInv, TaskTells, PlaceTells, Place, Clean
<1>6. ReadTells' /\ DropTells' /\ RestoreTells'
  BY <1>0, ReadFrame, DropFrame, RestoreFrame DEF ItemInv
<1> QED BY <1>1, <1>2, <1>3, <1>4, <1>5, <1>6 DEF ItemInv

\* The identity that modules.xml has for the module.
LEMMA QueryIdentityKeeps ==
  ASSUME ItemInv, QueryIdentity
  PROVE  ItemInv'
<1> USE DEF QueryIdentity, dbVars, procVars, itemVars, uiVars
<1>0. /\ Busy /\ Busy' /\ HasInfo /\ HasInfo' /\ HasBuild' = HasBuild /\ Clearing' = Clearing
      /\ Exempt' = Exempt /\ Fresh' = Fresh
  BY DEF Busy, HasInfo, HasBuild, Clearing, Exempt, Fresh, Place
<1>1. /\ listed \subseteq Builds /\ Apart(listed) /\ ainfo \in Infos
      /\ (~Lost(spoilt, amod) => amod \in listed)
  BY <1>0, TaskFacts DEF ItemInv, VarTypes, ListsTell, InfoTells
<1>2. /\ ainfo' \in Infos /\ ainfo'.build = ainfo.build /\ ainfo'.flags = ainfo.flags
      /\ ainfo'.ident = BuildAt(listed, Place)
  <2>1. BuildAt(listed, Place) \in Builds \cup {NoBuild}
    BY <1>1, BuildAtFacts
  <2> QED BY <2>1, <1>1 DEF Infos, Place
<1>3. VarTypes'
  BY <1>2 DEF ItemInv, VarTypes
<1>4. Mirror' /\ TablesTell'
  BY <1>0, MirrorFrame, TablesFrame DEF ItemInv
<1>5. ListsTell' /\ ReloadTells'
  BY <1>0 DEF ItemInv, ListsTell, ReloadTells, Apart
<1>6. TaskTells'
  BY <1>0 DEF ItemInv, TaskTells, Place
<1>7. InfoTells'
  <2>1. ~Lost(spoilt, amod) => BuildAt(listed, Place) = amod
    BY <1>1, BuildAtFacts DEF Place
  <2>2. apc' = "info0" => apc = "ident0"
    OBVIOUS
  <2>3. apc' # "ident0"
    OBVIOUS
  <2> QED BY <2>1, <2>2, <2>3, <1>0, <1>2 DEF ItemInv, InfoTells, Place
<1>8. PlaceTells'
  <2>1. apc' \in {"flag", "ident", "info"} => apc \in {"flag", "ident", "info"}
    OBVIOUS
  <2> QED BY <2>1, <1>0 DEF ItemInv, PlaceTells, Place, Clean
<1>9. ReadTells' /\ DropTells' /\ RestoreTells'
  BY <1>0, ReadFrame, DropFrame, RestoreFrame DEF ItemInv
<1>10. MemoryTells'
  BY <1>0, <1>2 DEF ItemInv, MemoryTells, FlagsTell, Kept, Unsaved, Known, Settled, Recorded, Place
<1> QED BY <1>3, <1>4, <1>5, <1>6, <1>7, <1>8, <1>9, <1>10 DEF ItemInv

\* Nothing is under way any more.
LEMMA TaskEnds ==
  ASSUME apc' = "idle", amod' = NoBuild, abuild' = NoBuild
  PROVE  /\ ~Busy' /\ ~HasInfo' /\ ~HasBuild' /\ ~Clearing' /\ Fresh' = NoBuild /\ Exempt' = {}
         /\ DiskFresh' = NoBuild /\ TaskTells' /\ InfoTells' /\ PlaceTells'
<1>1. ~Busy' /\ ~HasInfo' /\ ~HasBuild' /\ ~Clearing' /\ Fresh' = NoBuild /\ Exempt' = {}
  BY DEF Busy, HasInfo, HasBuild, Clearing, Fresh, Exempt
<1> QED BY <1>1 DEF DiskFresh, TaskTells, InfoTells, PlaceTells

\* What met a window needs no exception.
LEMMA DoneLost ==
  ASSUME NEW S, NEW t, NEW X, DoneTells(S, t, X), TableShape(t), X \subseteq S
  PROVE  DoneTells(S, t, {})
<1> SUFFICES ASSUME NEW a \in X, a \in Addrs, t.meta[a] # NoInfo,
                    RangeOf(t.meta[a].build) \cap S = {}
             PROVE  FALSE
  BY DEF DoneTells
<1>1. t.meta[a].build \in Builds /\ BaseOf[t.meta[a].build] = a
  BY DEF TableShape
<1> QED BY <1>1, LostFacts

------------------------------------------------------------------------------
(* The analyzer: the save.                                                   *)

\* The analysis can't be made.
LEMMA FailAnalysisKeeps ==
  ASSUME ItemInv, FailAnalysis
  PROVE  ItemInv'
<1> USE DEF FailAnalysis, Idle, dbVars, procVars, itemVars, uiVars
<1>0. ~HasInfo /\ ~HasBuild /\ Fresh = NoBuild /\ Exempt = {} /\ Busy
  BY DEF HasInfo, HasBuild, Fresh, Exempt, Busy
<1>1. /\ ~Busy' /\ ~HasInfo' /\ Fresh' = NoBuild /\ Exempt' = {}
      /\ TaskTells' /\ InfoTells' /\ PlaceTells'
  BY TaskEnds
<1>2. VarTypes'
  BY DEF ItemInv, VarTypes
<1>3. Mirror' /\ TablesTell'
  BY <1>0, <1>1, MirrorFrame, TablesFrame DEF ItemInv
<1>4. ListsTell' /\ ReloadTells'
  BY <1>1 DEF ItemInv, ListsTell, ReloadTells, Apart
<1>5. ReadTells' /\ RestoreTells' /\ MemoryTells'
  BY <1>0, <1>1, ReadFrame, RestoreFrame, MemoryMoves DEF ItemInv
<1>6. DropTells'
  <2>1. \A a : Replaced(conn.rows, a)' <=> Replaced(conn.rows, a)
    BY DEF Replaced, Over, RowIsSame
  <2> QED BY <2>1, <1>1 DEF ItemInv, DropTells
<1> QED BY <1>1, <1>2, <1>3, <1>4, <1>5, <1>6 DEF ItemInv

\* The save is rolled back: what was there before it is.
LEMMA FailSaveKeeps ==
  ASSUME ItemInv, FailSave
  PROVE  ItemInv'
<1> USE DEF FailSave, Idle, RollbackTransaction, procVars, itemVars, uiVars
<1>0. ~HasInfo /\ Exempt = {} /\ DiskFresh = NoBuild
  BY DEF HasInfo, Exempt, DiskFresh
<1>1. /\ ~Busy' /\ ~HasInfo' /\ Fresh' = NoBuild /\ Exempt' = {} /\ DiskFresh' = NoBuild
      /\ TaskTells' /\ InfoTells' /\ PlaceTells'
  BY TaskEnds
<1>2. /\ conn' = disk /\ disk' = disk /\ conn'.meta = conn.meta
      /\ \A a \in Addrs : disk.rows[a] # 0 => disk.rows[a] = conn.rows[a]
  BY DEF ItemInv, Mirror
<1>3. VarTypes'
  BY DEF ItemInv, VarTypes
<1>4. Mirror'
  BY <1>2 DEF Mirror
<1>5. TablesTell'
  BY <1>0, <1>1, <1>2 DEF ItemInv, TablesTell
<1>6. ListsTell' /\ ReloadTells'
  BY <1>1 DEF ItemInv, ListsTell, ReloadTells, Apart
<1>7. RestoreTells' /\ MemoryTells'
  BY <1>0, <1>1, <1>2, RestoreFrame, MemoryMoves DEF ItemInv
<1>8. ASSUME NEW a \in Addrs, disk.rows[a] # 0
      PROVE  /\ disk.rows[a] = conn.rows[a]
             /\ RowLost(spoilt, disk.rows, a) <=> RowLost(spoilt, conn.rows, a)
             /\ Replaced(conn.rows, a)' <=> Replaced(conn.rows, a)
  <2>1. RowRange(disk.rows, a) = RowRange(conn.rows, a)
    BY <1>2, <1>8, SameRow
  <2> QED BY <2>1, <1>2, <1>8 DEF RowLost, Replaced, Over, RowIsSame
<1>9. ReadTells'
  BY <1>2, <1>8 DEF ItemInv, ReadTells
<1>10. DropTells'
  <2>1. udrop \subseteq Addrs
    BY DEF ItemInv, VarTypes
  <2> QED BY <2>1, <1>1, <1>2, <1>8 DEF ItemInv, DropTells
<1> QED BY <1>1, <1>3, <1>4, <1>5, <1>6, <1>7, <1>9, <1>10 DEF ItemInv

\* COMMIT with the rest of the references.
LEMMA CommitSaveKeeps ==
  ASSUME ItemInv, CommitSave
  PROVE  ItemInv'
<1> USE DEF CommitSave, procVars, itemVars, uiVars
<1>0. /\ ~HasInfo /\ ~HasInfo' /\ HasBuild /\ HasBuild' /\ Busy /\ Busy' /\ ~Clearing'
      /\ Exempt = {} /\ Exempt' = {} /\ Fresh = amod /\ Fresh' = amod
  BY DEF HasInfo, HasBuild, Busy, Clearing, Exempt, Fresh
<1>1. /\ tx /\ tx' = FALSE /\ disk' = conn' /\ DiskFresh' = amod
      /\ conn' = [conn EXCEPT !.refs = @ \cup Wanted(abuild, atask)]
  BY <1>0 DEF CommitTransaction, DiskFresh
<1>2. /\ conn \in Tables /\ TableShape(conn) /\ TableInv(spoilt, conn, amod)
      /\ DoneTells(spoilt, disk, {})
  BY <1>0, ConnFacts DEF ItemInv, TablesTell
<1>3. /\ abuild \in Builds /\ BaseOf[abuild] = Place /\ amod \in Builds
      /\ abuild # amod => Lost(spoilt, abuild) /\ Lost(spoilt, amod)
  BY <1>0 DEF ItemInv, TaskTells
<1>4. /\ Wanted(abuild, atask) \subseteq References
      /\ Found(abuild, "code") \subseteq Wanted(abuild, atask)
      /\ \A r \in Wanted(abuild, atask) : r.build = abuild /\ r.from \in RangeOf(abuild)
  BY <1>3, WantedFacts
<1>5. /\ conn' \in Tables /\ conn'.rows = conn.rows /\ conn'.meta = conn.meta
      /\ conn'.comments = conn.comments /\ conn'.refs = conn.refs \cup Wanted(abuild, atask)
  BY <1>1, <1>2, <1>4, MoreFields
<1>6. VarTypes'
  BY <1>1 DEF ItemInv, VarTypes
<1>7. Mirror'
  BY <1>1 DEF Mirror
<1>8. TablesTell'
  <2>1. \/ Lost(spoilt, abuild)
        \/ /\ conn.rows[BaseOf[abuild]] = SizeOf[abuild]
           /\ conn.meta[BaseOf[abuild]] = NoInfo => amod = abuild
           /\ conn.meta[BaseOf[abuild]] # NoInfo => conn.meta[BaseOf[abuild]].build = abuild
    <3>1. CASE abuild # amod \/ Lost(spoilt, amod)
      BY <3>1, <1>3
    <3>2. CASE abuild = amod /\ ~Lost(spoilt, amod)
      <4>1. conn.rows[BaseOf[amod]] # 0 /\ PlaceInv(spoilt, conn, amod)
        BY <3>2, <1>0 DEF ItemInv, PlaceTells, Place
      <4>2. PlaceFits(spoilt, conn, BaseOf[amod], amod)
        BY <4>1, <1>2, <1>3, PlaceRow
      <4> QED BY <3>2, <4>2 DEF PlaceFits
    <3> QED BY <3>1, <3>2
  <2>2. TableInv(spoilt, conn', amod)
    BY <2>1, <1>2, <1>3, <1>4, <1>5, TableAddRefs
  <2>3. DoneTells(spoilt, conn', {})
    <3>1. disk.meta = conn.meta /\ disk.refs \subseteq conn.refs
      BY DEF ItemInv, Mirror
    <3>2. conn'.meta = disk.meta /\ disk.refs \subseteq conn'.refs
      BY <3>1, <1>5
    <3> QED BY <3>2, <1>2, DoneMore
  <2> QED BY <2>2, <2>3, <1>0, <1>1 DEF TablesTell
<1>9. ListsTell' /\ ReloadTells'
  BY <1>0 DEF ItemInv, ListsTell, ReloadTells, Apart
<1>10. TaskTells' /\ InfoTells'
  BY <1>0 DEF ItemInv, TaskTells, InfoTells, Place
<1>11. PlaceTells'
  <2>1. PlaceInv(spoilt, conn', amod)
    BY <1>0, <1>5, TaskFacts DEF PlaceInv, PlaceFits
  <2>2. Clean(amod) => abuild = amod
    BY <1>3, LostFacts DEF Clean
  <2> QED BY <2>1, <2>2, <1>0, <1>4, <1>5 DEF ItemInv, PlaceTells, Place, Clean
<1>12. ReadTells' /\ DropTells' /\ RestoreTells' /\ MemoryTells'
  BY <1>0, <1>5, ReadFrame, DropFrame, RestoreFrame, MemoryMoves DEF ItemInv
<1> QED BY <1>6, <1>7, <1>8, <1>9, <1>10, <1>11, <1>12 DEF ItemInv

\* The save begins: the row if there is none, and the first references.
LEMMA BeginSaveKeeps ==
  ASSUME ItemInv, NEW b \in Builds, BeginSave(b)
  PROVE  ItemInv'
<1> USE DEF BeginSave, procVars, itemVars, uiVars
<1>0. /\ ~HasInfo /\ ~HasInfo' /\ ~HasBuild /\ HasBuild' /\ Busy /\ Busy' /\ ~Clearing'
      /\ Exempt = {} /\ Exempt' = {} /\ Fresh = NoBuild /\ Fresh' = amod /\ Place' = Place
  BY DEF HasInfo, HasBuild, Busy, Clearing, Exempt, Fresh, Place
<1>1. ~tx /\ tx = FALSE /\ conn = disk /\ DiskFresh = Fresh
  BY NoSave
<1>2. /\ amod \in Builds /\ Place \in Addrs /\ PlaceInv(spoilt, conn, amod)
      /\ ~Lost(spoilt, amod) => amod \in listed
      /\ Place \in udrop => Lost(spoilt, amod)
  BY <1>0, TaskFacts
<1>3. /\ conn \in Tables /\ TableShape(conn) /\ conn.rows \in [Addrs -> Nat]
      /\ \A a \in Addrs : conn.rows[a] = 0 => conn.meta[a] = NoInfo
      /\ TableInv(spoilt, conn, NoBuild) /\ DoneTells(spoilt, conn, {})
  BY <1>0, <1>1, ConnFacts DEF ItemInv, TablesTell
<1>4. BaseOf[b] = Place /\ (b # amod => Lost(spoilt, b) /\ Lost(spoilt, amod))
  <2>1. CASE view = "saved"
    BY <2>1 DEF Place
  <2>2. CASE view # "saved"
    <3>1. loaded \subseteq Builds /\ Apart(loaded)
      BY DEF ItemInv, VarTypes, ListsTell
    <3>2. b \in loaded /\ BaseOf[b] = Place
      BY <2>2, <3>1, BuildAtFacts DEF Place
    <3>3. Place \in RangeOf(b) /\ Place \in RangeOf(amod)
      BY <3>2, <1>2, RangeFacts DEF Place
    <3>4. Overlap(b, amod)
      BY <3>3 DEF Overlap
    <3>5. b # amod => amod \notin loaded
      BY <3>1, <3>2, BuildAtFacts DEF Place
    <3> QED BY <2>2, <3>2, <3>4, <3>5, <1>0 DEF ItemInv, TaskTells
  <2> QED BY <2>1, <2>2
<1> DEFINE new == atask # "private" /\ conn.rows[Place] = 0
           start == IF new THEN InsertModule(conn, Place, SizeOf[b]) ELSE conn
<1>5. /\ tx' = TRUE /\ disk' = disk /\ DiskFresh' = NoBuild
      /\ conn' = [start EXCEPT !.refs = @ \cup FirstPart(b, atask)]
  BY <1>4 DEF BeginTransaction, IsModuleExists, DiskFresh
<1>6. /\ start \in Tables /\ start.comments = conn.comments /\ start.meta = conn.meta
      /\ start.refs = conn.refs
      /\ start.rows = IF new THEN [conn.rows EXCEPT ![Place] = SizeOf[b]] ELSE conn.rows
  <2>1. CASE new
    <3>1. /\ conn.meta[Place] = NoInfo /\ SizeOf[b] \in Nat
          /\ start = InsertModule(conn, Place, SizeOf[b])
      BY <2>1, <1>2, <1>3, RangeFacts
    <3> HIDE DEF start
    <3> QED BY <2>1, <3>1, <1>2, <1>3, InsertModuleFields
  <2>2. CASE ~new
    BY <2>2, <1>3
  <2> QED BY <2>1, <2>2
<1> HIDE DEF start
<1>7. /\ FirstPart(b, atask) \subseteq References
      /\ \A r \in FirstPart(b, atask) : r.build = b /\ r.from \in RangeOf(b)
  BY WantedFacts
<1>8. /\ conn' \in Tables /\ conn'.comments = conn.comments /\ conn'.meta = conn.meta
      /\ conn'.rows = start.rows /\ conn'.refs = conn.refs \cup FirstPart(b, atask)
  <2>1. /\ conn' \in Tables /\ conn'.rows = start.rows /\ conn'.meta = start.meta
        /\ conn'.comments = start.comments /\ conn'.refs = start.refs \cup FirstPart(b, atask)
    BY <1>5, <1>6, <1>7, MoreFields
  <2> QED BY <2>1, <1>6
<1>9. /\ spoilt \subseteq spoilt' /\ spoilt' \subseteq Addrs
      /\ atask = "private" /\ conn.rows[Place] = 0 => Lost(spoilt', b)
  <2>1. RangeOf(b) \subseteq Addrs /\ spoilt \subseteq Addrs
    BY RangeFacts DEF ItemInv, VarTypes
  <2> QED BY <2>1, <1>4 DEF IsModuleExists, Lost
<1>10. /\ \A a \in Addrs \ {Place} : /\ start.rows[a] = conn.rows[a]
                                     /\ RowRange(start.rows, a) = RowRange(conn.rows, a)
       /\ conn.rows[Place] # 0 => start.rows[Place] = conn.rows[Place]
       /\ new => start.rows[Place] = SizeOf[b] /\ start.rows[Place] # 0
       /\ \A a \in Addrs : conn.rows[a] # 0 => start.rows[a] = conn.rows[a]
  <2>1. SizeOf[b] # 0
    BY RangeFacts
  <2>2. CASE new
    <3>1. start.rows = [conn.rows EXCEPT ![Place] = SizeOf[b]]
      BY <2>2, <1>6
    <3> QED BY <2>1, <2>2, <3>1, <1>2, <1>3, SameRow
  <2>3. CASE ~new
    BY <2>3, <1>6
  <2> QED BY <2>2, <2>3
<1>11. TableInv(spoilt, start, amod) /\ PlaceInv(spoilt, start, amod) /\ TableShape(start)
  <2>1. TableInv(spoilt, conn, amod)
    BY <1>3, TableFresh
  <2>2. CASE new
    <3>1. start.rows = [conn.rows EXCEPT ![BaseOf[b]] = SizeOf[b]] /\ conn.rows[BaseOf[b]] = 0
      BY <2>2, <1>4, <1>6
    <3>2. amod = b \/ Lost(spoilt, b)
      BY <1>4
    <3>3. ASSUME NEW c \in Addrs \ {BaseOf[b]}
          PROVE  RowRange(conn.rows, c) \cap RangeOf(b) \subseteq spoilt
      <4>1. CASE b # amod
        BY <4>1, <1>4 DEF Lost
      <4>2. CASE b = amod
        BY <3>3, <4>2, <1>2 DEF PlaceInv, PlaceFits, RowLost
      <4> QED BY <4>1, <4>2
    <3>4. TableInv(spoilt, start, amod)
      BY <2>1, <3>1, <3>2, <3>3, <1>6, TableInsert
    <3>5. TableShape(start)
      BY <3>4 DEF TableInv
    <3>6. PlaceInv(spoilt, start, amod)
      <4>1. BaseOf[b] = BaseOf[amod] /\ conn.rows[BaseOf[amod]] = 0
        BY <3>1, <1>4 DEF Place
      <4>2. start.rows = [conn.rows EXCEPT ![BaseOf[amod]] = SizeOf[b]]
        BY <3>1, <4>1
      <4>3. b = amod \/ (Lost(spoilt, b) /\ Lost(spoilt, amod))
        BY <1>4
      <4> QED BY <4>1, <4>2, <4>3, <3>5, <1>2, <1>3, <1>6, PlaceInsert
    <3> QED BY <3>4, <3>5, <3>6
  <2>3. CASE ~new
    BY <2>1, <2>3, <1>2, <1>3 DEF start
  <2> QED BY <2>2, <2>3
<1> HIDE DEF new
<1>12. Lost(spoilt', amod) \/ start.rows[Place] # 0
  <2>1. CASE new
    BY <2>1, <1>10
  <2>2. CASE conn.rows[Place] # 0
    BY <2>2, <1>10
  <2>3. CASE atask = "private" /\ conn.rows[Place] = 0
    BY <2>3, <1>4, <1>9 DEF Lost
  <2> QED BY <2>1, <2>2, <2>3 DEF new
<1>13. VarTypes'
  BY <1>5, <1>9 DEF ItemInv, VarTypes
<1>14. Mirror'
  BY <1>1, <1>5, <1>8, <1>10 DEF Mirror
<1>15. PlaceInv(spoilt', start, amod)
  BY <1>9, <1>11, PlaceGrows
<1>16. TablesTell'
  <2>1. TableInv(spoilt', start, amod)
    BY <1>9, <1>11, TableGrows
  <2>2. \/ Lost(spoilt', b)
        \/ /\ start.rows[BaseOf[b]] = SizeOf[b]
           /\ start.meta[BaseOf[b]] = NoInfo => amod = b
           /\ start.meta[BaseOf[b]] # NoInfo => start.meta[BaseOf[b]].build = b
    <3>1. CASE b # amod \/ Lost(spoilt', amod)
      BY <3>1, <1>4, <1>9 DEF Lost
    <3>2. CASE b = amod /\ ~Lost(spoilt', amod)
      <4>1. start.rows[BaseOf[amod]] # 0
        BY <3>2, <1>12 DEF Place
      <4>2. PlaceFits(spoilt', start, BaseOf[amod], amod)
        BY <4>1, <1>2, <1>11, <1>15, PlaceRow
      <4> QED BY <3>2, <4>2 DEF PlaceFits
    <3> QED BY <3>1, <3>2
  <2>3. conn'.rows = start.rows /\ conn'.meta = start.meta
        /\ conn'.refs = start.refs \cup FirstPart(b, atask)
    BY <1>6, <1>8
  <2>4. TableInv(spoilt', conn', amod)
    BY <2>1, <2>2, <2>3, <1>7, <1>8, TableAddRefs
  <2>5. TableInv(spoilt', disk, NoBuild) /\ DoneTells(spoilt', disk, {})
    BY <1>1, <1>3, <1>9, TableGrows, DoneGrows
  <2> QED BY <2>4, <2>5, <1>0, <1>5 DEF TablesTell
<1>17. ListsTell' /\ ReloadTells'
  BY <1>0 DEF ItemInv, ListsTell, ReloadTells, Apart
<1>18. TaskTells'
  <2>1. \A c : Lost(spoilt, c) => Lost(spoilt', c)
    BY <1>9 DEF Lost
  <2> QED BY <2>1, <1>0, <1>4 DEF ItemInv, TaskTells
<1>19. InfoTells'
  BY <1>0 DEF InfoTells
<1>20. PlaceInv(spoilt', conn', amod)
  BY <1>6, <1>8, <1>15 DEF PlaceInv, PlaceFits
<1>21. PlaceTells'
  BY <1>0, <1>8, <1>12, <1>20 DEF PlaceTells
<1>22. Lost(spoilt', amod) /\ conn'.rows[Place] # 0 => RowLost(spoilt', conn'.rows, Place)
  <2>1. TableShape(conn')
    BY <1>16 DEF TablesTell, TableInv
  <2> QED BY <2>1, <1>2, <1>20, PlaceRow DEF Place
<1>23. ReadTells'
  <2> SUFFICES ASSUME NEW a \in Addrs, urows[a] # 0, conn'.rows[a] # 0
               PROVE  \/ urows[a] = conn'.rows[a] \/ RowLost(spoilt', conn'.rows, a)
                      \/ \E c \in listed : BaseOf[c] = a
    BY DEF ReadTells
  <2>1. CASE a = Place
    <3>1. amod \in listed \/ Lost(spoilt', amod)
      BY <1>2, <1>9 DEF Lost
    <3> QED BY <2>1, <3>1, <1>22 DEF Place
  <2>2. CASE a # Place
    BY <2>2, <1>8, <1>9, <1>10 DEF ItemInv, ReadTells, RowLost
  <2> QED BY <2>1, <2>2
<1>24. DropTells'
  <2>1. Place \in udrop => Lost(spoilt', amod)
    BY <1>2, <1>9 DEF Lost
  <2>2. ASSUME NEW a \in udrop, urows[a] # 0, conn'.rows[a] # 0
        PROVE  RowLost(spoilt', conn'.rows, a) \/ Replaced(conn.rows, a)'
    <3>1. CASE a = Place
      BY <2>1, <2>2, <3>1, <1>22
    <3>2. CASE a # Place
      <4>1. a \in Addrs
        BY DEF ItemInv, VarTypes
      <4>2. conn'.rows[a] = conn.rows[a] /\ RowRange(conn'.rows, a) = RowRange(conn.rows, a)
        BY <3>2, <4>1, <1>8, <1>10
      <4>3. Replaced(conn.rows, a)' <=> Replaced(conn.rows, a)
        BY <4>2, <1>8 DEF Replaced, Over, RowIsSame
      <4> QED BY <2>2, <4>2, <4>3, <1>9 DEF ItemInv, DropTells, RowLost
    <3> QED BY <3>1, <3>2
  <2>3. \A a \in udrop : urows[a] = 0 => conn'.meta[a] = NoInfo \/ a \in spoilt'
    BY <1>8, <1>9 DEF ItemInv, DropTells
  <2> QED BY <2>1, <2>2, <2>3, <1>0 DEF DropTells
<1>25. RestoreTells' /\ MemoryTells'
  BY <1>0, <1>8, <1>9, RestoreFrame, MemoryMoves DEF ItemInv
<1> QED BY <1>13, <1>14, <1>16, <1>17, <1>18, <1>19, <1>21, <1>23, <1>24, <1>25 DEF ItemInv

\* The description of the module is written, if its row is still there.
LEMMA SaveFlagsKeeps ==
  ASSUME ItemInv, SaveFlags
  PROVE  ItemInv'
<1> USE DEF SaveFlags, procVars, itemVars, uiVars
<1>0. /\ Busy /\ HasInfo /\ ~HasInfo' /\ ~HasBuild' /\ ~Clearing'
      /\ Exempt' = {} /\ Fresh' = NoBuild
      /\ Exempt \subseteq {Place} /\ Fresh \in {NoBuild, amod}
      /\ apc = "info0" => apc' = "begin" /\ UNCHANGED <<amod, abuild, ainfo>>
      /\ apc = "info" => apc' = "idle" /\ amod' = NoBuild /\ abuild' = NoBuild /\ ainfo' = NoInfo
  BY DEF Idle, Busy, HasInfo, HasBuild, Clearing, Exempt, Fresh
<1>1. ~tx /\ tx = FALSE /\ conn = disk /\ DiskFresh = Fresh
  BY NoSave
<1>2. /\ amod \in Builds /\ Place \in Addrs /\ PlaceInv(spoilt, conn, amod)
      /\ ~Lost(spoilt, amod) => amod \in listed
      /\ Lost(spoilt, amod) => Place \in spoilt
      /\ Place \in udrop => Lost(spoilt, amod)
  BY <1>0, TaskFacts
<1>3. /\ ainfo \in Infos /\ ainfo # NoInfo
      /\ ainfo.build # NoBuild => ainfo.build \in Builds /\ BaseOf[ainfo.build] = Place
      /\ ~Lost(spoilt, amod) => ainfo.build = amod /\ ainfo.ident = amod
      /\ apc = "info0" => "analyzeDone" \notin ainfo.flags
  <2>1. ainfo \in Infos /\ ainfo.build \in Builds \cup {NoBuild}
    BY <1>0 DEF ItemInv, InfoTells, Infos
  <2> QED BY <2>1, <1>0, ItemAssumption DEF ItemInv, InfoTells
<1>4. /\ conn \in Tables /\ TableShape(conn) /\ conn.meta \in [Addrs -> Infos \cup {NoInfo}]
      /\ TableInv(spoilt, conn, Fresh) /\ DoneTells(spoilt, conn, Exempt)
      /\ \A a \in Addrs : conn.rows[a] = 0 => conn.meta[a] = NoInfo
  BY <1>1, ConnFacts DEF ItemInv, TablesTell
<1>5. /\ Place \in spoilt \/ conn.rows[Place] # 0
      /\ Fresh = amod => Lost(spoilt, amod) \/ conn.rows[Place] # 0
  <2>1. CASE apc = "info0"
    <3>1. Clearing /\ Fresh = NoBuild /\ amod # NoBuild
      BY <2>1, <1>2, RangeFacts DEF Clearing, Fresh, HasBuild
    <3> QED BY <3>1 DEF ItemInv, PlaceTells
  <2>2. CASE apc = "info"
    <3>1. HasBuild
      BY <2>2 DEF HasBuild
    <3> QED BY <3>1, <1>2 DEF ItemInv, PlaceTells
  <2> QED BY <2>1, <2>2
<1> DEFINE written == ainfo.build # NoBuild /\ conn.rows[Place] # 0
<1>6. /\ tx' = tx /\ disk' = conn' /\ conn' \in Tables /\ conn'.comments = conn.comments
      /\ conn'.rows = conn.rows /\ conn'.refs = conn.refs
      /\ conn'.meta = IF written THEN [conn.meta EXCEPT ![Place] = ainfo] ELSE conn.meta
      /\ ~written => conn' = conn
  <2>1. CASE ainfo.build = NoBuild
    BY <2>1, <1>1, <1>4 DEF dbVars
  <2>2. CASE ainfo.build # NoBuild
    <3>1. tx' = tx /\ disk' = conn' /\ conn' = InsertMetaInfo(conn, Place, ainfo)
      BY <2>2, <1>1 DEF Execute, Place
    <3>2. /\ conn' \in Tables /\ conn'.comments = conn.comments /\ conn'.rows = conn.rows
          /\ conn'.refs = conn.refs
          /\ conn.rows[Place] # 0 => conn'.meta = [conn.meta EXCEPT ![Place] = ainfo]
          /\ conn.rows[Place] = 0 => conn'.meta = conn.meta /\ conn' = conn
      BY <3>1, <1>2, <1>3, <1>4, InsertMetaInfoFields
    <3> QED BY <2>2, <3>1, <3>2
  <2> QED BY <2>1, <2>2
<1>7. /\ \A a \in Addrs \ {Place} : conn'.meta[a] = conn.meta[a]
      /\ Place \notin spoilt => written /\ conn'.meta[Place] = ainfo
      /\ Fresh = amod /\ ~Lost(spoilt, amod) => conn'.meta[Place] = ainfo
      /\ written => conn'.meta[Place] = ainfo
      /\ conn'.meta[Place] = ainfo \/ conn'.meta[Place] = conn.meta[Place]
  <2>1. /\ Place \notin spoilt => written
        /\ Fresh = amod /\ ~Lost(spoilt, amod) => written
    BY <1>2, <1>3, <1>5, RangeFacts
  <2>2. written => conn'.meta = [conn.meta EXCEPT ![Place] = ainfo]
    BY <1>6
  <2>3. ~written => conn'.meta = conn.meta
    BY <1>6
  <2> HIDE DEF written
  <2> QED BY <2>1, <2>2, <2>3, <1>2, <1>4
<1>8. written => /\ PlaceFits(spoilt, conn, Place, amod)
                 /\ Lost(spoilt, amod) => RowLost(spoilt, conn.rows, Place)
  BY <1>2, <1>4, PlaceRow DEF Place
<1>9. TableInv(spoilt, conn', Fresh)
  <2>1. CASE written
    <3>1. conn'.meta = [conn.meta EXCEPT ![Place] = ainfo] /\ conn.rows[Place] # 0
      BY <2>1, <1>6
    <3>2. ainfo.build \in Builds /\ BaseOf[ainfo.build] = Place
      BY <2>1, <1>3
    <3>3. \/ RowLost(spoilt, conn.rows, Place)
          \/ /\ conn.rows[Place] = SizeOf[ainfo.build] /\ ainfo.ident = ainfo.build
             /\ conn.meta[Place] = NoInfo => Fresh \in {NoBuild, ainfo.build}
             /\ conn.meta[Place] # NoInfo => conn.meta[Place].build = ainfo.build
      <4>1. CASE Lost(spoilt, amod)
        BY <2>1, <4>1, <1>8
      <4>2. CASE ~Lost(spoilt, amod)
        BY <2>1, <4>2, <1>0, <1>3, <1>8 DEF PlaceFits
      <4> QED BY <4>1, <4>2
    <3> HIDE DEF written
    <3> QED BY <3>1, <3>2, <3>3, <1>2, <1>3, <1>4, <1>6, TableMeta
  <2>2. CASE ~written
    BY <2>2, <1>4, <1>6
  <2> QED BY <2>1, <2>2
<1> HIDE DEF written
<1>10. TableInv(spoilt, conn', NoBuild)
  <2>1. CASE Fresh = NoBuild
    BY <2>1, <1>9
  <2>2. CASE Fresh = amod
    <3>1. conn'.meta[BaseOf[amod]] # NoInfo \/ Lost(spoilt, amod)
      BY <2>2, <1>3, <1>7 DEF Place
    <3> QED BY <2>2, <3>1, <1>2, <1>9, TableSettles
  <2> QED BY <2>1, <2>2, <1>0
<1>11. DoneTells(spoilt, conn', {})
  <2>1. CASE written
    <3>1. conn'.meta = [conn.meta EXCEPT ![Place] = ainfo]
      BY <2>1, <1>6
    <3>2. ASSUME "analyzeDone" \in ainfo.flags, RangeOf(ainfo.build) \cap spoilt = {}
          PROVE  ainfo.ident = ainfo.build /\ Found(ainfo.build, "code") \subseteq conn.refs
      <4>1. ainfo.build \in Builds /\ BaseOf[ainfo.build] = Place
        BY <2>1, <1>3 DEF written
      <4>2. ~Lost(spoilt, amod)
        BY <3>2, <4>1, <1>2, LostFacts
      <4>3. apc = "info" /\ ainfo.build = amod /\ ainfo.ident = amod /\ Clean(amod)
        BY <3>2, <4>2, <1>3 DEF Clean
      <4> QED BY <4>3 DEF ItemInv, PlaceTells
    <3>3. Exempt \subseteq {} \cup {Place}
      BY <1>0
    <3> QED BY <3>1, <3>2, <3>3, <1>2, <1>4, <1>6, DoneMeta
  <2>2. CASE ~written
    <3>1. Place \in spoilt
      BY <2>2, <1>2, <1>7
    <3>2. Exempt \subseteq spoilt
      BY <3>1, <1>0
    <3>3. DoneTells(spoilt, conn, {})
      BY <3>2, <1>4, DoneLost
    <3> QED BY <2>2, <3>3, <1>6
  <2> QED BY <2>1, <2>2
<1>12. VarTypes'
  BY <1>0, <1>1, <1>6 DEF ItemInv, VarTypes
<1>13. Mirror'
  BY <1>6 DEF Mirror
<1>14. TablesTell'
  <2>1. DiskFresh' = NoBuild
    BY <1>0 DEF DiskFresh
  <2> QED BY <2>1, <1>0, <1>6, <1>10, <1>11 DEF TablesTell
<1>15. opened
  BY <1>0 DEF ItemInv, ListsTell
<1>16. ListsTell' /\ ReloadTells'
  BY <1>15 DEF ItemInv, ListsTell, ReloadTells, Apart
<1>17. InfoTells'
  BY <1>0 DEF InfoTells
<1>18. TaskTells' /\ PlaceTells'
  <2>1. CASE apc = "info"
    BY <2>1, <1>0, TaskEnds
  <2>2. CASE apc = "info0"
    <3>1. apc' = "begin" /\ amod' = amod /\ abuild' = abuild /\ Busy' /\ ~HasBuild
      BY <2>2, <1>0 DEF Busy, HasBuild
    <3>2. PlaceInv(spoilt, conn', amod)
      <4>1. CASE written
        <5>1. conn'.meta = [conn.meta EXCEPT ![BaseOf[amod]] = ainfo] /\ conn.rows[BaseOf[amod]] # 0
          BY <4>1, <1>6 DEF written, Place
        <5>2. Lost(spoilt, amod) \/ (ainfo.build = amod /\ ainfo.ident = amod)
          BY <1>3
        <5> QED BY <5>1, <5>2, <1>2, <1>4, <1>6, PlaceMeta
      <4>2. CASE ~written
        BY <4>2, <1>2, <1>6
      <4> QED BY <4>1, <4>2
    <3>3. PlaceTells'
      BY <3>1, <3>2, <1>0 DEF PlaceTells
    <3>4. TaskTells'
      BY <3>1, <1>0 DEF ItemInv, TaskTells
    <3> QED BY <3>3, <3>4
  <2> QED BY <2>1, <2>2
<1>19. ReadTells'
  BY <1>6, ReadFrame DEF ItemInv
<1>20. DropTells'
  <2>1. Busy' /\ Place' \in udrop => Lost(spoilt, amod')
    <3>1. CASE apc = "info"
      BY <3>1, <1>0 DEF Busy
    <3>2. CASE apc = "info0"
      BY <3>2, <1>0, <1>2 DEF Place
    <3> QED BY <3>1, <3>2
  <2>2. ASSUME NEW a \in udrop, urows[a] # 0, conn'.rows[a] # 0
        PROVE  RowLost(spoilt, conn'.rows, a) \/ Replaced(conn.rows, a)'
    <3>1. CASE a = Place
      <4>1. Lost(spoilt, amod) /\ conn.rows[Place] # 0
        BY <2>2, <3>1, <1>2, <1>6
      <4>2. RowLost(spoilt, conn.rows, Place)
        BY <4>1, <1>2, <1>4, PlaceRow DEF Place
      <4> QED BY <3>1, <4>2, <1>6
    <3>2. CASE a # Place
      <4>1. a \in Addrs
        BY DEF ItemInv, VarTypes
      <4>2. conn'.meta[a] = conn.meta[a]
        BY <3>2, <4>1, <1>7
      <4>3. Replaced(conn.rows, a)' <=> Replaced(conn.rows, a)
        BY <4>2, <1>6 DEF Replaced, Over, RowIsSame
      <4> QED BY <2>2, <4>3, <1>6 DEF ItemInv, DropTells
    <3> QED BY <3>1, <3>2
  <2>3. ASSUME NEW a \in udrop, urows[a] = 0 PROVE conn'.meta[a] = NoInfo \/ a \in spoilt
    <3>1. a \in Addrs
      BY DEF ItemInv, VarTypes
    <3> QED BY <2>3, <3>1, <1>2, <1>7 DEF ItemInv, DropTells
  <2> QED BY <2>1, <2>2, <2>3 DEF DropTells
<1>21. RestoreTells'
  <2> SUFFICES ASSUME NEW a \in Addrs, urestore[a] # {}
               PROVE  /\ a \notin udrop /\ conn'.meta[a] # NoInfo
                      /\ a \in spoilt \/ conn'.meta[a].ident \in listed
    BY DEF RestoreTells
  <2>1. /\ a \notin udrop /\ conn.meta[a] # NoInfo
        /\ a \in spoilt \/ conn.meta[a].ident \in listed
    BY DEF ItemInv, RestoreTells
  <2>2. CASE a = Place
    BY <2>1, <2>2, <1>2, <1>3, <1>7
  <2>3. CASE a # Place
    BY <2>1, <2>3, <1>7
  <2> QED BY <2>2, <2>3
<1>22. MemoryTells'
  <2> SUFFICES ASSUME NEW a \in Addrs, a \notin spoilt
               PROVE  FlagsTell(a)'
    BY DEF MemoryTells
  <2>1. FlagsTell(a) /\ Kept(a)' = Kept(a) /\ ~Unsaved(a)' /\ (Settled(a)' <=> Settled(a))
    BY <1>0 DEF ItemInv, MemoryTells, Kept, Unsaved, Settled
  <2>2. CASE a = Place
    <3>1. /\ amod \in listed /\ conn'.meta[a] = ainfo /\ ainfo.ident = amod /\ Unsaved(a)
          /\ BaseOf[amod] = a
      BY <2>2, <1>0, <1>2, <1>3, <1>7 DEF Unsaved, Place
    <3>2. Kept(a) = ainfo.flags
      BY <2>1, <3>1 DEF FlagsTell
    <3>3. \A b \in listed : BaseOf[b] = a => b = amod
      <4>1. listed \subseteq Builds /\ Apart(listed)
        BY DEF ItemInv, VarTypes, ListsTell
      <4> QED BY <4>1, <3>1, BuildAtFacts
    <3> QED BY <2>1, <3>1, <3>2, <3>3, <1>3 DEF FlagsTell, Known, Recorded
  <2>3. CASE a # Place
    <3>1. conn'.meta[a] = conn.meta[a] /\ ~Unsaved(a)
      BY <2>3, <1>7 DEF Unsaved
    <3> QED BY <2>1, <3>1 DEF FlagsTell, Known, Recorded
  <2> QED BY <2>2, <2>3
<1> QED BY <1>12, <1>13, <1>14, <1>16, <1>17, <1>18, <1>19, <1>20, <1>21, <1>22 DEF ItemInv

------------------------------------------------------------------------------
(* Orthia ends.                                                              *)

\* What is in memory goes; what is left on the disk is as good as before.
LEMMA ForgetKeeps ==
  ASSUME ItemInv, Forget, conn' = disk', tx' = FALSE, spoilt' \subseteq Addrs,
         TableInv(spoilt', disk', NoBuild), DoneTells(spoilt', disk', {})
  PROVE  ItemInv'
<1> USE DEF Forget, Idle, procVars
<1>1. /\ ~Busy' /\ ~HasInfo' /\ Fresh' = NoBuild /\ Exempt' = {} /\ DiskFresh' = NoBuild
      /\ TaskTells' /\ InfoTells' /\ PlaceTells'
  BY TaskEnds
<1>2. VarTypes'
  <2>1. urows' \in [Addrs -> Nat] /\ flags' \in [Addrs -> SUBSET Flags]
        /\ urestore' \in [Addrs -> SUBSET SavedFlags]
    BY DEF EmptyDb
  <2>2. "analyze" \in Tasks
    BY DEF Tasks
  <2> QED BY <2>1, <2>2 DEF ItemInv, VarTypes
<1>3. Mirror'
  BY DEF Mirror
<1>4. TablesTell'
  BY <1>1 DEF TablesTell
<1>5. ListsTell'
  BY <1>1 DEF ItemInv, ListsTell, Apart
<1>6. udrop' = {} /\ \A a \in Addrs : urows'[a] = 0 /\ urestore'[a] = {}
  BY DEF EmptyDb
<1>7. ReloadTells' /\ ReadTells' /\ DropTells' /\ RestoreTells'
  BY <1>6 DEF ReloadTells, ReadTells, DropTells, RestoreTells
<1>8. MemoryTells'
  BY <1>1 DEF MemoryTells, FlagsTell, Kept, Unsaved
<1> QED BY <1>1, <1>2, <1>3, <1>4, <1>5, <1>7, <1>8 DEF ItemInv

\* A task cut between two of its statements left a window at its module; the
\* others left the disk as it has to be.
LEMMA HalfDoneFacts ==
  ASSUME ItemInv, NEW S, spoilt \subseteq S, HalfDone \subseteq S
  PROVE  HalfDone \subseteq Addrs /\ TableInv(S, disk, NoBuild) /\ DoneTells(S, disk, {})
<1>1. Between => Busy
  BY DEF Between, Busy
<1>2. HalfDone \subseteq Addrs
  BY <1>1, TaskFacts, RangeFacts DEF HalfDone
<1>3. TableInv(S, disk, DiskFresh) /\ DoneTells(S, disk, Exempt) /\ TableShape(disk)
  BY TableGrows, DoneGrows DEF ItemInv, TablesTell, TableInv
<1>4. TableInv(S, disk, NoBuild)
  <2>1. CASE DiskFresh = NoBuild
    BY <2>1, <1>3
  <2>2. CASE DiskFresh # NoBuild
    <3>1. ~tx /\ DiskFresh = amod /\ apc \in {"flag", "ident", "info"}
      BY <2>2 DEF DiskFresh, Fresh, HasBuild, ItemInv, VarTypes
    <3>2. conn = disk /\ amod \in Builds
      BY <3>1, TaskFacts DEF ItemInv, Mirror, Busy
    <3>3. disk.meta[BaseOf[amod]] # NoInfo \/ Lost(S, amod)
      BY <3>1, <3>2 DEF Between, HalfDone, Lost
    <3> QED BY <3>1, <3>2, <3>3, <1>3, TableSettles
  <2> QED BY <2>1, <2>2
<1>5. Exempt \subseteq S
  <2>1. CASE Exempt = {}
    BY <2>1
  <2>2. CASE Exempt # {}
    <3>1. Exempt = {Place} /\ Between
      BY <2>2 DEF Exempt, Between
    <3>2. Place \in RangeOf(amod)
      BY <3>1, <1>1, TaskFacts
    <3> QED BY <3>1, <3>2 DEF HalfDone
  <2> QED BY <2>1, <2>2
<1> QED BY <1>2, <1>3, <1>4, <1>5, DoneLost

\* Orthia ends.
LEMMA EndKeeps ==
  ASSUME ItemInv, End
  PROVE  ItemInv'
<1> USE DEF End, Reconnect
<1>1. spoilt \subseteq spoilt' /\ HalfDone \subseteq spoilt'
  OBVIOUS
<1>2. HalfDone \subseteq Addrs /\ TableInv(spoilt', disk, NoBuild) /\ DoneTells(spoilt', disk, {})
  BY <1>1, HalfDoneFacts
<1>3. spoilt' \subseteq Addrs /\ conn' = disk' /\ disk' = disk /\ tx' = FALSE
  BY <1>2 DEF ItemInv, VarTypes
<1> QED BY <1>2, <1>3, ForgetKeeps

\* Orthia ends between the two statements of UnloadModule.
LEMMA EndInUnloadKeeps ==
  ASSUME ItemInv, EndInUnload
  PROVE  ItemInv'
<1> USE DEF EndInUnload
<1> DEFINE n == NextDrop
           S == spoilt'
<1>1. n \in Addrs /\ conn.rows[n] # 0
  BY NextDropFacts DEF ItemInv, IsModuleExists
<1>2. /\ conn \in Tables /\ conn = disk /\ conn.rows \in [Addrs -> Nat]
      /\ RowRange(conn.rows, n) \subseteq Addrs
  BY <1>1, ConnFacts, NoSave DEF ItemInv, Saving
<1>3. spoilt \subseteq S /\ HalfDone \subseteq S /\ RowRange(conn.rows, n) \subseteq S
  OBVIOUS
<1>4. conn' = DeleteRefs(conn, n) /\ disk' = conn' /\ tx' = FALSE
      /\ S = spoilt \cup RowRange(conn.rows, n) \cup HalfDone
  OBVIOUS
<1> HIDE DEF n, S
<1>5. HalfDone \subseteq Addrs /\ TableInv(S, conn, NoBuild) /\ DoneTells(S, conn, {})
  BY <1>2, <1>3, HalfDoneFacts
<1>6. /\ conn' \in Tables /\ conn'.rows = conn.rows /\ conn'.meta = conn.meta
      /\ conn'.refs = conn.refs \ {r \in conn.refs : r.from \in RowRange(conn.rows, n)}
  BY <1>1, <1>2, <1>4, DeleteRefsFields
<1>7. TableInv(S, conn', NoBuild) /\ TableShape(conn')
  BY <1>5, <1>6, TableLess DEF TableInv
<1>8. DoneTells(S, conn', {})
  <2>1. DoneTells(S, conn, {n})
    BY <1>5, DoneGrows
  <2>2. DoneTells(S, conn', {n})
    <3>1. \A c \in Addrs \ {n} : conn'.meta[c] = conn.meta[c]
      BY <1>6
    <3>2. conn'.refs = conn.refs \ {r \in conn.refs : r.from \in RowRange(conn.rows, n)}
      BY <1>6
    <3> QED BY <3>1, <3>2, <2>1, <1>1, <1>5, DoneDelete
  <2>3. {n} \subseteq S
    BY <1>1, <1>2, <1>3, RowFacts
  <2> QED BY <2>2, <2>3, <1>7, DoneLost
<1>9. spoilt' \subseteq Addrs
  BY <1>2, <1>4, <1>5 DEF ItemInv, VarTypes, S
<1> QED BY <1>4, <1>7, <1>8, <1>9, ForgetKeeps DEF S

------------------------------------------------------------------------------
(* The invariant.                                                            *)

\* A new database, and nothing open.
LEMMA InitHolds ==
  ASSUME ItemInit
  PROVE  ItemInv
<1> USE DEF ItemInit
<1>1. /\ conn = EmptyDb /\ disk = EmptyDb /\ tx = FALSE
      /\ EmptyDb.refs = {} /\ EmptyDb.comments = {} /\ EmptyDb \in Tables
      /\ \A a \in Addrs : EmptyDb.rows[a] = 0 /\ EmptyDb.meta[a] = NoInfo
  BY DEF DbInit, EmptyDb, Tables
<1>2. ~Busy /\ ~HasInfo /\ ~HasBuild /\ ~Clearing /\ Exempt = {} /\ Fresh = NoBuild
  BY DEF Busy, HasInfo, HasBuild, Clearing, Exempt, Fresh
<1>3. VarTypes
  <2>1. loaded \subseteq Builds
    BY ItemAssumption
  <2>2. urows \in [Addrs -> Nat] /\ flags \in [Addrs -> SUBSET Flags]
        /\ urestore \in [Addrs -> SUBSET SavedFlags] /\ "analyze" \in Tasks
    BY DEF EmptyDb, Tasks
  <2> QED BY <2>1, <2>2, <1>1 DEF VarTypes
<1>4. Mirror
  BY <1>1 DEF Mirror
<1>5. TablesTell
  <2>1. EmptyDb.rows \in [Addrs -> Nat]
    BY <1>1, TableTypes
  <2>2. \A a \in Addrs : RowRange(EmptyDb.rows, a) = {}
    BY <2>1, <1>1, RowFacts
  <2>3. TableShape(EmptyDb)
    BY <1>1 DEF TableShape
  <2>4. TableInv(spoilt, EmptyDb, NoBuild)
    BY <2>2, <2>3, <1>1 DEF TableInv, RowTells, RowLost, RowsApart
  <2>5. DoneTells(spoilt, EmptyDb, {})
    BY <1>1 DEF DoneTells
  <2> QED BY <2>4, <2>5, <1>1, <1>2 DEF TablesTell, DiskFresh
<1>6. ListsTell
  <2>1. Apart(loaded)
    BY DEF Apart, Overlap
  <2>2. Apart({})
    BY DEF Apart
  <2> QED BY <2>1, <2>2, <1>2 DEF ListsTell
<1>7. udrop = {} /\ \A a \in Addrs : urows[a] = 0 /\ urestore[a] = {}
  BY <1>1
<1>8. ReloadTells /\ ReadTells /\ DropTells /\ RestoreTells
  BY <1>7 DEF ReloadTells, ReadTells, DropTells, RestoreTells
<1>9. TaskTells /\ InfoTells /\ PlaceTells
  BY <1>2 DEF TaskTells, InfoTells, PlaceTells
<1>10. MemoryTells
  BY <1>2 DEF MemoryTells, FlagsTell, Kept, Unsaved
<1> QED BY <1>3, <1>4, <1>5, <1>6, <1>8, <1>9, <1>10 DEF ItemInv

\* Every step keeps the invariant.
LEMMA NextKeeps ==
  ASSUME ItemInv, [ItemNext]_piVars
  PROVE  ItemInv'
<1>1. CASE UNCHANGED piVars
  <2> USE <1>1 DEF piVars, dbVars, procVars, itemVars, uiVars, anVars
  <2>1. VarTypes' /\ ListsTell' /\ ReloadTells'
    BY DEF ItemInv, VarTypes, ListsTell, ReloadTells, Apart, Busy
  <2>2. TaskTells'
    BY TaskFrame DEF ItemInv
  <2>3. Mirror' /\ TablesTell' /\ InfoTells' /\ PlaceTells'
    BY QuietFrame
  <2>4. ReadTells' /\ DropTells' /\ RestoreTells'
    BY ReadFrame, DropFrame, RestoreFrame, SameTask DEF ItemInv
  <2>5. MemoryTells'
    BY MemoryFrame DEF ItemInv
  <2> QED BY <2>1, <2>2, <2>3, <2>4, <2>5 DEF ItemInv
<1>2. ASSUME NEW b \in Builds, OsLoad(b) \/ OsUnload(b) \/ LoadSymbols(b) \/ BeginSave(b)
      PROVE  ItemInv'
  BY <1>2, OsLoadKeeps, OsUnloadKeeps, LoadSymbolsKeeps, BeginSaveKeeps
<1>3. ASSUME NEW v \in {"live", "saved"}, Open(v) PROVE ItemInv'
  BY <1>3, OpenKeeps
<1>4. ASSUME NEW c \in Comments, WriteComment(c) PROVE ItemInv'
  BY <1>4, WriteCommentKeeps
<1>5. ASSUME NEW task \in Tasks \ {"symbols"}, NEW b \in Builds, StartTask(task, b) PROVE ItemInv'
  BY <1>5, StartTaskKeeps
<1>6. CASE OsExit \/ ReloadModules \/ ApplyList \/ SaveModuleList \/ QueryRows \/ QueryMeta
  BY <1>6, OsExitKeeps, ReloadModulesKeeps, ApplyListKeeps, SaveModuleListKeeps, QueryRowsKeeps,
     QueryMetaKeeps
<1>7. CASE UnloadModule \/ RestoreFlags \/ ClearReferences \/ ClearFlag \/ CommitSave
  BY <1>7, UnloadModuleKeeps, RestoreFlagsKeeps, ClearReferencesKeeps, ClearFlagKeeps,
     CommitSaveKeeps
<1>8. CASE FailAnalysis \/ FailSave \/ SetDone \/ QueryIdentity \/ SaveFlags \/ End \/ EndInUnload
  BY <1>8, FailAnalysisKeeps, FailSaveKeeps, SetDoneKeeps, QueryIdentityKeeps, SaveFlagsKeeps,
     EndKeeps, EndInUnloadKeeps
<1> QED BY <1>1, <1>2, <1>3, <1>4, <1>5, <1>6, <1>7, <1>8 DEF ItemNext

\* The tables, the lists, the task of the analyzer and what the UI thread has read
\* agree with each other, wherever no window was met.
THEOREM ItemInvariant == ItemSpec => []ItemInv
<1>1. ItemInit => ItemInv
  BY InitHolds
<1>2. ItemInv /\ [ItemNext]_piVars => ItemInv'
  BY NextKeeps
<1> QED BY <1>1, <1>2, PTL DEF ItemSpec

\* Every variable keeps its type, a description in tbl_metainfo has its row of
\* tbl_modules, and a transaction is open exactly while the analyzer saves.
THEOREM ItemTypes == ItemSpec => []ItemTypeOK
<1>1. ASSUME NEW t, TableShape(t) PROVE TablesOK(t)
  BY <1>1, TableTypes DEF TableShape, TablesOK
<1>2. ItemInv => ItemTypeOK
  <2> SUFFICES ASSUME ItemInv PROVE ItemTypeOK
    OBVIOUS
  <2>1. TablesOK(conn) /\ TablesOK(disk)
    BY <1>1, ConnFacts DEF ItemInv
  <2>2. \A a \in Addrs : conn.rows[a] = 0 => conn.meta[a] = NoInfo
    BY ConnFacts DEF ItemInv
  <2> QED BY <2>1, <2>2 DEF ItemInv, VarTypes, ItemTypeOK
<1> QED BY <1>2, ItemInvariant, PTL

\* A reopen restores only flags that are true: the references of what the disk calls
\* analyzed are all there (the analysis, COMMIT, the flag: in this order).
THEOREM DiskTellsTrue == ItemSpec => []DiskTells
<1>1. ItemInv => DiskTells
  <2> SUFFICES ASSUME ItemInv PROVE DiskTells
    OBVIOUS
  <2>1. DoneTells(spoilt, disk, Exempt)
    BY DEF ItemInv, TablesTell
  <2> QED BY <2>1 DEF DoneTells, DiskTells, Exempt, Clean, Place
<1> QED BY <1>1, ItemInvariant, PTL

\* When nothing is under way, the flags shown are those of the record, and what is
\* shown as analyzed has its references and no others (SyncDatabaseModules).
THEOREM ItemTellsTrue == ItemSpec => []ItemTells
<1>1. ItemInv => ItemTells
  <2> SUFFICES ASSUME ItemInv, Quiet, NEW b \in listed, Clean(b)
               PROVE  /\ "analyzeDone" \in flags[BaseOf[b]] =>
                           /\ Found(b, "code") \subseteq conn.refs
                           /\ \A r \in conn.refs : r.from \in RangeOf(b) => r.build = b
                      /\ Kept(BaseOf[b]) = Recorded(BaseOf[b], b)
    BY DEF ItemTells, AnalyzedIsOwn, FlagsFollow, Kept, Recorded
  <2> DEFINE a == BaseOf[b]
  <2>1. b \in Builds /\ a \in Addrs /\ a \notin spoilt
    BY RangeFacts, LostFacts DEF ItemInv, VarTypes, Clean
  <2>2. apc = "idle" /\ upc = "idle" /\ udrop = {} /\ ~Unsaved(a) /\ Settled(a)
    BY DEF ItemInv, ReloadTells, Quiet, Busy, Unsaved, HasInfo, Settled
  <2>3. Kept(a) = Recorded(a, b)
    BY <2>1, <2>2 DEF ItemInv, MemoryTells, FlagsTell
  <2>4. TableInv(spoilt, conn, Fresh) /\ DoneTells(spoilt, conn, {})
    BY <2>2, NoSave DEF ItemInv, TablesTell, Exempt
  <2> HIDE DEF a
  <2>5. ASSUME "analyzeDone" \in flags[a]
        PROVE  /\ Found(b, "code") \subseteq conn.refs
               /\ \A r \in conn.refs : r.from \in RangeOf(b) => r.build = b
    <3>1. "analyzeDone" \in Recorded(a, b)
      BY <2>3, <2>5 DEF Kept, SavedFlags
    <3>2. conn.meta[a] # NoInfo /\ conn.meta[a].ident = b /\ "analyzeDone" \in conn.meta[a].flags
      BY <3>1 DEF Recorded
    <3>3. conn.meta[a].build = b /\ RowRange(conn.rows, a) = RangeOf(b)
      BY <3>2, <2>1, <2>4, CleanRow
    <3>4. Found(b, "code") \subseteq conn.refs
      BY <3>2, <3>3, <2>1, <2>4 DEF DoneTells, Clean
    <3>5. ASSUME NEW r \in conn.refs, r.from \in RangeOf(b) PROVE r.build = b
      <4>1. r.from \notin spoilt
        BY <3>5 DEF Clean
      <4>2. BaseOf[r.build] = a
        BY <3>3, <3>5, <4>1, <2>1, <2>4, OneRow
      <4>3. RefTells(spoilt, conn, r, Fresh)
        BY <2>4 DEF TableInv
      <4> QED BY <3>2, <3>3, <4>1, <4>2, <4>3 DEF RefTells
    <3> QED BY <3>4, <3>5
  <2> QED BY <2>3, <2>5 DEF a
<1> QED BY <1>1, ItemInvariant, PTL

------------------------------------------------------------------------------
(* What a step may take away.                                                *)

\* A row that is dropped has another module at its place, and so have the
\* references made from it.
LEMMA DropIsReplaced ==
  ASSUME ItemInv, upc = "drop", Pending # {}, conn.rows[NextDrop] # 0, NEW r \in conn.refs,
         r.from \in RowRange(conn.rows, NextDrop), r.from \notin spoilt
  PROVE  view = "live" /\ \E b \in listed : b # r.build /\ Overlap(b, r.build)
<1> DEFINE n == NextDrop
<1>0. n \in Addrs /\ n \in udrop /\ urows[n] # 0
  BY NextDropFacts DEF ItemInv
<1> HIDE DEF n
<1>1. view = "live"
  BY <1>0 DEF ItemInv, VarTypes, ReloadTells, ListsTell
<1>2. TableInv(spoilt, conn, Fresh)
  BY DEF ItemInv, TablesTell
<1>3. BaseOf[r.build] = n /\ RowRange(conn.rows, n) = RangeOf(r.build)
  BY <1>0, <1>2, OneRow DEF n
<1>4. ~RowLost(spoilt, conn.rows, n)
  BY DEF RowLost, n
<1>5. Replaced(conn.rows, n)
  BY <1>0, <1>4 DEF ItemInv, DropTells, n
<1>6. PICK c \in listed : RangeOf(c) \cap RowRange(conn.rows, n) # {}
  BY <1>5 DEF Replaced, Over
<1>7. Overlap(c, r.build)
  BY <1>3, <1>6 DEF Overlap
<1>8. c # r.build
  <2> SUFFICES ASSUME c = r.build PROVE FALSE
    OBVIOUS
  <2>1. c \in Over(conn.rows, n) /\ BaseOf[c] = n
    BY <1>3, <1>6 DEF Over
  <2>2. conn.meta[n] # NoInfo /\ ~Same(n, c, conn.meta[n])
    BY <2>1, <1>5 DEF Replaced, RowIsSame, Same
  <2>3. conn.meta[n].build = c
    BY <2>2, <1>2, <1>3 DEF TableInv, RefTells
  <2>4. conn.meta[n].ident = conn.meta[n].build
    BY <2>2, <1>0, <1>2, <1>4 DEF TableInv, RowTells
  <2> QED BY <2>2, <2>3, <2>4 DEF Same
<1> QED BY <1>1, <1>7, <1>8

CommentsStep == /\ disk.comments \subseteq disk'.comments
                /\ conn.comments \subseteq conn'.comments \/ tx
EvidenceStep == \A r \in disk.refs \ disk'.refs :
                  \/ apc = "clear" /\ r.from \in RangeOf(amod)
                  \/ view = "live" /\ \E b \in listed : b # r.build /\ Overlap(b, r.build)
                  \/ r.from \in spoilt

\* The steps that change the tables, one by one.
LEMMA TableSteps ==
  ASSUME ItemInv, [ItemNext]_piVars
  PROVE  CommentsStep /\ EvidenceStep
<1>0. conn \in Tables /\ conn.rows \in [Addrs -> Nat]
  BY ConnFacts DEF ItemInv
<1>1. ASSUME UNCHANGED dbVars PROVE CommentsStep /\ EvidenceStep
  BY <1>1 DEF dbVars, CommentsStep, EvidenceStep
<1>2. ASSUME NEW b \in Builds, OsLoad(b) \/ OsUnload(b) \/ LoadSymbols(b)
      PROVE  CommentsStep /\ EvidenceStep
  BY <1>1, <1>2 DEF OsLoad, OsUnload, LoadSymbols
<1>3. ASSUME NEW b \in Builds, BeginSave(b) PROVE CommentsStep /\ EvidenceStep
  <2>1. Busy /\ apc # "save" /\ disk' = disk
    BY <1>3 DEF BeginSave, Busy, BeginTransaction
  <2>2. amod \in Builds /\ conn = disk /\ BaseOf[b] \in Addrs /\ SizeOf[b] \in Nat
    BY <2>1, NoSave, TaskFacts, RangeFacts
  <2> DEFINE start == IF atask # "private" /\ ~IsModuleExists(BaseOf[b])
                      THEN InsertModule(conn, BaseOf[b], SizeOf[b]) ELSE conn
  <2>3. start \in Tables /\ start.comments = conn.comments
    <3>1. CASE start = conn
      BY <3>1, <1>0
    <3>2. CASE conn.rows[BaseOf[b]] = 0 /\ start = InsertModule(conn, BaseOf[b], SizeOf[b])
      <4>1. conn.meta[BaseOf[b]] = NoInfo
        BY <3>2, <2>2, ConnFacts DEF ItemInv
      <4> HIDE DEF start
      <4>2. /\ start \in Tables /\ start.comments = conn.comments /\ start.meta = conn.meta
            /\ start.rows = [conn.rows EXCEPT ![BaseOf[b]] = SizeOf[b]]
        BY <4>1, <3>2, <2>2, <1>0, InsertModuleFields
      <4> QED BY <4>2
    <3> QED BY <3>1, <3>2 DEF IsModuleExists
  <2>4. conn' = [start EXCEPT !.refs = @ \cup FirstPart(b, atask)]
    BY <1>3 DEF BeginSave, BeginTransaction
  <2> HIDE DEF start
  <2>5. FirstPart(b, atask) \subseteq References
    BY WantedFacts
  <2>6. conn'.comments = conn.comments
    BY <2>3, <2>4, <2>5, MoreFields
  <2> QED BY <2>1, <2>6 DEF CommentsStep, EvidenceStep
<1>4. ASSUME NEW v \in {"live", "saved"}, Open(v) PROVE CommentsStep /\ EvidenceStep
  BY <1>1, <1>4 DEF Open
<1>5. ASSUME NEW c \in Comments, WriteComment(c) PROVE CommentsStep /\ EvidenceStep
  <2>1. conn' = [conn EXCEPT !.comments = @ \cup {c}] /\ disk' = IF tx THEN disk ELSE conn'
    BY <1>5 DEF WriteComment, Execute
  <2>2. conn'.refs = conn.refs /\ conn'.comments = conn.comments \cup {c}
    BY <2>1, <1>0, CommentFields
  <2> QED BY <2>1, <2>2 DEF CommentsStep, EvidenceStep, ItemInv, Mirror
<1>6. ASSUME NEW task \in Tasks \ {"symbols"}, NEW b \in Builds, StartTask(task, b)
      PROVE  CommentsStep /\ EvidenceStep
  BY <1>1, <1>6 DEF StartTask
<1>7. CASE OsExit \/ ReloadModules \/ ApplyList \/ SaveModuleList \/ QueryRows \/ QueryMeta
           \/ RestoreFlags \/ ClearFlag \/ SetDone \/ QueryIdentity \/ FailAnalysis
           \/ UNCHANGED piVars
  BY <1>1, <1>7 DEF OsExit, ReloadModules, ApplyList, SaveModuleList, QueryRows, QueryMeta,
     RestoreFlags, ClearFlag, SetDone, QueryIdentity, FailAnalysis, piVars
<1>8. CASE UnloadModule
  <2>1. conn = disk /\ ~tx /\ upc = "drop" /\ Pending # {} /\ NextDrop \in Addrs
    BY <1>8, NoSave, NextDropFacts DEF UnloadModule, Saving, ItemInv
  <2>2. CASE conn.rows[NextDrop] # 0
    <3>1. conn' = DeleteModule(conn, NextDrop) /\ disk' = conn'
      BY <1>8, <2>1, <2>2 DEF UnloadModule, Execute, IsModuleExists
    <3>2. /\ conn' \in Tables /\ conn'.comments = conn.comments
          /\ conn'.rows = [conn.rows EXCEPT ![NextDrop] = 0]
          /\ conn'.meta = [conn.meta EXCEPT ![NextDrop] = NoInfo]
          /\ conn'.refs = conn.refs \ {r \in conn.refs : r.from \in RowRange(conn.rows, NextDrop)}
      BY <3>1, <2>1, <1>0, DeleteModuleFields
    <3> QED BY <2>1, <2>2, <3>1, <3>2, DropIsReplaced DEF CommentsStep, EvidenceStep
  <2>3. CASE conn.rows[NextDrop] = 0
    BY <1>1, <1>8, <2>3 DEF UnloadModule, IsModuleExists
  <2> QED BY <2>2, <2>3
<1>9. CASE EndInUnload
  <2>1. /\ conn = disk /\ upc = "drop" /\ Pending # {} /\ NextDrop \in Addrs
        /\ conn.rows[NextDrop] # 0 /\ conn' = DeleteRefs(conn, NextDrop) /\ disk' = conn'
    BY <1>9, NoSave, NextDropFacts DEF EndInUnload, Saving, IsModuleExists, ItemInv
  <2>2. conn'.comments = conn.comments
        /\ conn'.refs = conn.refs \ {r \in conn.refs : r.from \in RowRange(conn.rows, NextDrop)}
    BY <2>1, <1>0, DeleteRefsFields
  <2> QED BY <2>1, <2>2, DropIsReplaced DEF CommentsStep, EvidenceStep
<1>10. CASE ClearReferences
  <2>1. conn = disk /\ ~tx /\ apc = "clear" /\ Busy
    BY <1>10, NoSave DEF ClearReferences, Busy
  <2>2. amod \in Builds /\ Place \in Addrs /\ PlaceInv(spoilt, conn, amod) /\ TableShape(conn)
    BY <2>1, TaskFacts, ConnFacts DEF ItemInv
  <2>3. CASE conn.rows[Place] # 0
    <3>1. conn' = DeleteRefs(conn, Place) /\ disk' = conn'
      BY <1>10, <2>1, <2>3 DEF ClearReferences, Execute, IsModuleExists, Place
    <3>2. conn'.comments = conn.comments
          /\ conn'.refs = conn.refs \ {r \in conn.refs : r.from \in RowRange(conn.rows, Place)}
      BY <3>1, <2>2, <1>0, DeleteRefsFields
    <3>3. RowRange(conn.rows, Place) \subseteq spoilt \/ RowRange(conn.rows, Place) = RangeOf(amod)
      <4>1. PlaceFits(spoilt, conn, Place, amod)
        BY <2>2, <2>3, PlaceRow DEF Place
      <4> QED BY <4>1, <2>2, <1>0, RowFacts DEF PlaceFits, RowLost
    <3> QED BY <2>1, <3>1, <3>2, <3>3 DEF CommentsStep, EvidenceStep
  <2>4. CASE conn.rows[Place] = 0
    <3>1. conn' = conn /\ disk' = conn'
      BY <1>10, <2>1, <2>4 DEF ClearReferences, Execute, IsModuleExists, Place
    <3> QED BY <2>1, <3>1 DEF CommentsStep, EvidenceStep
  <2> QED BY <2>3, <2>4
<1>11. CASE CommitSave
  <2>1. abuild \in Builds /\ disk' = conn'
        /\ conn' = [conn EXCEPT !.refs = @ \cup Wanted(abuild, atask)]
    BY <1>11 DEF CommitSave, CommitTransaction, ItemInv, TaskTells, HasBuild
  <2>2. Wanted(abuild, atask) \subseteq References
    BY <2>1, WantedFacts
  <2>3. conn'.comments = conn.comments /\ conn.refs \subseteq conn'.refs
    BY <2>1, <2>2, <1>0, MoreFields
  <2> QED BY <2>1, <2>3 DEF CommentsStep, EvidenceStep, ItemInv, Mirror
<1>12. CASE FailSave
  BY <1>12 DEF FailSave, RollbackTransaction, CommentsStep, EvidenceStep
<1>13. CASE SaveFlags
  <2>1. conn = disk /\ ~tx /\ Busy /\ HasInfo
    BY <1>13, NoSave DEF SaveFlags, Busy, HasInfo
  <2>2. Place \in Addrs /\ ainfo \in Infos
    BY <2>1, TaskFacts DEF ItemInv, InfoTells
  <2>3. CASE ainfo.build = NoBuild
    BY <1>1, <1>13, <2>3 DEF SaveFlags
  <2>4. CASE ainfo.build # NoBuild
    <3>1. conn' = InsertMetaInfo(conn, Place, ainfo) /\ disk' = conn'
      BY <1>13, <2>1, <2>4 DEF SaveFlags, Execute, Place
    <3>2. /\ conn' \in Tables /\ conn'.comments = conn.comments /\ conn'.rows = conn.rows
          /\ conn'.refs = conn.refs
          /\ conn.rows[Place] # 0 => conn'.meta = [conn.meta EXCEPT ![Place] = ainfo]
          /\ conn.rows[Place] = 0 => conn'.meta = conn.meta /\ conn' = conn
      BY <3>1, <2>2, <1>0, InsertMetaInfoFields
    <3> QED BY <2>1, <3>1, <3>2 DEF CommentsStep, EvidenceStep
  <2> QED BY <2>3, <2>4
<1>14. CASE End
  <2>1. conn' = disk /\ disk' = disk
    BY <1>14 DEF End, Reconnect
  <2> QED BY <2>1 DEF CommentsStep, EvidenceStep, ItemInv, Mirror
<1> QED BY <1>2, <1>3, <1>4, <1>5, <1>6, <1>7, <1>8, <1>9, <1>10, <1>11, <1>12, <1>13, <1>14
        DEF ItemNext

\* No comment that was committed ever goes, and one that was not goes only with the
\* transaction it was written into.
THEOREM CommentsAreKept == ItemSpec => CommentsStay
<1>1. ItemInv /\ [ItemNext]_piVars => [CommentsStep]_piVars
  BY TableSteps
<1> QED BY <1>1, ItemInvariant, PTL DEF ItemSpec, CommentsStay, CommentsStep

\* References go only with .analyze /f of their module, or when the live process has
\* another module at their place; a saved process keeps them (the part of SavedStays
\* about the database of a process).
THEOREM EvidenceIsKept == ItemSpec => EvidenceStays
<1>1. ItemInv /\ [ItemNext]_piVars => [EvidenceStep]_piVars
  BY TableSteps
<1> QED BY <1>1, ItemInvariant, PTL DEF ItemSpec, EvidenceStays, EvidenceStep
================================================================================
