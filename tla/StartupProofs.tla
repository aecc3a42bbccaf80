---------------------------- MODULE StartupProofs ----------------------------
(***************************************************************************)
(* Proofs about Startup, for any map, any provinces merged on it, any      *)
(* reports and users and any number of restarts.                           *)
(***************************************************************************)
EXTENDS Startup, TLAPS

-----------------------------------------------------------------------------
(* The inductive invariant *)

Codes == Sidos \cup Sigungus
PlaceRecord == [site: Sites \cup {Null}, sido: Codes \cup {Null}, sigungu: Codes \cup {Null}]

\* What on_startup does after it has written the regions, after it has moved
\* the rows, and after the merged provinces are gone.
Swept == {"categories", "domains", "backfill", "finalize", "up"}
Moving == {"drop"} \cup Swept
Seeded == {"sweep"} \cup Moving

\* A row has codes that are there.
RowFits(p, codes) ==
  /\ p \in PlaceRecord
  /\ p.sido \in codes \cup {Null} /\ p.sigungu \in codes \cup {Null}

\* A report has the province of its city, be it the one of today or the one
\* before the merge; of a user nothing like it is known.
InProvince(p) ==
  p.sigungu # Null =>
    p.sigungu \in Sigungus /\ p.sido \in {Prefix[p.sigungu], ParentOf(p.sigungu)}

RegionsFit ==
  /\ DOMAIN regions \subseteq Sidos \cup Sigungus
  /\ regions = [c \in DOMAIN regions |-> regions[c]]
  /\ pc \in Seeded => \A c \in DOMAIN MapRegions : c \in DOMAIN regions /\ regions[c] = MapRegions[c]
  /\ pc \in Swept => DOMAIN regions \cap DOMAIN Merges = {}

RowsFit ==
  /\ rows = [r \in Rows |-> rows[r]]
  /\ \A r \in Rows : RowFits(rows[r], DOMAIN regions)
  /\ \A r \in Reports : InProvince(rows[r])
  /\ pc \in Moving => \A r \in Rows : rows[r].sido \notin DOMAIN Merges
  /\ siteColumns = FALSE => \A r \in Rows : rows[r].site = Null

DoneSoFar ==
  /\ siteColumns \in BOOLEAN
  /\ pc \in {"domains", "backfill", "finalize", "up"} => categories
  /\ pc \in {"backfill", "finalize", "up"} => domains
  /\ pc \in {"finalize", "up"} => outdated = {}
  /\ pc = "up" => siteColumns = FALSE

IInv == RegionsFit /\ RowsFit /\ DoneSoFar

-----------------------------------------------------------------------------
(* Lemmas about the map *)

LEMMA Provinces ==
  /\ DOMAIN MapRegions = (Sidos \ DOMAIN Merges) \cup Sigungus
  /\ DOMAIN Merges \subseteq Sidos
  /\ \A s \in Sidos : ParentCode(s) \in Sidos \ DOMAIN Merges
  /\ \A s \in Sidos \ DOMAIN Merges : ParentCode(s) = s
  /\ \A s \in DOMAIN Merges : ParentCode(s) = Merges[s] /\ Merges[s] \in Sidos \ DOMAIN Merges
  /\ Sidos \cap Sigungus = {}
  /\ Null \notin Sidos \cup Sigungus \cup Sites
  BY StartupAssumption DEF MapRegions, ParentCode

LEMMA Cities ==
  ASSUME NEW c \in Sigungus
  PROVE  /\ Prefix[c] \in Sidos /\ ParentOf(c) \in Sidos \ DOMAIN Merges
         /\ c \in DOMAIN MapRegions /\ MapRegions[c] = ParentOf(c)
         /\ Prefix[c] \notin DOMAIN Merges => ParentOf(c) = Prefix[c]
         /\ Prefix[c] \in DOMAIN Merges => ParentOf(c) = Merges[Prefix[c]]
  <1>1. Prefix[c] \in Sidos
    BY StartupAssumption
  <1>2. c \in DOMAIN MapRegions /\ MapRegions[c] = ParentOf(c)
    BY Provinces DEF MapRegions
  <1>3. QED
    BY <1>1, <1>2, Provinces DEF ParentOf

\* Regions without the merged provinces that hold what the map has are the map.
LEMMA SweptIsMap ==
  ASSUME RegionsFit, pc \in Swept
  PROVE  regions = MapRegions
  <1>1. DOMAIN regions = DOMAIN MapRegions
    BY Provinces DEF RegionsFit, Seeded, Moving
  <1>2. \A c \in DOMAIN MapRegions : regions[c] = MapRegions[c]
    BY DEF RegionsFit, Seeded, Moving
  <1>3. regions = [c \in DOMAIN MapRegions |-> MapRegions[c]]
    BY <1>1, <1>2 DEF RegionsFit
  <1>4. QED
    BY <1>3 DEF MapRegions

-----------------------------------------------------------------------------
(* The steps *)

LEMMA InitFits ==
  ASSUME Init
  PROVE  IInv
  <1>1. pc = "down" /\ siteColumns \in BOOLEAN
    BY DEF Init, OldSites, BothSchemas, OldRegions, Current
  <1>2. pc \notin Seeded \cup Moving \cup Swept
    BY <1>1 DEF Seeded, Moving, Swept
  <1>3. /\ DOMAIN RegionsBefore = Sidos \cup Sigungus /\ DOMAIN NoRegions = {}
        /\ RegionsBefore = [c \in DOMAIN RegionsBefore |-> RegionsBefore[c]]
        /\ NoRegions = [c \in DOMAIN NoRegions |-> NoRegions[c]]
        /\ MapRegions = [c \in DOMAIN MapRegions |-> MapRegions[c]]
    BY DEF RegionsBefore, NoRegions, MapRegions
  <1>4. regions \in {NoRegions, RegionsBefore, MapRegions}
    BY DEF Init, OldSites, BothSchemas, OldRegions, Current
  <1>5. RegionsFit
    <2>1. DOMAIN regions \subseteq Sidos \cup Sigungus
      <3>1. CASE regions = NoRegions
        BY <1>3, <3>1
      <3>2. CASE regions = RegionsBefore
        BY <1>3, <3>2
      <3>3. CASE regions = MapRegions
        BY <3>3, Provinces
      <3>4. QED
        BY <1>4, <3>1, <3>2, <3>3
    <2>2. regions = [c \in DOMAIN regions |-> regions[c]]
      <3>1. CASE regions = NoRegions
        BY <1>3, <3>1
      <3>2. CASE regions = RegionsBefore
        BY <1>3, <3>2
      <3>3. CASE regions = MapRegions
        BY <1>3, <3>3
      <3>4. QED
        BY <1>4, <3>1, <3>2, <3>3
    <2>3. QED
      BY <1>2, <2>1, <2>2 DEF RegionsFit
  <1>6. RowFits(NoPlace, DOMAIN regions) /\ InProvince(NoPlace) /\ NoPlace.site = Null
    BY DEF RowFits, InProvince, NoPlace, PlaceRecord
  <1>7. ASSUME NEW s \in Sites
        PROVE  RowFits(AtSite(s), DOMAIN regions) /\ InProvince(AtSite(s))
    <2>1. /\ AtSite(s) \in PlaceRecord /\ AtSite(s).sido = Null /\ AtSite(s).sigungu = Null
      BY DEF AtSite, NoPlace, PlaceRecord
    <2>2. QED
      BY <2>1 DEF RowFits, InProvince
  <1>8. ASSUME NEW codes \in SUBSET Codes, codes = DOMAIN regions,
               NEW r \in Rows, rows \in [Rows -> AnyPlaces(codes)]
        PROVE  RowFits(rows[r], DOMAIN regions) /\ rows[r].site = Null
    <2>1. PICK a \in codes \cup {Null}, b \in codes \cup {Null} : rows[r] = AtRegion(a, b)
      BY <1>8 DEF AnyPlaces
    <2>2. rows[r].site = Null /\ rows[r].sido = a /\ rows[r].sigungu = b /\ rows[r] \in PlaceRecord
      BY <2>1 DEF AtRegion, PlaceRecord
    <2>3. QED
      BY <1>8, <2>2 DEF RowFits
  <1>8a. ASSUME ReportsFit(regions, rows), NEW r \in Reports,
                \A c \in Sigungus : regions[c] \in {Prefix[c], ParentOf(c)}
         PROVE  InProvince(rows[r])
    <2>1. CASE rows[r] = NoPlace
      BY <1>6, <2>1
    <2>2. ASSUME NEW c \in Sigungus, rows[r] = AtRegion(regions[c], c)
          PROVE  InProvince(rows[r])
      <3>1. rows[r].sido = regions[c] /\ rows[r].sigungu = c
        BY <2>2 DEF AtRegion
      <3>2. QED
        BY <1>8a, <3>1 DEF InProvince
    <2>3. QED
      BY <1>8a, <2>1, <2>2 DEF ReportsFit
  <1>9. rows = [r \in Rows |-> rows[r]]
    BY DEF Init, OldSites, BothSchemas, OldRegions, Current
  <1>10. ASSUME NEW r \in Rows
         PROVE  /\ RowFits(rows[r], DOMAIN regions) /\ (siteColumns = FALSE => rows[r].site = Null)
                /\ r \in Reports => InProvince(rows[r])
    <2>1. CASE OldSites \/ BothSchemas
      <3>1. PICK s \in Sites : rows[r] = AtSite(s)
        BY <2>1 DEF OldSites, BothSchemas
      <3>2. siteColumns = TRUE
        BY <2>1 DEF OldSites, BothSchemas
      <3>3. QED
        BY <1>7, <3>1, <3>2
    <2>2. CASE OldRegions
      <3>1. /\ regions = RegionsBefore /\ rows \in [Rows -> AnyPlaces(Codes)] /\ DOMAIN regions = Codes
            /\ ReportsFit(regions, rows)
        BY <1>3, <2>2 DEF OldRegions, Codes
      <3>2. \A c \in Sigungus : regions[c] \in {Prefix[c], ParentOf(c)}
        BY <3>1, Provinces DEF RegionsBefore
      <3>3. QED
        BY <1>8, <1>8a, <3>1, <3>2
    <2>3. CASE Current
      <3>1. CASE rows = [x \in Rows |-> NoPlace]
        BY <1>6, <3>1
      <3>2. CASE rows # [x \in Rows |-> NoPlace]
        <4>1. /\ regions = MapRegions /\ rows \in [Rows -> AnyPlaces(DOMAIN MapRegions)]
              /\ ReportsFit(regions, rows)
          BY <2>3, <3>2 DEF Current
        <4>2. DOMAIN MapRegions \in SUBSET Codes
          BY Provinces DEF Codes
        <4>3. \A c \in Sigungus : regions[c] \in {Prefix[c], ParentOf(c)}
          BY <4>1, Cities
        <4>4. QED
          BY <1>8, <1>8a, <4>1, <4>2, <4>3
      <3>3. QED
        BY <3>1, <3>2
    <2>4. QED
      BY <2>1, <2>2, <2>3 DEF Init
  <1>11. RowsFit
    BY <1>2, <1>9, <1>10 DEF RowsFit, Rows
  <1>12. DoneSoFar
    BY <1>1 DEF DoneSoFar
  <1>13. QED
    BY <1>5, <1>11, <1>12 DEF IInv

\* Statements that touch neither regions nor rows.
LEMMA QuietFits ==
  ASSUME IInv, UNCHANGED <<regions, rows, siteColumns>>,
         pc' \in Seeded => pc \in Seeded,
         pc' \in Moving => pc \in Moving,
         pc' \in Swept => pc \in Swept \/ DOMAIN regions \cap DOMAIN Merges = {},
         DoneSoFar'
  PROVE  IInv'
  <1>1. RegionsFit'
    BY DEF IInv, RegionsFit, MapRegions, ParentOf, ParentCode
  <1>2. RowsFit'
    BY DEF IInv, RowsFit, RowFits, InProvince, ParentOf, ParentCode
  <1>3. QED
    BY <1>1, <1>2 DEF IInv

\* A start that fails leaves everything as it was.
LEMMA FailsFits ==
  ASSUME IInv, Fails
  PROVE  IInv'
  <1>1. pc' = "down" /\ UNCHANGED <<regions, rows, siteColumns, categories, domains, outdated>>
    BY DEF Fails, schema, data
  <1>2. DoneSoFar'
    BY <1>1 DEF IInv, DoneSoFar
  <1>3. QED
    BY <1>1, <1>2, QuietFits DEF Seeded, Moving, Swept

LEMMA QuietSteps ==
  ASSUME IInv,
         \/ Start \/ Die \/ CreateAll \/ RunMigrations
         \/ SeedCategories \/ SeedDomains \/ Backfill
  PROVE  IInv'
  <1>1. DoneSoFar
    BY DEF IInv
  <1>2. CASE Start \/ Die \/ CreateAll \/ RunMigrations
    <2>1. UNCHANGED <<regions, rows, siteColumns>> /\ pc' \in {"down", "create_all", "migrate", "regions"}
      BY <1>2 DEF Start, Die, CreateAll, RunMigrations, schema, data
    <2>2. DoneSoFar'
      BY <1>1, <2>1 DEF DoneSoFar
    <2>3. QED
      BY <2>1, <2>2, QuietFits DEF Seeded, Moving, Swept
  <1>3. CASE SeedCategories
    <2>1. /\ UNCHANGED <<regions, rows, siteColumns>> /\ pc = "categories" /\ pc' = "domains" /\ categories'
      BY <1>3 DEF SeedCategories, schema
    <2>2. DoneSoFar'
      BY <1>1, <2>1 DEF DoneSoFar
    <2>3. QED
      BY <2>1, <2>2, QuietFits DEF Seeded, Moving, Swept
  <1>4. CASE SeedDomains
    <2>1. /\ UNCHANGED <<regions, rows, siteColumns, categories>>
          /\ pc = "domains" /\ pc' = "backfill" /\ domains'
      BY <1>4 DEF SeedDomains, schema
    <2>2. DoneSoFar'
      BY <1>1, <2>1 DEF DoneSoFar
    <2>3. QED
      BY <2>1, <2>2, QuietFits DEF Seeded, Moving, Swept
  <1>5. CASE Backfill
    <2>1. /\ UNCHANGED <<regions, rows, siteColumns, categories, domains>>
          /\ pc = "backfill" /\ pc' = "finalize" /\ outdated' = {}
      BY <1>1, <1>5 DEF Backfill, schema, DoneSoFar
    <2>2. DoneSoFar'
      BY <1>1, <2>1 DEF DoneSoFar
    <2>3. QED
      BY <2>1, <2>2, QuietFits DEF Seeded, Moving, Swept
  <1>6. QED
    BY <1>2, <1>3, <1>4, <1>5

LEMMA SeedRegionsFits ==
  ASSUME IInv, SeedRegions
  PROVE  IInv'
  <1>1. /\ pc = "regions" /\ pc' = "sweep" /\ UNCHANGED <<rows, siteColumns, categories, domains, outdated>>
        /\ regions' = [c \in DOMAIN regions \cup DOMAIN MapRegions |->
                         IF c \in DOMAIN MapRegions THEN MapRegions[c] ELSE regions[c]]
    BY DEF SeedRegions, schema
  <1>2. DOMAIN regions' = DOMAIN regions \cup DOMAIN MapRegions
    BY <1>1
  <1>3. RegionsFit'
    <2>1. DOMAIN regions' \subseteq Sidos \cup Sigungus
      BY <1>2, Provinces DEF IInv, RegionsFit
    <2>2. regions' = [c \in DOMAIN regions' |-> regions'[c]]
      BY <1>1
    <2>3. \A c \in DOMAIN MapRegions : c \in DOMAIN regions' /\ regions'[c] = MapRegions[c]
      BY <1>1
    <2>4. pc' \notin Swept
      BY <1>1 DEF Swept
    <2>5. QED
      BY <2>1, <2>2, <2>3, <2>4 DEF RegionsFit, MapRegions, ParentOf, ParentCode
  <1>4. RowsFit'
    <2>1. pc' \notin Moving
      BY <1>1 DEF Moving, Swept
    <2>2. \A r \in Rows : RowFits(rows[r], DOMAIN regions)
      BY DEF IInv, RowsFit
    <2>3. \A r \in Rows : RowFits(rows[r], DOMAIN regions')
      BY <1>2, <2>2 DEF RowFits
    <2>4. QED
      BY <1>1, <2>1, <2>3 DEF IInv, RowsFit, RowFits, InProvince, ParentOf, ParentCode
  <1>5. DoneSoFar'
    BY <1>1 DEF IInv, DoneSoFar
  <1>6. QED
    BY <1>3, <1>4, <1>5 DEF IInv

LEMMA MoveRowsFits ==
  ASSUME IInv, MoveRows
  PROVE  IInv'
  <1> DEFINE Gone == DOMAIN Merges \cap DOMAIN regions
  <1>1. /\ pc = "sweep" /\ pc' = IF Gone = {} THEN "categories" ELSE "drop"
        /\ UNCHANGED <<regions, siteColumns, categories, domains, outdated>>
        /\ rows' = [r \in Rows |->
             IF rows[r].sido \in Gone THEN [rows[r] EXCEPT !.sido = Merges[@]] ELSE rows[r]]
    BY DEF MoveRows, schema
  <1>2. RegionsFit'
    BY <1>1 DEF IInv, RegionsFit, MapRegions, ParentOf, ParentCode, Seeded, Moving, Swept
  <1>3. ASSUME NEW r \in Rows
        PROVE  /\ RowFits(rows'[r], DOMAIN regions) /\ rows'[r].sido \notin DOMAIN Merges
               /\ rows'[r].site = rows[r].site
               /\ r \in Reports => InProvince(rows'[r])
    <2>1. RowFits(rows[r], DOMAIN regions) /\ (r \in Reports => InProvince(rows[r]))
      BY DEF IInv, RowsFit
    <2>2. CASE rows[r].sido \in Gone
      <3>1. rows'[r] = [rows[r] EXCEPT !.sido = Merges[rows[r].sido]]
        BY <1>1, <2>2
      <3>2. /\ Merges[rows[r].sido] \in Sidos \ DOMAIN Merges
            /\ Merges[rows[r].sido] \in DOMAIN regions
        <4>1. Merges[rows[r].sido] \in Sidos \ DOMAIN Merges
          BY <2>2, Provinces
        <4>2. Merges[rows[r].sido] \in DOMAIN MapRegions
          BY <4>1, Provinces
        <4>3. pc \in Seeded
          BY <1>1 DEF Seeded
        <4>4. QED
          BY <4>1, <4>2, <4>3 DEF IInv, RegionsFit
      <3>3. /\ rows'[r].sido = Merges[rows[r].sido] /\ rows'[r].sigungu = rows[r].sigungu
            /\ rows'[r].site = rows[r].site /\ rows'[r] \in PlaceRecord
        BY <2>1, <3>1, <3>2 DEF RowFits, PlaceRecord, Codes
      <3>4. r \in Reports => InProvince(rows'[r])
        BY <2>1, <2>2, <3>3, Cities DEF InProvince
      <3>5. QED
        BY <2>1, <3>2, <3>3, <3>4 DEF RowFits
    <2>3. CASE rows[r].sido \notin Gone
      <3>1. rows'[r] = rows[r]
        BY <1>1, <2>3
      <3>2. QED
        BY <2>1, <2>3, <3>1, Provinces DEF RowFits
    <2>4. QED
      BY <2>2, <2>3
  <1>4. RowsFit'
    BY <1>1, <1>3 DEF IInv, RowsFit, RowFits, InProvince, ParentOf, ParentCode, Rows
  <1>5. DoneSoFar'
    BY <1>1 DEF IInv, DoneSoFar
  <1>6. QED
    BY <1>2, <1>4, <1>5 DEF IInv

LEMMA DropMergedFits ==
  ASSUME IInv, DropMerged
  PROVE  IInv'
  <1> DEFINE left == [c \in DOMAIN regions \ DOMAIN Merges |-> regions[c]]
  <1>1. CASE KeysHold(left, rows)
    <2>1. /\ pc = "drop" /\ pc' = "categories" /\ regions' = left
          /\ UNCHANGED <<rows, siteColumns, categories, domains, outdated>>
      BY <1>1 DEF DropMerged, schema
    <2>2. DOMAIN left = DOMAIN regions \ DOMAIN Merges
      OBVIOUS
    <2>3. RegionsFit'
      <3>1. DOMAIN regions' \subseteq Sidos \cup Sigungus /\ DOMAIN regions' \cap DOMAIN Merges = {}
        BY <2>1, <2>2 DEF IInv, RegionsFit
      <3>2. regions' = [c \in DOMAIN regions' |-> regions'[c]]
        BY <2>1
      <3>3. \A c \in DOMAIN MapRegions : c \in DOMAIN regions' /\ regions'[c] = MapRegions[c]
        <4>1. pc \in Seeded
          BY <2>1 DEF Seeded, Moving
        <4>2. DOMAIN MapRegions \cap DOMAIN Merges = {}
          BY Provinces
        <4>3. QED
          BY <2>1, <2>2, <4>1, <4>2 DEF IInv, RegionsFit
      <3>4. QED
        BY <3>1, <3>2, <3>3 DEF RegionsFit, MapRegions, ParentOf, ParentCode
    <2>4. \A r \in Rows : RowFits(rows[r], DOMAIN left)
      BY <1>1 DEF IInv, RowsFit, RowFits, KeysHold
    <2>5. pc \in Moving
      BY <2>1 DEF Moving
    <2> HIDE DEF left
    <2>6. RowsFit'
      BY <2>1, <2>4, <2>5 DEF IInv, RowsFit, RowFits, InProvince, ParentOf, ParentCode
    <2>7. DoneSoFar'
      BY <2>1 DEF IInv, DoneSoFar
    <2>8. QED
      BY <2>3, <2>6, <2>7 DEF IInv
  <1>2. CASE ~KeysHold(left, rows)
    <2>1. Fails
      BY <1>2 DEF DropMerged
    <2>2. QED
      BY <2>1, FailsFits
  <1>3. QED
    BY <1>1, <1>2

\* A row that is moved off its site keeps its place, and gets both codes of it.
LEMMA MovedFits ==
  ASSUME NEW p \in PlaceRecord
  PROVE  /\ Moved(p) \in PlaceRecord
         /\ WithoutSite(Moved(p)) \in PlaceRecord
         /\ WithoutSite(Moved(p)).site = Null
         /\ WithoutSite(Moved(p)).sido = Moved(p).sido
         /\ WithoutSite(Moved(p)).sigungu = Moved(p).sigungu
         /\ \/ Moved(p) = p
            \/ Moved(p).sigungu \in Sigungus /\ Moved(p).sido = Prefix[Moved(p).sigungu]
         /\ Place(Moved(p)) = Place(p)
         /\ Place(WithoutSite(Moved(p))) = Place(p)
  <1>1. CASE p.site \in DOMAIN SiteToRegion /\ p.sigungu = Null
    <2> DEFINE c == SiteToRegion[p.site]
    <2>1. c \in Sigungus /\ Prefix[c] \in Sidos
      BY <1>1, StartupAssumption
    <2>2. Moved(p) = [p EXCEPT !.sigungu = c, !.sido = Prefix[c]]
      BY <1>1 DEF Moved
    <2>3. Place(p) = c
      BY <1>1 DEF Place
    <2> HIDE DEF c
    <2>4. Moved(p) \in PlaceRecord /\ Moved(p).sigungu = c /\ Moved(p).sido = Prefix[c]
      BY <2>1, <2>2 DEF PlaceRecord, Codes
    <2>5. /\ WithoutSite(Moved(p)) \in PlaceRecord /\ WithoutSite(Moved(p)).site = Null
          /\ WithoutSite(Moved(p)).sido = Moved(p).sido
          /\ WithoutSite(Moved(p)).sigungu = c
      BY <2>4 DEF WithoutSite, PlaceRecord
    <2>6. c # Null
      BY <2>1, Provinces
    <2>7. Place(Moved(p)) = c /\ Place(WithoutSite(Moved(p))) = c
      BY <2>4, <2>5, <2>6 DEF Place
    <2>8. QED
      BY <2>1, <2>3, <2>4, <2>5, <2>7
  <1>2. CASE ~(p.site \in DOMAIN SiteToRegion /\ p.sigungu = Null)
    <2>1. Moved(p) = p
      BY <1>2 DEF Moved
    <2>2. /\ WithoutSite(p) \in PlaceRecord /\ WithoutSite(p).site = Null
          /\ WithoutSite(p).sido = p.sido /\ WithoutSite(p).sigungu = p.sigungu
      BY DEF WithoutSite, PlaceRecord
    <2>3. Null \notin DOMAIN SiteToRegion
      BY StartupAssumption
    <2>4. Place(WithoutSite(p)) = Place(p)
      BY <1>2, <2>2, <2>3 DEF Place
    <2>5. QED
      BY <2>1, <2>2, <2>4
  <1>3. QED
    BY <1>1, <1>2

\* What finalize_migration leaves of each row when it commits.
LEMMA FinalizeRows ==
  ASSUME IInv, FinalizeMigration, pc' = "up", NEW r \in Rows
  PROVE  \E q \in PlaceRecord :
           /\ q \in {rows[r], Moved(rows[r])}
           /\ siteColumns = TRUE => q = Moved(rows[r])
           /\ siteColumns = FALSE => q = rows[r]
           /\ rows'[r] = WithoutSite(q)
           /\ q.sido \in DOMAIN regions \cup {Null} /\ q.sigungu \in DOMAIN regions \cup {Null}
  <1> DEFINE placed == [x \in Rows |-> IF siteColumns THEN Moved(rows[x]) ELSE rows[x]]
  <1>1. KeysHold(regions, placed) /\ rows' = [x \in Rows |-> WithoutSite(placed[x])]
    BY DEF FinalizeMigration, Fails
  <1>2. rows[r] \in PlaceRecord /\ siteColumns \in BOOLEAN
    BY DEF IInv, RowsFit, RowFits, DoneSoFar
  <1>3. Moved(rows[r]) \in PlaceRecord
    BY <1>2, MovedFits
  <1>4. placed[r] = IF siteColumns THEN Moved(rows[r]) ELSE rows[r]
    OBVIOUS
  <1>5. placed[r].sido \in DOMAIN regions \cup {Null} /\ placed[r].sigungu \in DOMAIN regions \cup {Null}
    BY <1>1 DEF KeysHold
  <1>6. rows'[r] = WithoutSite(placed[r])
    BY <1>1
  <1> HIDE DEF placed
  <1>7. QED
    BY <1>2, <1>3, <1>4, <1>5, <1>6

LEMMA FinalizeFits ==
  ASSUME IInv, FinalizeMigration
  PROVE  IInv'
  <1>1. CASE pc' = "up"
    <2>1. /\ pc = "finalize" /\ siteColumns' = FALSE /\ UNCHANGED <<regions, categories, domains, outdated>>
          /\ rows' = [r \in Rows |-> rows'[r]]
      BY <1>1 DEF FinalizeMigration, Fails
    <2>2. pc \in Swept /\ pc \in Seeded /\ pc \in Moving
      BY <2>1 DEF Swept, Seeded, Moving
    <2>3. RegionsFit'
      BY <2>1, <2>2 DEF IInv, RegionsFit, MapRegions, ParentOf, ParentCode
    <2>4. DOMAIN regions \cap DOMAIN Merges = {} /\ Null \notin DOMAIN Merges
      BY <2>2, Provinces DEF IInv, RegionsFit
    <2>5. ASSUME NEW r \in Rows
          PROVE  /\ RowFits(rows'[r], DOMAIN regions) /\ rows'[r].sido \notin DOMAIN Merges
                 /\ rows'[r].site = Null
                 /\ r \in Reports => InProvince(rows'[r])
      <3>1. /\ RowFits(rows[r], DOMAIN regions) /\ siteColumns \in BOOLEAN
            /\ r \in Reports => InProvince(rows[r])
        BY DEF IInv, RowsFit, DoneSoFar
      <3>2. PICK q \in PlaceRecord :
              /\ q \in {rows[r], Moved(rows[r])}
              /\ siteColumns = TRUE => q = Moved(rows[r])
              /\ siteColumns = FALSE => q = rows[r]
              /\ rows'[r] = WithoutSite(q)
              /\ q.sido \in DOMAIN regions \cup {Null} /\ q.sigungu \in DOMAIN regions \cup {Null}
        BY <1>1, FinalizeRows
      <3>3. /\ rows'[r] \in PlaceRecord /\ rows'[r].site = Null
            /\ rows'[r].sido = q.sido /\ rows'[r].sigungu = q.sigungu
        BY <3>2 DEF WithoutSite, PlaceRecord
      <3>4. r \in Reports => InProvince(q)
        BY <3>1, <3>2, MovedFits DEF RowFits, InProvince
      <3>5. QED
        BY <2>4, <3>2, <3>3, <3>4 DEF RowFits, InProvince
    <2>6. RowsFit'
      BY <2>1, <2>5 DEF RowsFit, RowFits, InProvince, ParentOf, ParentCode, Rows
    <2>7. DoneSoFar'
      BY <1>1, <2>1 DEF IInv, DoneSoFar
    <2>8. QED
      BY <2>3, <2>6, <2>7 DEF IInv
  <1>2. CASE pc' # "up"
    <2>1. Fails
      BY <1>2 DEF FinalizeMigration
    <2>2. QED
      BY <2>1, FailsFits
  <1>3. QED
    BY <1>1, <1>2

\* While the process serves, a row may take any place that fits.
LEMMA PlacedFits ==
  ASSUME IInv, pc = "up", NEW r \in Rows, NEW p \in PlaceRecord,
         RowFits(p, DOMAIN MapRegions), p.site = Null, r \in Reports => InProvince(p),
         rows' = [rows EXCEPT ![r] = p],
         UNCHANGED <<pc, regions, siteColumns, categories, domains, outdated>>
  PROVE  IInv'
  <1>1. pc \in Swept /\ pc \in Seeded /\ pc \in Moving
    BY DEF Swept, Seeded, Moving
  <1>2. regions = MapRegions
    BY <1>1, SweptIsMap DEF IInv
  <1>3. p.sido \notin DOMAIN Merges
    BY Provinces DEF RowFits
  <1>4. RegionsFit'
    BY DEF IInv, RegionsFit, MapRegions, ParentOf, ParentCode
  <1>5. rows' = [x \in Rows |-> rows'[x]]
    BY DEF IInv, RowsFit
  <1>6. ASSUME NEW x \in Rows
        PROVE  /\ RowFits(rows'[x], DOMAIN regions) /\ rows'[x].sido \notin DOMAIN Merges
               /\ siteColumns = FALSE => rows'[x].site = Null
               /\ x \in Reports => InProvince(rows'[x])
    <2>1. CASE x = r
      <3>1. rows'[x] = p
        BY <2>1 DEF IInv, RowsFit
      <3>2. QED
        BY <1>2, <1>3, <2>1, <3>1
    <2>2. CASE x # r
      <3>1. rows'[x] = rows[x]
        BY <2>2 DEF IInv, RowsFit
      <3>2. QED
        BY <1>1, <3>1 DEF IInv, RowsFit
    <2>3. QED
      BY <2>1, <2>2
  <1>7. RowsFit'
    BY <1>5, <1>6 DEF RowsFit, RowFits, InProvince, ParentOf, ParentCode, Rows
  <1>8. DoneSoFar'
    BY DEF IInv, DoneSoFar
  <1>9. QED
    BY <1>4, <1>7, <1>8 DEF IInv

LEMMA TakePlaceFits ==
  ASSUME IInv, NEW r \in Reports, NEW c \in Sigungus, TakePlace(r, c)
  PROVE  IInv'
  <1> DEFINE p == AtRegion(regions[c], c)
  <1>1. /\ pc = "up" /\ rows' = [rows EXCEPT ![r] = p]
        /\ UNCHANGED <<pc, regions, siteColumns, categories, domains, outdated>>
    BY DEF TakePlace, schema
  <1>2. regions = MapRegions
    BY <1>1, SweptIsMap DEF IInv, Swept
  <1>3. regions[c] = ParentOf(c) /\ {ParentOf(c), c} \subseteq DOMAIN MapRegions
    BY <1>2, Cities, Provinces
  <1>4. p.site = Null /\ p.sido = ParentOf(c) /\ p.sigungu = c /\ p \in PlaceRecord
    BY <1>3, Cities DEF AtRegion, PlaceRecord, Codes
  <1> HIDE DEF p
  <1>5. RowFits(p, DOMAIN MapRegions) /\ InProvince(p)
    BY <1>3, <1>4 DEF RowFits, InProvince
  <1>6. QED
    BY <1>1, <1>4, <1>5, PlacedFits DEF Rows

LEMMA ChoosePlaceFits ==
  ASSUME IInv, NEW u \in Users, NEW a, NEW b, ChoosePlace(u, a, b)
  PROVE  IInv'
  <1> DEFINE p == AtRegion(a, b)
  <1>1. /\ pc = "up" /\ rows' = [rows EXCEPT ![u] = p] /\ {a, b} \subseteq DOMAIN regions \cup {Null}
        /\ UNCHANGED <<pc, regions, siteColumns, categories, domains, outdated>>
    BY DEF ChoosePlace, schema
  <1>2. {a, b} \subseteq DOMAIN MapRegions \cup {Null}
    BY <1>1, SweptIsMap DEF IInv, Swept
  <1>3. p.site = Null /\ p.sido = a /\ p.sigungu = b /\ p \in PlaceRecord
    BY <1>2, Provinces DEF AtRegion, PlaceRecord, Codes
  <1> HIDE DEF p
  <1>4. RowFits(p, DOMAIN MapRegions)
    BY <1>2, <1>3 DEF RowFits
  <1>5. u \in Rows /\ u \notin Reports
    BY StartupAssumption DEF Rows
  <1>6. QED
    BY <1>1, <1>3, <1>4, <1>5, PlacedFits

\* What is known of the database between any two steps of any start.
THEOREM Inductive == Spec => []IInv
  <1>1. IInv /\ [Next]_vars => IInv'
    <2> SUFFICES ASSUME IInv, [Next]_vars PROVE IInv'
      OBVIOUS
    <2>1. CASE Start \/ Die
      BY <2>1, QuietSteps
    <2>2. CASE OnStartup
      BY <2>2, QuietSteps, SeedRegionsFits, MoveRowsFits, DropMergedFits, FinalizeFits DEF OnStartup
    <2>3. ASSUME NEW r \in Reports, NEW c \in Sigungus, TakePlace(r, c)
          PROVE  IInv'
      BY <2>3, TakePlaceFits
    <2>4. ASSUME NEW u \in Users, NEW a, NEW b, ChoosePlace(u, a, b)
          PROVE  IInv'
      BY <2>4, ChoosePlaceFits
    <2>5. CASE UNCHANGED vars
      <3>1. UNCHANGED <<pc, regions, rows, siteColumns, categories, domains, outdated>>
        BY <2>5 DEF vars, schema, data
      <3>2. DoneSoFar'
        BY <3>1 DEF IInv, DoneSoFar
      <3>3. QED
        BY <3>1, <3>2, QuietFits
    <2>6. QED
      BY <2>1, <2>2, <2>3, <2>4, <2>5 DEF Next
  <1>2. QED
    BY <1>1, InitFits, PTL DEF Spec

-----------------------------------------------------------------------------
(* What follows *)

\* Whatever an older version left and wherever starts were cut off, a
\* process that serves has clean data: for every map and every merge, with
\* every report in its province and every user in regions that are there.
THEOREM AlwaysServesCleanData == Spec => []ServesCleanData
  <1>1. IInv => ServesCleanData
    <2> SUFFICES ASSUME IInv, pc = "up"
                 PROVE  /\ regions = MapRegions /\ categories /\ ~siteColumns /\ outdated = {}
                        /\ \A r \in Reports : rows[r].sigungu # Null =>
                             rows[r].sido = ParentOf(rows[r].sigungu)
                        /\ \A u \in Users :
                             {rows[u].sido, rows[u].sigungu} \subseteq DOMAIN MapRegions \cup {Null}
      BY DEF ServesCleanData
    <2>1. pc \in Swept /\ pc \in Moving
      BY DEF Swept, Moving
    <2>2. regions = MapRegions
      BY <2>1, SweptIsMap DEF IInv
    <2>3. categories /\ ~siteColumns /\ outdated = {}
      BY DEF IInv, DoneSoFar
    <2>4. ASSUME NEW r \in Reports, rows[r].sigungu # Null
          PROVE  rows[r].sido = ParentOf(rows[r].sigungu)
      <3>1. InProvince(rows[r]) /\ rows[r].sido \notin DOMAIN Merges
        BY <2>1 DEF IInv, RowsFit, Rows
      <3>2. QED
        BY <2>4, <3>1, Cities DEF InProvince
    <2>5. ASSUME NEW u \in Users
          PROVE  {rows[u].sido, rows[u].sigungu} \subseteq DOMAIN MapRegions \cup {Null}
      BY <2>2 DEF IInv, RowsFit, RowFits, Rows
    <2>6. QED
      BY <2>2, <2>3, <2>4, <2>5
  <1>2. QED
    BY <1>1, Inductive, PTL

\* No start, however often it is cut off, loses a place.
THEOREM PlaceAlwaysKept == Spec => PlaceIsKept
  <1> DEFINE Kept == pc # "up" =>
        \A r \in Rows : Place(rows[r]) # Null => Place(rows[r]') = Place(rows[r])
  <1>1. IInv /\ [Next]_vars => Kept
    <2> SUFFICES ASSUME IInv, [Next]_vars, pc # "up", NEW r \in Rows
                 PROVE  Place(rows'[r]) = Place(rows[r])
      OBVIOUS
    <2>1. rows[r] \in PlaceRecord /\ siteColumns \in BOOLEAN
      BY DEF IInv, RowsFit, RowFits, DoneSoFar
    <2>2. CASE UNCHANGED rows
      BY <2>2
    <2>3. CASE MoveRows
      <3>1. CASE rows[r].sido \in DOMAIN Merges
        <4>1. rows'[r] = [rows[r] EXCEPT !.sido = Merges[rows[r].sido]] \/ rows'[r] = rows[r]
          BY <2>3 DEF MoveRows
        <4>2. /\ rows'[r].sigungu = rows[r].sigungu /\ rows'[r].site = rows[r].site
              /\ rows'[r].sido \in {Merges[rows[r].sido], rows[r].sido}
          BY <2>1, <4>1 DEF PlaceRecord
        <4>3. ParentCode(rows'[r].sido) = ParentCode(rows[r].sido)
          BY <3>1, <4>2, Provinces
        <4>4. QED
          BY <4>2, <4>3 DEF Place
      <3>2. CASE rows[r].sido \notin DOMAIN Merges
        <4>1. rows'[r] = rows[r]
          BY <2>3, <3>2 DEF MoveRows
        <4>2. QED
          BY <4>1
      <3>3. QED
        BY <3>1, <3>2
    <2>4. CASE FinalizeMigration /\ pc' = "up"
      <3>1. PICK q \in PlaceRecord :
              /\ q \in {rows[r], Moved(rows[r])}
              /\ siteColumns = TRUE => q = Moved(rows[r])
              /\ siteColumns = FALSE => q = rows[r]
              /\ rows'[r] = WithoutSite(q)
        BY <2>4, FinalizeRows
      <3>2. CASE siteColumns = TRUE
        BY <2>1, <3>1, <3>2, MovedFits
      <3>3. CASE siteColumns = FALSE
        <4>1. rows[r].site = Null /\ rows'[r] = WithoutSite(rows[r])
          BY <3>1, <3>3 DEF IInv, RowsFit
        <4>2. /\ WithoutSite(rows[r]).site = rows[r].site /\ WithoutSite(rows[r]).sido = rows[r].sido
              /\ WithoutSite(rows[r]).sigungu = rows[r].sigungu
          BY <2>1, <4>1 DEF WithoutSite, PlaceRecord
        <4>3. QED
          BY <4>1, <4>2 DEF Place
      <3>4. QED
        BY <2>1, <3>2, <3>3
    <2>5. CASE FinalizeMigration /\ pc' # "up"
      BY <2>2, <2>5 DEF FinalizeMigration, Fails, data
    <2>6. ASSUME NEW x \in Reports, NEW c \in Sigungus, TakePlace(x, c)
          PROVE  FALSE
      BY <2>6 DEF TakePlace
    <2>7. ASSUME NEW u \in Users, NEW a, NEW b, ChoosePlace(u, a, b)
          PROVE  FALSE
      BY <2>7 DEF ChoosePlace
    <2>8. CASE DropMerged
      BY <2>2, <2>8 DEF DropMerged, Fails, data
    <2>9. CASE Start \/ Die \/ CreateAll \/ RunMigrations \/ SeedRegions
                 \/ SeedCategories \/ SeedDomains \/ Backfill
      BY <2>2, <2>9 DEF Start, Die, CreateAll, RunMigrations, SeedRegions, SeedCategories,
         SeedDomains, Backfill, data
    <2>10. CASE UNCHANGED vars
      BY <2>2, <2>10 DEF vars, data
    <2>11. QED
      BY <2>3, <2>4, <2>5, <2>6, <2>7, <2>8, <2>9, <2>10 DEF Next, OnStartup
  <1>2. IInv /\ [Next]_vars => [Kept]_vars
    BY <1>1
  <1>3. QED
    BY <1>2, Inductive, PTL DEF Spec, PlaceIsKept

==============================================================================
