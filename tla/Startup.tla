------------------------------ MODULE Startup -------------------------------
(***************************************************************************)
(* What src/app does before it serves (main.py, on_startup), on whatever   *)
(* database an older version left: it brings the schema up to date         *)
(* (migrate.py), writes the regions of the map and merges the ones that    *)
(* no longer exist (regions_seed.py), writes the categories (seed.py), and *)
(* moves reports and users from sites to regions.                          *)
(*                                                                         *)
(* The process may die between any two transactions, and dies of every     *)
(* statement that fails; Docker starts it again.  A transaction is one     *)
(* step: PostgreSQL changes a schema in transactions too.                  *)
(*                                                                         *)
(* The database of an older version is one with sites instead of regions,  *)
(* one with both, which a version that had the regions as they were before *)
(* the merge left when it died, one with such regions, or one of this      *)
(* version, which may be empty.                                            *)
(***************************************************************************)
EXTENDS Integers, FiniteSets

CONSTANTS
  Reports,      \* what has a place: reports ...
  Users,        \* ... and users
  Sidos,        \* codes of provinces on the map
  Sigungus,     \* codes of cities and districts on the map
  Prefix,       \* the first two characters of the latter: a province
  Merges,       \* _SIDO_MERGES: provinces that are part of another one now
  Sites,        \* the places of work that there were before
  SiteToRegion, \* _SITE_TO_REGION: the cities that the listed ones are in
  Laws,
  MaxRestarts,  \* bound: times that the process dies
  Null

ASSUME StartupAssumption ==
  /\ Prefix \in [Sigungus -> Sidos]
  /\ DOMAIN Merges \subseteq Sidos
  /\ \A s \in DOMAIN Merges : Merges[s] \in Sidos \ DOMAIN Merges
  /\ DOMAIN SiteToRegion \subseteq Sites
  /\ \A s \in DOMAIN SiteToRegion : SiteToRegion[s] \in Sigungus
  /\ Reports \cap Users = {} /\ Sidos \cap Sigungus = {} /\ MaxRestarts \in Nat
  /\ Null \notin Sidos \cup Sigungus \cup Sites

VARIABLES
  pc,          \* what on_startup does next, "up" when the process serves
  tables,      \* regions and the other new tables exist
  columns,     \* so do the columns that refer to them
  siteColumns, \* site_id exists still, with the table of sites
  regions,     \* regions: the parent of each code
  rows,        \* site_id, sido_code and sigungu_code of each report and user
  categories,  \* incident_categories is filled
  domains,     \* so is law_categories
  outdated,    \* laws with a category that the rules do not give them
  restarts     \* bookkeeping: times that the process died

Rows == Reports \cup Users

schema == <<tables, columns, siteColumns>>
data == <<regions, rows, categories, domains, outdated>>
vars == <<pc, schema, data, restarts>>

-----------------------------------------------------------------------------

\* _parent_code: where a province belongs today.
ParentCode(sido) == IF sido \in DOMAIN Merges THEN Merges[sido] ELSE sido
ParentOf(sigungu) == ParentCode(Prefix[sigungu])

\* The regions that an older version and this one write.
RegionsBefore ==
  [c \in Sidos \cup Sigungus |-> IF c \in Sidos THEN Null ELSE Prefix[c]]
MapRegions ==
  [c \in (Sidos \ DOMAIN Merges) \cup Sigungus |-> IF c \in Sidos THEN Null ELSE ParentOf(c)]

NoRegions == [c \in {} |-> Null]

NoPlace == [site |-> Null, sido |-> Null, sigungu |-> Null]
AtSite(s) == [NoPlace EXCEPT !.site = s]
AtRegion(sido, sigungu) == [site |-> Null, sido |-> sido, sigungu |-> sigungu]

\* The city of a report has been looked up and is in its province.  The codes
\* of a user are stored as the form sends them, each or none: that a region
\* has such a code is all that holds of them.
ReportsFit(rs, ps) ==
  \A r \in Reports : ps[r] \in {NoPlace} \cup {AtRegion(rs[c], c) : c \in Sigungus}
AnyPlaces(codes) == {AtRegion(a, b) : a, b \in codes \cup {Null}}

\* Foreign keys: rows and regions refer to codes that are there.
KeysHold(rs, ps) ==
  /\ \A r \in Rows : {ps[r].sido, ps[r].sigungu} \subseteq DOMAIN rs \cup {Null}
  /\ \A c \in DOMAIN rs : rs[c] \in DOMAIN rs \cup {Null}

OldSites ==
  /\ tables = FALSE /\ columns = FALSE /\ siteColumns = TRUE /\ regions = NoRegions
  /\ rows \in [Rows -> {AtSite(s) : s \in Sites}]
BothSchemas ==
  /\ tables = TRUE /\ columns = TRUE /\ siteColumns = TRUE /\ regions = RegionsBefore
  /\ rows \in [Rows -> {AtSite(s) : s \in Sites}]
OldRegions ==
  /\ tables = TRUE /\ columns = TRUE /\ siteColumns = FALSE /\ regions = RegionsBefore
  /\ rows \in [Rows -> AnyPlaces(Sidos \cup Sigungus)]
  /\ ReportsFit(regions, rows)
Current ==
  /\ tables = TRUE /\ columns = TRUE /\ siteColumns = FALSE
  /\ \/ regions = NoRegions /\ rows = [r \in Rows |-> NoPlace]
     \/ regions = MapRegions
        /\ rows \in [Rows -> AnyPlaces(DOMAIN MapRegions)]
        /\ ReportsFit(regions, rows)

Init ==
  /\ pc = "down" /\ restarts = 0
  /\ OldSites \/ BothSchemas \/ OldRegions \/ Current
  /\ categories = tables /\ domains \in {FALSE, tables}
  /\ outdated \in SUBSET Laws

-----------------------------------------------------------------------------
(* The process and its users *)

\* The container is restarted, perhaps from an image with other rules.
Start ==
  /\ pc = "down" /\ pc' = "create_all"
  /\ UNCHANGED <<schema, data, restarts>>

Die ==
  /\ pc # "down" /\ restarts < MaxRestarts
  /\ pc' = "down" /\ restarts' = restarts + 1
  /\ outdated' \in SUBSET Laws
  /\ UNCHANGED <<schema, regions, rows, categories, domains>>

\* A report takes a city, in the province that the city is in.
TakePlace(r, c) ==
  /\ pc = "up" /\ rows[r] = NoPlace
  /\ c \in DOMAIN regions /\ regions[c] # Null
  /\ rows' = [rows EXCEPT ![r] = AtRegion(regions[c], c)]
  /\ UNCHANGED <<pc, schema, regions, categories, domains, outdated, restarts>>

\* A user signs up or changes the settings.
ChoosePlace(u, sido, sigungu) ==
  /\ pc = "up" /\ {sido, sigungu} \subseteq DOMAIN regions \cup {Null}
  /\ rows' = [rows EXCEPT ![u] = AtRegion(sido, sigungu)]
  /\ UNCHANGED <<pc, schema, regions, categories, domains, outdated, restarts>>

\* A statement fails: the transaction is rolled back, on_startup raises.
Fails == pc' = "down" /\ UNCHANGED <<schema, data, restarts>>

-----------------------------------------------------------------------------
(* on_startup *)

CreateAll ==
  /\ pc = "create_all" /\ pc' = "migrate"
  /\ tables' = TRUE
  /\ UNCHANGED <<columns, siteColumns, data, restarts>>

\* run_migrations: the columns refer to the tables, which are there now.
RunMigrations ==
  /\ pc = "migrate" /\ pc' = "regions"
  /\ columns' = TRUE
  /\ UNCHANGED <<tables, siteColumns, data, restarts>>

\* Variant: what is there is left as it is.
SeedRegions_Missing ==
  /\ pc = "regions" /\ pc' = "sweep"
  /\ regions' = [c \in DOMAIN regions \cup DOMAIN MapRegions |->
                   IF c \in DOMAIN regions THEN regions[c] ELSE MapRegions[c]]
  /\ UNCHANGED <<schema, rows, categories, domains, outdated, restarts>>

\* seed_regions, until its commit: what is there is overwritten.
SeedRegions ==
  /\ pc = "regions" /\ pc' = "sweep"
  /\ regions' = [c \in DOMAIN regions \cup DOMAIN MapRegions |->
                   IF c \in DOMAIN MapRegions THEN MapRegions[c] ELSE regions[c]]
  /\ UNCHANGED <<schema, rows, categories, domains, outdated, restarts>>

\* _sweep_merged_sido: rows leave the provinces that are no more ...
MoveRows ==
  LET Gone == DOMAIN Merges \cap DOMAIN regions IN
  /\ pc = "sweep"
  /\ pc' = IF Gone = {} THEN "categories" ELSE "drop"
  /\ rows' = [r \in Rows |->
                IF rows[r].sido \in Gone THEN [rows[r] EXCEPT !.sido = Merges[@]] ELSE rows[r]]
  /\ UNCHANGED <<schema, regions, categories, domains, outdated, restarts>>

\* ... and then these provinces are deleted.
DropMerged ==
  LET left == [c \in DOMAIN regions \ DOMAIN Merges |-> regions[c]] IN
  /\ pc = "drop"
  /\ IF KeysHold(left, rows)
     THEN /\ pc' = "categories" /\ regions' = left
          /\ UNCHANGED <<schema, rows, categories, domains, outdated, restarts>>
     ELSE Fails

\* seed_reference_data, in three transactions.
SeedCategories ==
  /\ pc = "categories" /\ pc' = "domains"
  /\ categories' = TRUE
  /\ UNCHANGED <<schema, regions, rows, domains, outdated, restarts>>

SeedDomains ==
  /\ pc = "domains" /\ pc' = "backfill"
  /\ domains' = TRUE
  /\ UNCHANGED <<schema, regions, rows, categories, outdated, restarts>>

\* Variant: only laws without a category get one.
Backfill_Missing ==
  /\ pc = "backfill" /\ pc' = "finalize"
  /\ UNCHANGED <<schema, data, restarts>>

\* _backfill_law_categories: every law, again at every start.
Backfill ==
  /\ pc = "backfill" /\ pc' = "finalize"
  /\ outdated' = IF domains THEN {} ELSE Laws
  /\ UNCHANGED <<schema, regions, rows, categories, domains, restarts>>

\* _FINALIZE: a row without a city gets that of its site, if it is listed,
\* and the province that the code begins with.
Moved(p) ==
  IF p.site \in DOMAIN SiteToRegion /\ p.sigungu = Null
  THEN LET c == SiteToRegion[p.site] IN [p EXCEPT !.sigungu = c, !.sido = Prefix[c]]
  ELSE p
WithoutSite(p) == [p EXCEPT !.site = Null]

\* Variant: the columns of the sites go first.
Finalize_DropFirst ==
  /\ pc = "finalize" /\ pc' = "up"
  /\ rows' = [r \in Rows |-> Moved(WithoutSite(rows[r]))]
  /\ siteColumns' = FALSE
  /\ UNCHANGED <<tables, columns, regions, categories, domains, outdated, restarts>>

\* finalize_migration, which ends with dropping the columns of the sites.
FinalizeMigration ==
  LET placed == [r \in Rows |-> IF siteColumns THEN Moved(rows[r]) ELSE rows[r]] IN
  /\ pc = "finalize"
  /\ IF KeysHold(regions, placed)
     THEN /\ pc' = "up" /\ siteColumns' = FALSE
          /\ rows' = [r \in Rows |-> WithoutSite(placed[r])]
          /\ UNCHANGED <<tables, columns, regions, categories, domains, outdated, restarts>>
     ELSE Fails

-----------------------------------------------------------------------------

OnStartup ==
  \/ CreateAll \/ RunMigrations \/ SeedRegions \/ MoveRows \/ DropMerged
  \/ SeedCategories \/ SeedDomains \/ Backfill \/ FinalizeMigration

Next ==
  \/ Start \/ Die \/ OnStartup
  \/ \E r \in Reports, c \in Sigungus : TakePlace(r, c)
  \/ \E u \in Users, a, b \in Sidos \cup Sigungus \cup {Null} : ChoosePlace(u, a, b)

\* Docker restarts the container, and the process goes on unless it dies.
Spec == Init /\ [][Next]_vars /\ WF_vars(Start \/ OnStartup)

-----------------------------------------------------------------------------

(***************************************************************************)
(* Whatever the older version left and wherever an earlier start died, a   *)
(* process that serves has the regions of the map and no others, no rest   *)
(* of the sites, every report in the province that its city belongs to     *)
(* today, no user in a region that is no more, and laws in the categories  *)
(* of its own rules.                                                       *)
(***************************************************************************)
ServesCleanData ==
  pc = "up" =>
    /\ regions = MapRegions /\ categories /\ ~siteColumns /\ outdated = {}
    /\ \A r \in Reports : rows[r].sigungu # Null => rows[r].sido = ParentOf(rows[r].sigungu)
    /\ \A u \in Users : {rows[u].sido, rows[u].sigungu} \subseteq DOMAIN MapRegions \cup {Null}

(***************************************************************************)
(* No start loses where a report happened or where a user works: the city, *)
(* the listed site that will become one (migrate.py:126, 134), or, of a    *)
(* user without either, the province, be it as part of another one.        *)
(***************************************************************************)
Place(p) ==
  IF p.sigungu # Null THEN p.sigungu
  ELSE IF p.site \in DOMAIN SiteToRegion THEN SiteToRegion[p.site] ELSE ParentCode(p.sido)
PlaceIsKept ==
  [][pc # "up" =>
       \A r \in Rows : Place(rows[r]) # Null => Place(rows[r]') = Place(rows[r])]_vars

\* What stops every start: a row at a listed site in a merged province, see
\* SitesAreMoved, and a merged province where the city of a user should be.
InTheWay(p) ==
  \/ p.site \in DOMAIN SiteToRegion /\ Prefix[SiteToRegion[p.site]] \in DOMAIN Merges
  \/ p.sigungu \in DOMAIN Merges

(***************************************************************************)
(* From a database without such rows the process serves in the end, when   *)
(* it no longer dies of something else: neither another older database nor *)
(* a start that was cut off anywhere stops the starts that follow.         *)
(***************************************************************************)
ServesInTheEnd == (\A r \in Rows : ~InTheWay(rows[r])) => <>[](pc = "up")

(***************************************************************************)
(* migrate.py:126 and 135: data with sites is moved to regions "without    *)
(* loss", and the second start skips this as a whole.  With a site in a    *)
(* province that was merged away, no start ever gets there.                *)
(***************************************************************************)
SitesAreMoved == siteColumns ~> ~siteColumns

=============================================================================
