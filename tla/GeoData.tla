-------------------------------- MODULE GeoData --------------------------------
(***************************************************************************)
(* Country data: the sync with IFRC-GO (data_injector/geo.py), which is    *)
(* one transaction, the weekly command that flags the countries with       *)
(* preparedness messages, and an admin who edits a country.                *)
(*                                                                         *)
(* A country is known by its iso3, which IFRC-GO never gives to another    *)
(* id.  A division is matched by its id or by its name within its country, *)
(* and names do change.  Regions are listed with every country; names,     *)
(* translations, boxes, shapes and geocodes are columns that the sync only *)
(* writes, like region.                                                    *)
(***************************************************************************)
EXTENDS Integers, Sequences, FiniteSets, SequencesExt

CONSTANTS
  Iso, GeoRegion,
  DivisionId, DivisionName,  \* of IFRC-GO
  Pk,                        \* primary keys of divisions
  NoGeoRow, NoId, NoPage,       \* model values
  FlagRun,                   \* runs of the flag command
  UpdateChunk,               \* chunk_size of BulkUpdateManager
  MaxEdits                   \* bound of the changes of IFRC-GO

ASSUME GeoAssumption ==
  /\ UpdateChunk \in Nat \ {0} /\ MaxEdits \in Nat
  /\ NoGeoRow \notin [region: GeoRegion, flag: BOOLEAN]
  /\ NoGeoRow \notin [id: DivisionId \cup {NoId}, name: DivisionName, country: Iso]
  /\ NoId \notin DivisionId /\ IsFiniteSet(Pk)

VARIABLES
  countries,  \* [Iso -> row of Country or NoGeoRow]
  unknown,    \* countries with their 'Unknown' division
  divisions,  \* [Pk -> row of Admin1 or NoGeoRow]
  remote,     \* what IFRC-GO and preparemessages publish
  sync,       \* the transaction of a sync: its step, what it has read
  flagRuns,   \* [FlagRun -> step, ids of countries with messages]
  page,       \* the country form an admin has open
  edits,      \* changes of IFRC-GO
  calm        \* history: syncs committed since IFRC-GO last changed

geoVars == <<countries, unknown, divisions, remote, sync, flagRuns, page, edits, calm>>

CountryRow == [region: GeoRegion, flag: BOOLEAN]
Division == [id: DivisionId, name: DivisionName, country: Iso]
Feature == [id: DivisionId, name: DivisionName, country: Iso]
\* A feed of IFRC-GO names an id once, and a name once in a country.
FeatureSet == {F \in SUBSET Feature :
  /\ IsFiniteSet(F)
  /\ \A f, g \in F : f.id = g.id \/ f.name = g.name => f = g}
Published == [countries: SUBSET Iso, region: [Iso -> GeoRegion], features: FeatureSet,
              messages: SUBSET Iso]
NoSync == [step |-> "off", countries |-> {}, regions |-> {}, read |-> {}, stale |-> FALSE]
NoFlagRun == [step |-> "off", ids |-> {}, alone |-> FALSE]

GeoTypeOK ==
  /\ countries \in [Iso -> CountryRow \cup {NoGeoRow}] /\ unknown \subseteq Iso
  /\ divisions \in [Pk -> Division \cup {NoGeoRow}]
  /\ remote \in Published
  /\ sync.step \in {"off", "divisions"}
  /\ flagRuns \in [FlagRun -> [step: {"off", "mark", "unmark"}, ids: SUBSET Iso, alone: BOOLEAN]]
  /\ page = NoPage \/ page \in Iso \X CountryRow
  /\ edits \in 0 .. MaxEdits /\ calm \in 0 .. 2

GeoInit ==
  /\ countries = [c \in Iso |-> NoGeoRow] /\ unknown = {}
  /\ divisions = [k \in Pk |-> NoGeoRow]
  /\ remote \in Published
  /\ sync = NoSync
  /\ flagRuns = [q \in FlagRun |-> NoFlagRun]
  /\ page = NoPage /\ edits = 0 /\ calm = 0

--------------------------------------------------------------------------------
(***************************************************************************)
(* inject_admin1s on the rows it sees: st is its rows, the batch of the    *)
(* BulkUpdateManager and whether an exception was raised.                  *)
(***************************************************************************)
\* Sensitivity variant: 'name' left out of the fields of the manager.
WrittenWithoutName(row, f) == [row EXCEPT !.id = f.id, !.country = f.country]

WrittenDivision(row, f) == [row EXCEPT !.id = f.id, !.name = f.name, !.country = f.country]

\* The entries of the batch that write row k.
Whens(st, k) == {i \in DOMAIN st.batch : st.batch[i][1] = k}

FirstOne(places) == CHOOSE i \in places : \A j \in places : i <= j

\* Two rows have an id.
Clash(rows) ==
  \E j, k \in Pk : /\ j # k /\ rows[j] # NoGeoRow /\ rows[k] # NoGeoRow
                   /\ rows[j].id = rows[k].id /\ rows[j].id # NoId

\* bulk_update: one UPDATE whose first WHEN of a row counts; ifrc_go_id is unique.
FlushBatch(st) ==
  LET rows == [k \in Pk |-> IF Whens(st, k) = {} THEN st.rows[k]
                            ELSE WrittenDivision(st.rows[k], st.batch[FirstOne(Whens(st, k))][2])]
  IN [rows |-> rows, batch |-> <<>>, failed |-> Clash(rows)]

\* The rows of the country with the feature's id or name.
Matching(rows, f) ==
  {k \in Pk : rows[k] # NoGeoRow /\ rows[k].country = f.country
              /\ (rows[k].id = f.id \/ rows[k].name = f.name)}

\* get_or_create, MultipleObjectsReturned when two rows match, and mgr.add.
InjectDivision(st, f) ==
  LET M == Matching(st.rows, f)
      free == {k \in Pk : st.rows[k] = NoGeoRow}
      k == CHOOSE j \in (IF M = {} THEN free ELSE M) : TRUE
      rows == IF M # {} THEN st.rows
              ELSE [st.rows EXCEPT ![k] = [id |-> NoId, name |-> f.name, country |-> f.country]]
      added == [st EXCEPT !.rows = rows, !.batch = Append(@, <<k, f>>)] IN
  CASE st.failed -> st
    [] ~st.failed /\ Cardinality(M) > 1 -> [st EXCEPT !.failed = TRUE]
    [] OTHER -> IF Len(added.batch) < UpdateChunk THEN added ELSE FlushBatch(added)

InjectDivisions(order) ==
  LET st[n \in 0 .. Len(order)] ==
        IF n = 0 THEN [rows |-> divisions, batch |-> <<>>, failed |-> FALSE]
        ELSE InjectDivision(st[n - 1], order[n])
      end == st[Len(order)] IN
  IF end.failed THEN end ELSE FlushBatch(end)

--------------------------------------------------------------------------------
\* inject_regions and inject_countries: what GO lists, and the rows it is
\* matched with.
SyncCountries ==
  /\ sync.step = "off"
  /\ sync' = [step |-> "divisions", countries |-> remote.countries,
              regions |-> remote.region, read |-> countries, stale |-> FALSE]
  /\ UNCHANGED <<countries, unknown, divisions, remote, flagRuns, page, edits, calm>>

\* Sensitivity variant: country.save(), all columns as they were read.
SavedWhole(c) == [region |-> sync.regions[c],
                  flag |-> IF sync.read[c] = NoGeoRow THEN FALSE ELSE sync.read[c].flag]

\* bulk_update writes its fields; the flag is not one of them.
Saved(c) == [region |-> sync.regions[c],
             flag |-> IF countries[c] = NoGeoRow THEN FALSE ELSE countries[c].flag]

\* create_unknown_admin1, for the countries of C that are new.
CreatedUnknown(C) == {c \in C : countries[c] = NoGeoRow}

\* inject_admin1s over the features of the countries it has seen, in the order
\* of the files, inject_admin1s_geo_codes, and the end of the transaction: all
\* of it is committed, or an exception rolls all of it back.
SyncEnds(withDivisions) ==
  /\ sync.step = "divisions"
  /\ \E order \in SetToSeqs(IF withDivisions
                             THEN {f \in remote.features : f.country \in sync.countries} ELSE {}) :
       LET end == InjectDivisions(order) IN
       /\ Cardinality({k \in Pk : divisions[k] = NoGeoRow}) >= Len(order)
       /\ IF end.failed THEN UNCHANGED <<countries, unknown, divisions, calm>>
          ELSE /\ countries' = [c \in Iso |-> IF c \in sync.countries THEN Saved(c) ELSE countries[c]]
               /\ unknown' = unknown \cup CreatedUnknown(sync.countries)
               /\ divisions' = end.rows
               /\ calm' = IF sync.stale \/ ~withDivisions \/ calm = 2 THEN calm ELSE calm + 1
  /\ sync' = NoSync
  /\ UNCHANGED <<remote, flagRuns, page, edits>>

\* A request to IFRC-GO fails, or the command is killed: nothing is committed.
SyncFails ==
  /\ sync.step # "off"
  /\ sync' = NoSync
  /\ UNCHANGED <<countries, unknown, divisions, remote, flagRuns, page, edits, calm>>

RemoteEdit ==
  /\ edits < MaxEdits
  /\ remote' \in Published /\ remote' # remote
  /\ edits' = edits + 1
  /\ calm' = 0 /\ sync' = [sync EXCEPT !.stale = sync.step # "off"]
  /\ UNCHANGED <<countries, unknown, divisions, flagRuns, page>>

--------------------------------------------------------------------------------
Existing == {c \in Iso : countries[c] # NoGeoRow}
Others(q, alone) == [r \in FlagRun |-> IF r = q THEN alone ELSE [flagRuns[r] EXCEPT !.alone = FALSE]]

\* CountryCache, and the request for the countries with published messages.
FetchMessages(q) ==
  /\ flagRuns[q].step = "off"
  /\ flagRuns' = Others(q, [step |-> "mark", ids |-> remote.messages \cap Existing,
                            alone |-> \A r \in FlagRun : flagRuns[r].step = "off"])
  /\ UNCHANGED <<countries, unknown, divisions, remote, sync, page, edits, calm>>

SetFlags(C, value) ==
  countries' = [c \in Iso |-> IF c \in C /\ c \in Existing
                              THEN [countries[c] EXCEPT !.flag = value] ELSE countries[c]]

\* The two UPDATEs of handle, each a transaction.
MarkCountries(q) ==
  /\ flagRuns[q].step = "mark"
  /\ SetFlags(flagRuns[q].ids, TRUE)
  /\ flagRuns' = [flagRuns EXCEPT ![q].step = "unmark"]
  /\ UNCHANGED <<unknown, divisions, remote, sync, page, edits, calm>>

UnmarkOthers(q) ==
  /\ flagRuns[q].step = "unmark"
  /\ SetFlags({c \in Existing : ~(c \in flagRuns[q].ids /\ countries[c].flag)}, FALSE)
  /\ flagRuns' = [flagRuns EXCEPT ![q] = NoFlagRun]
  /\ UNCHANGED <<unknown, divisions, remote, sync, page, edits, calm>>

FlagRunFails(q) ==
  /\ flagRuns[q].step # "off"
  /\ flagRuns' = [flagRuns EXCEPT ![q] = NoFlagRun]
  /\ UNCHANGED <<countries, unknown, divisions, remote, sync, page, edits, calm>>

\* CountryAdmin: the form holds every column, the flag too.
OpenForm(c) ==
  /\ page = NoPage /\ c \in Existing
  /\ page' = <<c, countries[c]>>
  /\ UNCHANGED <<countries, unknown, divisions, remote, sync, flagRuns, edits, calm>>

SubmitForm ==
  /\ page # NoPage
  /\ countries' = [countries EXCEPT ![page[1]] = page[2]]
  /\ flagRuns' = [r \in FlagRun |-> [flagRuns[r] EXCEPT !.alone = FALSE]]
  /\ page' = NoPage
  /\ UNCHANGED <<unknown, divisions, remote, sync, edits, calm>>

GeoNext ==
  \/ SyncCountries \/ SyncFails \/ RemoteEdit \/ SubmitForm
  \/ \E all \in BOOLEAN : SyncEnds(all)
  \/ \E q \in FlagRun : FetchMessages(q) \/ MarkCountries(q) \/ UnmarkOthers(q) \/ FlagRunFails(q)
  \/ \E c \in Iso : OpenForm(c)

GeoSpec == GeoInit /\ [][GeoNext]_geoVars

--------------------------------------------------------------------------------
\* Every country has the division that ingestion falls back to ('Unknown',
\* apps/cap_feed/formats/cap_xml.py), from the commit that creates it.
CountryHasUnknown == Existing \subseteq unknown

\* A run of the flag command that no other run and no admin crosses leaves the
\* flags as preparemessages published them, whatever a sync committed meanwhile.
FlagsFollowRun ==
  [][\A q \in FlagRun :
       flagRuns[q].alone /\ UnmarkOthers(q) =>
         \A c \in Existing : countries'[c].flag <=> c \in flagRuns[q].ids]_geoVars

\* Two syncs that are committed while IFRC-GO does not change leave exactly one
\* row with the id and name of each of its divisions: the first may lose one
\* whose name another division had before.
SyncSettles ==
  calm = 2 /\ sync.step = "off" =>
    \A f \in remote.features : f.country \in remote.countries =>
      Cardinality({k \in Pk : divisions[k] = f}) = 1

\* However syncs fail and names change, the rows that ingestion looks up come to be
\* those of IFRC-GO, one for each division and one 'Unknown' for each country.
CountryDataSettles == CountryHasUnknown /\ SyncSettles

================================================================================
