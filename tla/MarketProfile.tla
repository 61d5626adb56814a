--------------------------- MODULE MarketProfile ----------------------------
(***************************************************************************)
(* Trading calendars, the market data profile that binds a dataset version *)
(* to a calendar version, and what is read through it                      *)
(* (market_data/calendar_service.py, calendar_persistence.py,              *)
(* profile_service.py, profile_persistence.py, consumption.py,             *)
(* datasets/query.py), with the paper sessions that freeze a binding       *)
(* (paper/service.py).                                                     *)
(*                                                                         *)
(* A calendar file is imported in one step: only its upload is awaited,    *)
(* the rest runs on the event loop.  Profiles are bound and read on the    *)
(* thread pool: the row is read in one step and written in another, where  *)
(* the ORM writes the columns that differ from what it read and no others. *)
(*                                                                         *)
(* Published versions never change, so that a check of one may be taken    *)
(* together with the step that follows it.  The audit rows of a profile,   *)
(* which nothing reads, are left out.                                      *)
(*                                                                         *)
(* A definition named after the one that follows it is a faulty variant.   *)
(***************************************************************************)
EXTENDS Integers, Sequences, FiniteSets, FiniteSetsExt, Functions

CONSTANTS
  Clients,      \* requests in progress
  Calendars,
  Zones,        \* the time zones of calendars
  Files,        \* the calendar files that are uploaded: sequences of rows
  Versions,     \* dataset versions
  Owner,        \* the dataset of each
  Bars,         \* the instrument and the day of the bars of each: pairs of numbers
  Limit,        \* how many rows a query returns at most
  MaxTables     \* bound: calendar versions

ASSUME ProfileAssumption ==
  /\ Limit \in Nat
  /\ \A file \in Files : \A r \in DOMAIN file : file[r].day \in Int
  /\ \A v \in Versions : Bars[v] \subseteq Int \X Int

VARIABLES
  zone,         \* TradingCalendarModel: the time zone of each that exists
  tables,       \* TradingCalendarVersionModel with its TradingCalendarSessionModel rows
  orphans,      \* uploads that were left behind, with the calendar they were meant for
  published,    \* the dataset versions that are PUBLISHED
  damaged,      \* those with a file that is missing or altered
  profile,      \* MarketDataProfileModel: its binding, or Unbound
  request       \* what each request has read, or the session it created

calendarVars == <<zone, tables, orphans>>
datasetVars == <<published, damaged>>
profileVars == <<calendarVars, datasetVars, profile, request>>

-----------------------------------------------------------------------------
None == "none"
Unbound == [dataset |-> None]
NoRequest == [at |-> "idle"]
Datasets == {Owner[v] : v \in Versions}

\* The identity of a calendar version is that of the calendar and its number.
Key(table) == <<table.calendar, table.number>>
Keys == {Key(table) : table \in tables}
TableOf(key) == CHOOSE table \in tables : Key(table) = key

ProfileInit == /\ zone = [k \in Calendars |-> None]
               /\ tables = {} /\ orphans = {}
               /\ published = {} /\ damaged = {}
               /\ profile = Unbound
               /\ request = [c \in Clients |-> NoRequest]

AtStep(c, step) == request[c].at = step
Goes(c, next) == request' = [request EXCEPT ![c] = next]
Returns(c) == Goes(c, NoRequest)

-----------------------------------------------------------------------------
(* Calendars. *)

CreateCalendar(k, z) ==
  /\ zone[k] = None
  /\ zone' = [zone EXCEPT ![k] = z]
  /\ UNCHANGED <<tables, orphans, datasetVars, profile, request>>

\* A row is [day, open, timed, legible]: legible says that its fields parse
\* and timed which of its two times are given.
Sound(file) ==
  /\ \A r \in DOMAIN file : /\ file[r].legible
                            /\ file[r].timed = IF file[r].open THEN "both" ELSE "none"
  /\ IsInjective([r \in DOMAIN file |-> file[r].day])

\* What the fingerprint is taken of: the rows in the order of the file.
Same(table, k, file) == table.zone = zone[k] /\ table.file = file
Owned(k, file) == \E table \in tables : table.calendar = k /\ Same(table, k, file)
Taken(file, k) == \E table \in tables : Same(table, k, file)

NumberOverall(k) == 1 + Cardinality(tables)
Number(k) == 1 + Max({0} \cup {table.number : table \in {t \in tables : t.calendar = k}})

\* Refused files and known tables are answered; a table that another calendar
\* has runs into the unique fingerprint, an error that nothing catches and
\* that leaves the upload behind.
Refused(k, file) == zone[k] = None \/ ~ Sound(file) \/ Owned(k, file)

Import(k, file) ==
  /\ ~ Refused(k, file)
  /\ \/ /\ Taken(file, k)
        /\ orphans' = orphans \cup {<<k, file>>}
        /\ UNCHANGED tables
     \/ /\ ~ Taken(file, k) /\ Cardinality(tables) < MaxTables
        /\ tables' = tables \cup {[calendar |-> k, number |-> Number(k),
                                   zone |-> zone[k], file |-> file]}
        /\ UNCHANGED orphans
  /\ UNCHANGED <<zone, datasetVars, profile, request>>

-----------------------------------------------------------------------------
(* Dataset versions, as far as they are seen here. *)

PublishVersion(v) == /\ published' = published \cup {v}
                     /\ UNCHANGED <<calendarVars, damaged, profile, request>>

\* Something outside the program removes or alters a published file.
Damage(v) == /\ v \in published
             /\ damaged' = damaged \cup {v}
             /\ UNCHANGED <<calendarVars, published, profile, request>>

-----------------------------------------------------------------------------
(* Binding a profile. *)

Binding == [dataset : Datasets, version : Versions, calendar : Calendars, table : Keys]

OwnedVersion(b) == Owner[b.version] = b.dataset
OwnedTable(b) == b.table[1] = b.calendar
ValidStaged(b) == OwnedVersion(b) /\ OwnedTable(b)
Valid(b) == /\ OwnedVersion(b)
            /\ b.version \in published \ damaged
            /\ OwnedTable(b)

CreateProfile(b) ==
  /\ Valid(b) /\ profile = Unbound
  /\ profile' = b
  /\ UNCHANGED <<calendarVars, datasetVars, request>>

Columns == {"dataset", "version", "calendar", "table"}

\* The columns the ORM will write: those that differ from the row it loaded.
Dirty(b) == Restrict(b, {column \in Columns : b[column] # profile[column]})

UpdateRead(c, b) ==
  /\ AtStep(c, "idle") /\ Valid(b) /\ profile # Unbound
  /\ Goes(c, [at |-> "write", set |-> Dirty(b)])
  /\ UNCHANGED <<calendarVars, datasetVars, profile>>

UpdateWrite(c) ==
  LET set == request[c].set IN
  /\ AtStep(c, "write")
  /\ profile' = [column \in Columns |->
                   IF column \in DOMAIN set THEN set[column] ELSE profile[column]]
  /\ Returns(c)
  /\ UNCHANGED <<calendarVars, datasetVars>>

-----------------------------------------------------------------------------
(* Reading through a profile. *)

\* Both lookups go by the pair of identities that the profile holds.
Found == OwnedVersion(profile) /\ OwnedTable(profile)

Health == CASE ~ Found -> "NOT_FOUND"
            [] Found /\ profile.version \in damaged -> "PUBLISHED_DATASET_INCONSISTENT"
            [] OTHER -> "READY"

In(day, start, end) == start <= day /\ day <= end

\* ORDER BY ... LIMIT: the rows with fewer than Limit rows before them.
FirstDays(days) == {day \in days : Cardinality({d \in days : d < day}) < Limit}

OpenDays(file) == {file[r].day : r \in {q \in DOMAIN file : file[q].open}}
AllDays(file) == {file[r].day : r \in DOMAIN file}

SessionsExclusive(file, start, end) ==
  FirstDays({day \in OpenDays(file) : start <= day /\ day < end})
Sessions(file, start, end) ==
  FirstDays({day \in OpenDays(file) : In(day, start, end)})

AllInstruments == 0
Earlier(x, y) == x[1] < y[1] \/ (x[1] = y[1] /\ x[2] < y[2])
FirstBars(bars) == {bar \in bars : Cardinality({x \in bars : Earlier(x, bar)}) < Limit}
BarsOf(v, instrument, start, end) ==
  FirstBars({bar \in Bars[v] : /\ instrument = AllInstruments \/ bar[1] = instrument
                               /\ In(bar[2], start, end)})

\* The calendar spans the bars of the whole version.
Spans(file, v) ==
  \/ AllDays(file) = {} \/ Bars[v] = {}
  \/ LET days == {bar[2] : bar \in Bars[v]} IN
     Min(AllDays(file)) <= Min(days) /\ Max(days) <= Max(AllDays(file))

Coverage(instrument, start, end) ==
  LET file == TableOf(profile.table).file
      sessions == Sessions(file, start, end)
      days == {bar[2] : bar \in BarsOf(profile.version, instrument, start, end)}
  IN CASE ~ Found -> [status |-> "NOT_FOUND"]
       [] Found /\ (~ Spans(file, profile.version) \/ sessions = {})
          -> [status |-> "CALENDAR_COVERAGE_INCOMPLETE"]
       [] Found /\ Spans(file, profile.version) /\ sessions # {}
          -> IF profile.version \in damaged
             THEN [status |-> "PUBLISHED_DATASET_INCONSISTENT"]
             ELSE [status |-> IF days \subseteq sessions THEN "READY" ELSE "DATASET_INCONSISTENT",
                   missing |-> sessions \ days, outside |-> days \ sessions]

\* create_session reads the profile, and the snapshot reads it again.
SessionRead(c) ==
  /\ AtStep(c, "idle") /\ profile # Unbound
  /\ Goes(c, [at |-> "freeze", dataset |-> profile.dataset])
  /\ UNCHANGED <<calendarVars, datasetVars, profile>>

\* The snapshot of the new session never changes, and nothing here reads it:
\* it is kept until its request is over.
SessionFreeze(c) ==
  /\ AtStep(c, "freeze")
  /\ \/ ~ Found /\ Returns(c)
     \/ /\ Found
        /\ Goes(c, [at |-> "created", dataset |-> request[c].dataset,
                    version |-> profile.version, table |-> profile.table])
  /\ UNCHANGED <<calendarVars, datasetVars, profile>>

SessionRespond(c) == /\ AtStep(c, "created") /\ Returns(c)
                     /\ UNCHANGED <<calendarVars, datasetVars, profile>>

-----------------------------------------------------------------------------
ProfileNext == \/ \E k \in Calendars, z \in Zones : CreateCalendar(k, z)
               \/ \E v \in Versions : PublishVersion(v) \/ Damage(v)
               \/ \E b \in Binding : CreateProfile(b)
               \/ \E k \in Calendars, file \in Files : Import(k, file)
               \/ \E c \in Clients : \/ \E b \in Binding : UpdateRead(c, b)
                                     \/ UpdateWrite(c)
                                     \/ SessionRead(c) \/ SessionFreeze(c) \/ SessionRespond(c)

ProfileSpec == ProfileInit /\ [][ProfileNext]_profileVars

-----------------------------------------------------------------------------
ProfileTypeOK ==
  /\ zone \in [Calendars -> Zones \cup {None}]
  /\ tables \subseteq [calendar : Calendars, number : 1 .. Cardinality(tables), zone : Zones,
                       file : Files]
  /\ orphans \subseteq Calendars \X Files
  /\ published \subseteq Versions /\ damaged \subseteq published
  /\ profile \in Binding \cup {Unbound}
  /\ request \in [Clients -> {NoRequest}
                \cup [at : {"write"}, set : UNION {{Restrict(b, cols) : cols \in SUBSET Columns} :
                                                  b \in Binding}]
                \cup [at : {"freeze"}, dataset : Datasets]
                \cup [at : {"created"}, dataset : Datasets, version : Versions, table : Keys]]

\* In whatever order imports come, the versions of a calendar are numbered from
\* one without a gap, no table is stored twice, in the same calendar or in
\* two, each is one a consumer can rely on (a day once, times where the market
\* opens), and an upload is only left behind when another calendar has its
\* table (create_version, import_csv, import_calendar).
VersionsNumbered ==
  \A k \in Calendars : LET own == {t \in tables : t.calendar = k} IN
    {t.number : t \in own} = 1 .. Cardinality(own)
TablesAreUnique ==
  \A s, t \in tables : s.zone = t.zone /\ s.file = t.file => s = t
TablesAreUsable ==
  \A t \in tables : \A p, q \in DOMAIN t.file :
    /\ t.file[p].open <=> t.file[p].timed = "both"
    /\ t.file[p].day = t.file[q].day => p = q
OrphansAreForeign ==
  \A o \in orphans : \E t \in tables : t.calendar # o[1] /\ t.file = o[2]
ImportsAreSound == VersionsNumbered /\ TablesAreUnique /\ TablesAreUsable /\ OrphansAreForeign

\* Whatever updates interleave, a profile and the snapshot of a session name a
\* dataset version that was published and a calendar version that exists:
\* every column that is written comes from a binding that was checked
\* (profile_service.py _validate_bindings, profile_persistence.py).
BoundToPublished ==
  /\ profile # Unbound => profile.version \in published /\ profile.table \in Keys
  /\ \A c \in Clients : AtStep(c, "created") =>
       request[c].version \in published /\ request[c].table \in Keys

\* What coverage answers for one instrument and a range of at most Limit days
\* is exact: neither limit cuts anything off.  The days without a bar are the
\* open sessions on which it has none, the others are those of its bars that
\* are on no open session, and the answer is READY just when there are none
\* (consumption.py coverage).  A question about all instruments has no such
\* answer.  And health is READY when coverage finds all that it reads, and
\* only then when it has something to answer.
CoverageIsExact ==
  profile # Unbound =>
    \A start \in 1 .. 3 : \A end \in start .. 3, instrument \in 1 .. 2 :
      LET rows == TableOf(profile.table).file
          range == start .. end
          traded == {day \in range : <<instrument, day>> \in Bars[profile.version]}
          open == {day \in range : \E r \in DOMAIN rows : rows[r].open /\ rows[r].day = day}
          answer == Coverage(instrument, start, end)
          answered == answer.status \in {"READY", "DATASET_INCONSISTENT"}
      IN /\ answered => Health = "READY"
         /\ Health = "READY" => answered \/ answer.status = "CALENDAR_COVERAGE_INCOMPLETE"
         /\ answered /\ Cardinality(range) <= Limit =>
              /\ answer.missing = open \ traded
              /\ answer.outside = traded \ open
              /\ answer.status = "READY" <=> traded \subseteq open

\* A profile's versions are those of its own dataset and calendar.  With three
\* tables two overlapping rebindings, each valid, refute it: the update writes
\* the columns that differ from what it read.
BindingsAreWhole == profile # Unbound => Found
=============================================================================
