# TLA+ models of Enpiro

Enpiro records environmental observations on a Raspberry Pi (`src/native`, a C
recorder started by a systemd timer), keeps them in one SQLite file as a graph of
Symbols and Terms (`src/core`), and serves them with Django (`src/measurements`) to
a dashboard that keeps its own copy in IndexedDB
(`src/measurements/static/measurements`). This directory holds models of the parts
of it whose correctness depends on the order of things or on the encoding of data, the
TLC runs that check them, and proofs of every safety property that the passing runs
check. Run the tools in this directory:
`tlc -config store.cfg MCSubstrateStore.tla`, `tlapm SubstrateStoreProofs.tla`.

## 1. Inventory

| Component | State | Operations | What makes it correct |
|---|---|---|---|
| The SQLite file | committed pages, locks SHARED/RESERVED/PENDING | read, write, COMMIT, ROLLBACK, crash recovery | external; everything else meets here |
| Substrate store, Django (`core/models.py`, `measurements/services.py`, commands) | `core_symbol`, `core_term`, `core_termsymbol` | `record_sensor`, `import_readings_csv`, `reset_dataset`, all through `resolve_clear` | one Term per content, Terms whole or absent, ids never reused, an import only into an empty dataset |
| Native store (`native/enpiro_store.c`, `enpiro_record.c`) | the same tables, its own schema creation | `ep_store_open`, `ep_store_resolve_term`, `ep_store_query_environment` | agrees with the Django store on all of that |
| History, latest, CSV export (`measurements/repository.py`, `views.py`) | a cursor, a chunk, none of it in a transaction | history, latest, export | only what was stored, only in the range, nothing dropped |
| Legacy upgrade (`core/migrations/0002_*`) | core and legacy tables, `django_migrations` | one non-atomic script, one index | no row lost, half a conversion never taken for a whole one |
| Data migrations (`measurements/migrations/0002`-`0005`) | relations of old Terms, QuickCheckIndex | index, mark, add the source | every old observation decodes to the same values |
| Term lookups (`core/models.py`, `native/enpiro_store.c`) | none | `_find_exact`, `ep_find_exact_term`, candidates by order 1 | both find the same Terms, a range selects its observations |
| Dashboard (`dashboard.js`, `data-cache.js`) | readings in memory, graphs, label, IndexedDB | load, poll, reset, select a range, restore | shows the server's data of the range; its copy can be recovered |
| Codecs (`semantic.py`, `enpiro_environment.c`, `air_quality.py`) | none | encode, decode | decode after encode, order of timestamps |
| Averaging (`bme690_sensor.py`, `native/record_sensor.py`) | the samples of one collection | `collect_average`, `average_without_outliers`, both recording commands | a minority of samples cannot distort the result; both commands store the same units unless a mean lies halfway between two |
| Reset authorization, settings, templates, deployment | configuration | - | - |

How they interact: the recorder, the management commands and the web worker are
separate processes that share nothing but the SQLite file; what one does between two
statements of another is bounded only by SQLite's locks. The web process answers HTTP
requests of any number of browsers. In a browser every `await` of the dashboard lets
its other handlers run, and responses return in any order.

What is hard to test: the two "look up, then insert" implementations against each other
and against reset and import; failures and crashes between two inserts; lock waits,
where a connection may fail at once, wait five seconds, or wait while it blocks
others; reads in several statements while the data changes; the upgrade script
interrupted after any statement, or beside a running recorder; data migrations that
renumber relations in place, killed and run again while old and new versions write;
blobs of one kind of Term compared with those of another; overlapping loads, polls and
resets of the dashboard, and IndexedDB transactions that trail behind memory.
`PROJECT.json`, "hazards", lists each at its line.

## 2. Plan

| Order | Module | Status |
|---|---|---|
| 1 | `SqliteFile`: locks and images of the shared file | done |
| 2 | `TermStore`: what the substrate promises (abstract) | done |
| 3 | `SubstrateStore`: every writer and reader, statement by statement; implements `TermStore` | done |
| 4 | `SubstrateStoreProofs`: types, locks, uniqueness, completeness, stable ids | done |
| 5 | `HistoryReads`: what history and export return, over `SubstrateStore` | done |
| 6 | `LegacyUpgrade`: the non-atomic upgrade, crashes, reruns, recorder | done |
| 7 | `DashboardCache`: one page and its IndexedDB | done |
| 8 | `Codecs`, `Retrieval`: blobs, ranges, the latest reading, both exact lookups | done |
| 9 | `EnvironmentMigration`, `Readings`: 0002 to 0005 over Terms of all shapes, and what readers see | done |
| 10 | `RobustAverage`: from samples to stored units | done |
| 11 | `StoreRefinementProofs`, `HistoryReadsProofs`: the store implements its contract; snapshots, exports without gaps | done |
| 12 | `LegacyUpgradeProofs`, `DashboardCacheProofs`, `RobustAverageProofs` | done |
| 13 | `CodecsProofs`: numbers, blobs and observations restored, for every value | done |
| 14 | `ReadingsProofs`: the data migrations, the lookups, ranges and the latest reading | done |

`Readings` composes `EnvironmentMigration` with `Retrieval`, both over `Codecs`;
`HistoryReads` composes the readers with `SubstrateStore`, over `SqliteFile`. What is left:
a second tab over the same IndexedDB (7), and the recorder's schema as the first one in
a new file (6).

## 3. Modules

### SqliteFile (external)
`db` is the committed image, `work` the image of the writer, `shared`, `writer` and
`pending` are the locks of the rollback journal, the mode of a file nobody switched to
WAL. A statement that reads outside a transaction takes and gives up SHARED within its
own step. `Rollback` is also the death of a process: its locks go with it, and the next
reader plays the journal back. `Image(p)` reads `db` without asking for a lock, so
isolation is a result (`RepeatableRead` in the proofs), not an assumption.

### TermStore (abstract)
Requests with answers. Each takes effect in one step (`Record`, `Import`, `Reset`,
`Read`) or not at all (`Refuse`, `Vanish`). A recording answers with the Term that
holds the observation, an import happens only into an empty store and completely, a
reset says how many Terms it has deleted and leaves their ids used up.

### SubstrateStore
One `pc` per process, one action per SQL statement, named after the function that
issues it. Data is abstracted to what the properties tell apart: a Symbol is its blob
(the column is UNIQUE), a Term is `[id, content]`, a relation is a place in `content`.
Relations of one Term are inserted in one step, because they are inserted within one
transaction and no statement in between can be seen.

- *Recorder.* `NativeOpen` to `NativeCommit` follow `ep_store_open` and
  `ep_store_resolve_term`. It sets no busy timeout: a lock it cannot have is a failure.
- *record_sensor and import.* `SelectSymbols`, `InsertSymbols`, `FindExact`,
  `InsertTerm`, `InsertRelations` follow `resolve_clear`, with its shortcut (a new
  Symbol makes the lookup superfluous). The import holds one transaction over all rows.
- *reset.* `CountTerms`, `DeleteTerms`, `DeleteOrphans`; a queryset that selects nothing
  issues no DELETE, hence takes no RESERVED.
- *COMMIT.* With readers around, a dirty transaction goes PENDING and waits. `TimeOut`
  is the end of the five seconds. The upgrade from SHARED to RESERVED does not wait:
  SQLite refuses it at once, since waiting could not help.
- *Abort* is any exception or I/O error, *Crash* the death of the process, at any
  statement. COMMIT and the answer are one step: a crash between them is not separate.

Ids are those of the tables that Django creates, whose keys are AUTOINCREMENT: a deleted
id is not used again. Errors after which SQLite itself rolls the transaction back are not
modelled beyond `Abort`.

### HistoryReads
Adds the reader's data to `SubstrateStore`: the Terms found, fetched and decoded. A
history fetches all ids in one statement and reads their Symbols in another; an export
alternates, `ChunkSize` at a time, and its cursor keeps SHARED until the last row is
fetched. When Python closes a cursor whose last chunk was full differs between
versions: both are allowed. `snapshot` is a history variable.

### LegacyUpgrade
`Script` holds the statements of `simplify_legacy_substrate` in order; each commits by
itself (`atomic = False`). `core` and `legacy` are functions whose domain is the set of
tables that exist. `AlreadySimple`, `Simplify` and `Refuse` are the three outcomes of
the checks at its beginning, in the code's order. The recorder's steps are
`ep_initialize_schema`, one per CREATE, and one for its transaction, which needs three
tables of the new schema (the legacy columns it does not fill are NOT NULL: the legacy
schema is known only through the upgrade). `committed` is a history variable: every row
of the database found, and every reading stored since. The two key tables that the
script drops last are left out: no row that is kept refers to them.

### DashboardCache
A reading is its time; a range is the set of times it selects; the server's clock is
the newest reading. `observations` is the page's map, `shown` what the graphs hold,
`label` the range named above them, `queue` the IndexedDB transactions that were asked
for and have not run. Loads are cut at `fetch`, `deleteMany` and `putMany`; after
`fetch` the bounds are read again, as in the code. A poll and a reset are cut at their
`fetch` and their write. Transactions over one object store run in the order they were
created. `Answer` includes the retention of the history endpoint, scaled down.
`initialReadings` is left out, since the server always sends an empty list
(`views.py`, `dashboard`). One page only; a range dialog that changes the selection
without submitting it is `Edit`.

### Codecs
Pure operators on blobs. A blob is a sequence of bytes, a byte has `Base` values, widths
and positions are the code's. `Pack`, `Unsigned` and `Signed` are `struct.pack` and
`unpack` with ">"; `HalfUp` is `ROUND_HALF_UP` and C's `round`: ties go away from zero.
Measurements are integers in hundredths of a unit. A Term is a function from orders to
blobs. `EncodeObservation` and `DecodeObservation` have both profiles (a pressure of four
bytes marks the older, precise one). A decoder fails in two ways that differ in what
readers do: `Refused` is the ValueError they skip, `Breaks` the struct.error or
OverflowError they do not expect.

### EnvironmentMigration
The four data migrations of `measurements`, each one transaction, cut at every save.
`PopulateIndex` is 0002 with its batches and its own decoder (`IndexRow`); `Mark`,
`MoveAway`, `MoveBack` and `InsertMarker` are 0003 and 0004, one `relation.save` at a
time under UNIQUE(term, order); `ReplaceMarker` is 0005. `Refuse` is the IntegrityError,
`Crash` the death of the command; both roll back. `Add` writes a Term between two
migrations; `Timely` says which versions may still write then: old code until 0004
is applied (0004 exists because 0003 may have run before the data arrived), the code that
marked until 0005. `origin` remembers what each Term was written as.

### Retrieval
Which Terms a query selects, in which order, and what a decoding error does:
`Candidates` compares the blobs at order 1 as bytes; `History` skips what is refused;
`IsLatest` is the first of the `Window` newest candidates that is not refused.
`DjangoFinds` and `NativeFinds` are the two exact lookups by their own criteria.

### Readings
No actions of its own: the readers and lookups of `Retrieval` at every commit of
`EnvironmentMigration`, hence over every database that migrations can leave behind.
`Writable` (in `EnvironmentMigration`) says what the encoders of each version can have
written, and `Foreign` which other Terms may lie among them: none that a reader or a
migration would take for an observation. `Exported` is a row of the CSV file, which has
no column for the source; `Imported` is the observation that `import_readings_csv` makes
of it, `Restored` what is read of that once it is encoded, if it is `Importable`.

### RobustAverage
One collection: `Start`, `Read` per sample, `NoReading` for the driver's TimeoutError,
`Average` with the modified z-score per field, `Record` and `RecordNatively` for the two
commands, `End`. Quotients are avoided: medians and deviations are compared in multiples
(`TwiceMedian`, `FourMad`), and the constants 0.6745 and 3.5 are integers over 10000. An
average is a sum, a count and a drift per field, the error of the float that the code
computes: any number of `Steps`-ths of a millionth up to `Drift` of them, of either sign
(`AveragesOf`). `DjangoUnits` rounds the drifted float as it is, `NativeUnits` by way of
the six decimals it is printed with. The comparison of a score with the threshold is
exact.

## 4. Runs

| Run | Bounds | Distinct states | Shows |
|---|---|---|---|
| `store` | 3 processes, one per role; 3 contents, two of them the same Symbols in another order; 3 files; writes start below 2 ids | 38,669 | `TypeOK`, `UniqueContent`, `GraphComplete`, `StableReferences`, that `SubstrateStore` implements `TermStore` (`ImplementsStore`), and `EveryRequestAnswered` |
| `reads` | a web worker that reads or resets, one that only resets, a recorder; chunks of 1; writes start below 3 ids | 195,122 | `ReadTypeOK`, `ReadsWithinSnapshot`, `ExportKeepsFullChunks`, `EveryReadAnswered` |
| `upgrade` | 13 initial databases with and without the index, 2 runs, 1 crash, recorder on | 17,191 | `NoRowLost`, `UnsupportedStaysPut`, `UpgradeCompletes` |
| `dashboard` | 2 readings, 2 loads, 1 poll, 1 reset at a time; 1 fault, 1 edit | 1,431,287 | `RecoverableAfterClose`, `ViewIsCurrent` |
| `dashboard_resume` | 2 readings, 1 fault, no edit | 473,675 | `ViewReconciles` |
| `readings` | bytes of 4 values; 6 databases of 2 or 3 Terms, 4 additions, at most 5 Terms, 2 crashes, batches of 2, a window of 2; ranges from and to 5, 6, 8, an instant before 1970, or open | 35,869 | `ReadingsSurvive`, `NothingMisread`, `NoSaveRefused`, `IndexMirrorsReadings`, `RangeIsExact`, `ExportIsChronological`, `LatestIsNewest`, `LookupsAgree`, `ExportRestores` |
| `sensor` | 6 different samples, 5 or 6 per collection, threshold 3.5; a drift of none or a third of a millionth, of either sign | 2,925,443 | `OneNoisyFieldNeverStarves`, `MinorityCannotDistort`, `PathsDifferOnlyOnTies` |
| `upgrade_crash` | 2 runs, 1 crash, no recorder | violation | the half-converted database is recorded as converted |
| `dashboard_polling` | as `dashboard_resume`, without Resume's fairness and without faults | violation | polling alone never reconciles |
| `dashboard_private` | no IndexedDB | violation | a successful response is not drawn |
| `latest_malformed` | one reading, Terms with a pressure of 3 bytes | violation | no latest reading, although the window holds one |
| `export_source` | two observations of one instant, from two sources | violation | an export and its import make one observation of them |

Each passing run also checks the type invariant of its module, and evaluates the
assumptions on the constants that the proofs use.

Why the bounds are enough. *Store*: one process per role gives every pair of operations
in every interleaving; two processes of one role add nothing that a recorder and a
command do not, because the statements under a lock are what matters, and the theorems
hold for any number. Two ids allow a Term, a reset, and a Term after it, or an import of
two. *Reads*: three ids and chunks of one give a first, a middle and a last chunk around
a reset and a refill. Readers do not disturb one another: the second worker only resets
(`OneReader`), and the theorems hold without that. The deployed service has one web
worker (`deploy/systemd/enpiro-web.service:11`): the second stands for another worker or
the development server. *Upgrade*: the databases are empty, one Term, a shared Symbol,
the reading the recorder will see again, ids with gaps that a fresh id does not hit, and
an encrypted Symbol; two runs and one crash give an interrupted run and its rerun.
*Dashboard*: two readings give an older and a newer one, a rolling range of one and a
retention of one make the older one leave both; two loads are enough for every
reordering of a pair. The clock, failed requests together with closed tabs, and edits
are bounded (`MaxTime`, `MaxFaults`, `MaxEdits`). *Readings*: four values per byte keep
the widths and the sign bit; the databases hold both old profiles, a precise value that
today's encoder refuses, a second source at the same instant, air-quality assessments,
Terms of four Symbols that are no observations, below and above the newest reading, and
one that breaks the decoder; some are one larger than a batch and than the window. The
additions bring every version's writer between any two migrations. *Sensor*: the samples
are a common value, a neighbour and spikes in one, two or three fields, of both signs;
five is the smallest number the code accepts, six makes the median a mean of two, and
ties are among the averages, each with a drift toward zero, away from it, and none.

Deadlock is checked except in `upgrade_crash`, where the command has been run as often
as the bound allows, and in `readings`, `latest_malformed` and `export_source`, which
stop when everything is migrated and no more Terms fit.

`dashboard` assumes `LocalFirst`: the two IndexedDB reads at startup are answered
before any HTTP response. Without it `RecoverableAfterClose` fails: a poll's reading is
queued for the cache, an older history answer removes it from memory, the startup read
brings it back into memory, the removal then runs in the cache, and the page's first
load fails. `dashboard_resume` makes no such assumption.

### Fairness
- `store`, `reads`: weak fairness on the next statement of every process: the operating
  system schedules it. None on requests, failures or crashes, and none on the end of a
  lock wait (`TimeOut` may happen but never has to), which makes the claim stronger: no
  set of locks leaves everybody waiting.
- `upgrade`: weak fairness on the statements of a command that was started, none on
  starting it. `UpgradeCompletes` says nothing of runs disturbed by a crash or by the
  recorder.
- `dashboard_*`: requests and transactions are answered and the interval timer fires
  (weak), for each load on its own. `dashboard_resume` adds that the page is brought
  back to the foreground again and again, whenever a load can start (strong); that is a
  habit of users, and `dashboard_polling` is what happens without it.

## 5. Disagreements found

1. `core/migrations/0002_simplify_legacy_substrate.py:27`: the return for databases that
   are simple already comes before the check for an unclean upgrade (line 31). Killed
   after `core_symbol` was created anew, the upgrade is recorded as applied by its next
   run and the rows stay in `legacy_core_*`. `NoRowLost` holds all the same: they can be
   recovered by hand. With `Recording = TRUE` and `MaxCrashes = 0` the same property is
   violated without any crash: the recorder's CREATE TABLE IF NOT EXISTS gets between
   two statements of the upgrade.
2. `dashboard.js:804`: polling only adds the latest reading; README.md:102-104 lists
   periodic polling among what reconciles the range.
3. `dashboard.js:585`: without IndexedDB `loadRange` throws before it draws; the comment
   at line 772 says that the network remains usable.
4. `repository.py:96`: the search for the latest reading skips a ValueError only, but a
   pressure Symbol of three bytes raises struct.error (`semantic.py:90-93`); the comment
   at lines 89-91 says that a malformed Term does not prevent a usable reading from being
   returned. The window bounds the search in another way too: a hundred air-quality
   assessments, whose percentage at order 1 can compare above every timestamp, hide all
   readings. `LatestIsNewest` states what holds: the newest observation is found if the
   Terms before it are refused, not broken, and fewer than the window; however many come
   after it does not matter.
5. `import_readings_csv.py:38`: the CSV file has no column for the source, and the import
   takes each row for a local observation. `tests.py:149` speaks of a "complete,
   restorable CSV export contract", README.md:114-115 of importing "a complete CSV
   export", `tests_import.py:35` of exported history that can be restored. Observations
   that differ only in their source become one Term. `ExportRestores` states what is
   restored: everything else.

Limits that no text denies, and how the properties treat them:

- A field whose median deviation is zero rejects nothing; when all three are flat, a
  sample is averaged in however far it is off (`bme690_sensor.py:62-68`, excluded in
  `MinorityCannotDistort`).
- The two recording commands may differ by one unit when a mean lies halfway between two:
  22.34, 22.35 and 22.36 have the float mean 22.349999999999998, of which the Django
  command makes 223 tenths, and the native one, by way of "22.350000", 224.
  `PathsDifferOnlyOnTies` shows that this is the only case.
- A bound before 1970, which `views.py:34-59` lets pass, is packed as a two's complement
  and compares above all times since: a start there selects nothing, an end excludes
  nothing (`RangeIsExact`).
- A Term of the range that breaks the decoder ends a history or an export. `RangeIsExact`
  claims nothing then.
- A precise observation that the compact profile cannot hold, say a saturated humidity of
  over 100 %, ends the whole import; `ExportRestores` claims its values only if it can be
  encoded.
- What old code writes after 0004 stays unreadable (`Timely`).
- A recorder that meets a lock fails, and the reading of that tick is lost: `TermStore`
  allows a refusal.
- If the range is edited while `loadRange` awaits its answer, readings of the new range
  are dropped from memory and from the cache until it is loaded again. `ViewIsCurrent`
  compares the graphs with memory, and `dashboard_resume` runs without edits.

## 6. Proofs

Proved for every value of the constants (any processes, contents, files, loads, ranges,
databases, chunk sizes), the bounds of the runs playing no part:

| Module | Theorem | Statement |
|---|---|---|
| `SubstrateStoreProofs` | `TypeCorrectness` | `Spec => []TypeOK` |
| | `LockDiscipline` | `Spec => []LockInv` |
| | `Deduplication` | `Spec => []UniqueContent` |
| | `Completeness` | `Spec => []GraphComplete` |
| | `ReferencesAreStable` | `Spec => StableReferences` |
| `StoreRefinementProofs` | `StoreRefinement` | `Spec => ImplementsStore` |
| `HistoryReadsProofs` | `ReadsKeepSubstrate` | `ReadSpec` implements the store's `Init /\ [][Next]_vars` |
| | `ReadTypes` | `ReadSpec => []ReadTypeOK` |
| | `SnapshotReads` | `ReadSpec => []ReadsWithinSnapshot` |
| | `ExportsAreGapless` | `ReadSpec => []ExportKeepsFullChunks` |
| `LegacyUpgradeProofs` | `UpgradeTypes` | `Spec => []TypeOK` |
| | `UpgradeLosesNothing` | `Spec => []NoRowLost` |
| | `UnsupportedIsLeftAlone` | `Spec => []UnsupportedStaysPut` |
| `DashboardCacheProofs` | `ViewFollowsMemory` | `Storage` gives `Spec => []ViewIsCurrent` |
| | `CopyIsComplete` | `Storage` and `LocalFirst` give `Spec => []RecoverableAfterClose` |
| | `PageTypes` | `Storage` gives `Spec => []TypeOK` |
| `ReadingsProofs` | `ReadingsTypes` | `Spec => []ReadingsTypeOK` |
| | `NothingRefused` | `Spec => []NoSaveRefused` |
| | `Survival` | `Spec => []ReadingsSurvive` |
| | `IndexIsMirror` | `Spec => IndexMirrorsReadings` |
| | `LookupAgreement` | `Spec => []LookupsAgree` |
| | `NothingIsMisread` | `Spec => []NothingMisread` |
| | `RangesAreExact` | `Since1970` gives `Spec => []RangeIsExact` |
| | `ExportInOrder` | `Since1970` gives `Spec => []ExportIsChronological` |
| | `LatestWins` | `Since1970` gives `Spec => []LatestIsNewest` |
| | `ExportIsRestored` | `Spec => []ExportRestores` |
| `RobustAverageProofs` | `AverageTypes` | `Spec => []AverageTypeOK` |
| | `Undistorted` | `Spec => []MinorityCannotDistort` |
| | `NeverStarved` | `Spec => []OneNoisyFieldNeverStarves` |
| | `DriftOnlyBreaksTies` | of any sum, count up to 10000 and drift below half a millionth: the native rounding is that of the exact mean, the Django rounding too or, on a tie, one unit nearer to zero |
| | `PathsAgreeButOnTies` | hence, for such counts, `Spec => []PathsDifferOnlyOnTies` |

`CodecsProofs` holds the lemmas about `Codecs` that `ReadingsProofs` and
`RobustAverageProofs` need.

The assumptions that are not mere typing are needed: `dashboard_private` violates
`ViewIsCurrent` without `Storage`, and section 4 has the behaviour that `LocalFirst`
excludes. `Since1970` is about stored times only, not about the bounds of a request; it
is needed because a negative number, packed as its two's complement, compares above all
others, and justified by the clock that times an observation. `MCReadings` evaluates it
for the constants of the runs. The drift of a mean is below half a millionth
(`FloatsAreFine`), the last decimal that the native path prints; the error of a sum of a
few thousand samples in double precision is smaller by orders of magnitude. The others
are those of the modules: roles are disjoint, contents are nonempty sequences, files are
sequences of contents, `None` is no process, the bound on ids is a number
(`IdsAreBounded`), the reading the recorder stores is one the new schema can hold
(`ReadingIsSupported`); dates fit eight bytes, percentages one and humidities two (`DatesFit`, `PercentFits`,
`HumidityFits`); the identifiers of sources are bytes, the local one valid UTF-8 and no
longer than allowed (`SourcesAreBytes`); Terms are what some encoder writes, or foreign
(`FoundingsAreTerms`, `AdditionsAreTerms`); bounds, samples, counts, the threshold, the
window and the number of crashes are of their kinds (`BoundsAreDates`,
`SamplesAreNumbers`, `CountsSuffice`, `ThresholdIsPositive`, `WindowIsNumber`,
`CrashesAreBounded`).

*The store.* `UniqueContent` is not inductive: whether an insert makes a duplicate
depends on what a process has read some statements before. `IInv` has three layers.
`TypeInv`: types, finite tables, a row in hand wherever a statement works on one.
`LockInv`: which statements run under SHARED or RESERVED, RESERVED implies SHARED, only
a writer is in a writing statement, and `work = db` while nobody writes. `DataInv`: the
committed image is sound, the writer's image is sound but for the one Term it is
filling, and what a process under a lock has learnt (this content is not stored, these
Symbols are) is still true of the image it will write to. That last part holds because
the committed image can change only when every other SHARED lock is gone
(`RepeatableRead`). The step is proved per process group (`DataOfNative`,
`DataOfDjango`, `DataOfOthers`) and once for the bystanders of a step
(`DataOfBystander`). `IdInv`, on top of it: no id stands for two Terms in any image.

*The refinement.* A request takes effect at its commit, so what is due must be known
until then. `RInv` says per process (`Progress`): what its image holds and what it has
yet to insert are together what the file held and what was asked (`RowsInv`, `DueInv`);
a recording's answer is the Term that holds it (`AnswerInv`); the emptiness an import
has checked lasts, because it keeps SHARED (`ImportInv`); the number a reset has counted
stays true (`ResetInv`). Each action is then a step of `TermStore` or a stutter.

*The readers.* A reader's steps leave the substrate to the store's own, so `IInv` and
`IdInv` hold beneath them. `Traced`: every id a reader holds was issued, and a Term that
still has it is one of the snapshot; it survives resets because ids are not used again.
`Kept`: while an export's cursor is open, what it has passed and what it holds are all of
the snapshot, which nobody can delete meanwhile (SHARED).

*The upgrade.* `UpgradeInv` adds to `NoRowLost` how far the copy has come at each
statement (`Copied`) and that an unsupported database is as it was found (`Untouched`).

*The dashboard.* `Drawn`: graphs differ from memory only while a load or a poll is
between its write and its end. `Safe`: each reading in memory survives the transactions
queued over the cache, or a load has yet to ask for its put. `Turns` and `Timely`, for
the types: whoever writes holds exactly one place in the queue; nothing that is held,
queued or on its way is newer than the clock. That `Max` of a set of times exists is
shown from the well-foundedness of the naturals.

*Blobs.* `Power`, `Unsigned` and the sums of `RobustAverage` are recursive functions. That
such a function exists is not a fact the provers find; `Recursion` builds it from its
finite beginnings, by induction over a set of arguments (`Induction`, from the
well-foundedness of the naturals), and `UnsignedIs` recognises it in the CHOOSE it is
defined by. `UnsignedPack` then adds up the digits of a packed number from the left, and
`IntegerRestored` reads the sign off the first byte. `AtomsOfRelations`: what is read in
the order of the relations is the sequence that was written.

*The data migrations.* `NoSaveRefused` and `ReadingsSurvive` say nothing of a transaction
under way, so neither is inductive. `IInv` says what each Term of the committed image can
look like by the number of migrations applied (`Forms`: as written, marked, or with its
source; both of the first two after 0003, because old code may still have written), and
what the running migration has made of it: the Terms behind `at` are as the migration
leaves them (`Goal`, `Reached`), the Terms ahead are as they were committed, and the one
in hand holds its blobs at the orders that both loops have reached so far (`Moving`,
`Place`). From `Place` follows that the next order is free: both loops step over the
orders of the other. `Indexing` says for 0002 that the table and the batch together hold
each observation passed exactly once. What decodes is then a matter of the forms alone
(`ObservationForms`, `OtherForms`): what has four Symbols does not decode, and what has
five has the time at order 1 and the scale in the length of the pressure.

*The readers of blobs.* Two blobs are decided at the first place where they differ
(`BeforeDecided`), which makes `Before` a strict total order and, for blobs of one length,
the order of the numbers (`BeforeIsLess`). `Above` refines it by ids to an order of Terms.
A negative bound starts with a byte above that of every stored time
(`NegativeTimesLast`). No usable Term can be newer than the one picked: outside the
window it would have more Terms before it than the one picked (`OverheadGrows`), and
inside it would be before the pick. A Term whose predecessors are all refused and fewer
than the window is in it and has nothing before it that could be picked.

*Averages.* Of a set of samples larger than half, one is at or below the median and one
at or above it, so the median lies in their span, and the median deviation is no larger
than that span; a retained sample is within the threshold of both, hence so is the mean. One
field keeps at least half of its samples, which are three of five.

*Rounding.* All is counted in steps, times the number of samples, so that the exact mean
and the float differ by at most the count times `Drift` (`Drifted`). A mean that is not on
a tie is at least half of 1 / count of a hundredth away from it (`MeanIsNear`); drift and
half a millionth together cannot cross that distance for 10000 samples or fewer. On a tie
the six decimals give back the tie (`NativeRounding`), and the float may fall on either
side of it (`DjangoRounding`). Negative sums are the positive ones mirrored
(`PathsMirrored`), since ties go away from zero.

The invariants were model-checked before they were proved. Every invariant and every
action property that a passing run checks, and the refinement, is proved. Only
model-checked: the liveness properties `EveryRequestAnswered`, `EveryReadAnswered`,
`UpgradeCompletes` and `ViewReconciles` (liveness and ENABLED are out of the provers'
reach), and the counterexamples of section 5.

## 7. Not modelled

- Rendering, templates, styles and charts; the reset password check; settings and
  service files beyond the constants they give; the native test and probe programs; the
  LRU caches of the decoders, which cache pure functions.
- A second tab over the same IndexedDB.
- `ep_store_query_environment` returns the status of the last row it decodes
  (`enpiro_store.c:401`); only the probe and test programs call it.
- The sensor's bus protocol, its configuration and its wait for a power mode; the
  midpoint of the wall clock that times an observation; binary floating point, except for
  the error of a mean: the scores that reject samples are compared exactly.
- The ids of a `core_term` that the recorder has created itself (`enpiro_store.c:42-65`):
  its key is a plain INTEGER PRIMARY KEY, so SQLite would use the highest id again after a
  reset. `StableReferences` and `ReadsWithinSnapshot` rest on tables that Django's migrations
  have created.
- Observations from before 1970, whose blobs sort after all others; a Term of four Symbols that is
  no observation and has the lengths of one, which the migrations could not tell apart; a
  source with the name of the marker, and a foreign Term of five Symbols that begins with
  it, which 0005 would rename.
- Duplicates that migration 0005 may create (`0005:35`: no lookup is made), which takes
  two versions that record the same microsecond; the separate commit in which Django
  records 0002 as applied, after the table and its rows.
- The initial database of `SubstrateStore` is empty: a Symbol left unused by migration
  0005 would be an orphan that exists before the first write.
