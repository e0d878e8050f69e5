-------------------------------- MODULE Readings --------------------------------
(* The readers and writers of today over a substrate that older versions have   *)
(* filled: what they see before, between and after the data migrations.         *)
EXTENDS EnvironmentMigration, Retrieval

CONSTANT Bounds   \* the starts and ends of ranges to ask for

ASSUME BoundsAreDates == Bounds \subseteq Dates \cup {Unbounded}
ASSUME WindowIsNumber == Window \in Nat

(* The export of every metric: the file has no column for the source. *)
Exported(o) ==
  [time |-> o.time, temperature |-> o.temperature, humidity |-> o.humidity,
   pressure |-> o.pressure]

(* import_readings_csv gives every row the source that ObservationValue starts  *)
(* with, and encodes it.                                                        *)
Imported(row) ==
  [source |-> Local, time |-> row.time, temperature |-> row.temperature,
   pressure |-> row.pressure, humidity |-> row.humidity]
Importable(o) == Encodable(Imported(Exported(o)))
Restored(o) == DecodeObservation(EncodeObservation(Imported(Exported(o))))

-----------------------------------------------------------------------------
Legacy(w) == w.kind \in {"compact", "precise"}
Observational(w) == Legacy(w) \/ w.kind \in {"marked", "environment"}

(* What a Term has to consist of in the end. *)
Final(w) ==
  CASE w.kind \in {"compact", "marked"} -> EncodeObservation(w.value)
    [] w.kind = "precise" -> <<Local>> \o Precise(w.value)
    [] OTHER -> WrittenAs(w)

AllRows == Candidates(db.rel, Unbounded, Unbounded)
ValueOf(t) == DecodeObservation(AtomsOf(db.rel[t]))
Near(a, b, unit) == 2 * (a - b) \in -unit..unit

(* What the readers rely on without a check of theirs: packed times compare     *)
(* like times from 1970 on only.                                                *)
Written == Additions \cup UNION {{founding[t] : t \in DOMAIN founding} : founding \in Foundings}
Since1970 == \A w \in Written : Observational(w) => w.value.time >= 0

IsImage(image) ==
  /\ DOMAIN image.rel = DOMAIN origin
  /\ \A t \in DOMAIN image.rel :
       DOMAIN image.rel[t] \subseteq Nat /\ IsFiniteSet(DOMAIN image.rel[t])
  /\ DOMAIN image.index \subseteq DOMAIN image.rel
  /\ image.applied \in 1..5

(* Every variable has the shape the code gives it. *)
ReadingsTypeOK ==
  /\ IsImage(db) /\ IsImage(work)
  /\ pc \in {"idle", "refused", "scan", "away", "back", "mark"}
  /\ at \in {0} \cup DOMAIN origin
  /\ orders \in Seq(Nat)
  /\ done \in 0..3
  /\ batch \subseteq DOMAIN origin
  /\ crashes \in 0..MaxCrashes

(* Once 0005 is applied, every observation that any version ever wrote is a     *)
(* source-aware one with its own values, in the orders 0 to 4, and every other  *)
(* Term is what it was - whatever was killed, run again or written in between   *)
(* (docs/data-substrate-and-semantics.md:227-232).                              *)
ReadingsSurvive ==
  db.applied = 5 => \A t \in DOMAIN db.rel : db.rel[t] = Relations(Final(origin[t]))

(* At no time does a reader make a wrong value of a Term, between two           *)
(* migrations neither: what decodes is what was written, except that the marker *)
(* stands for its source until 0005.                                            *)
NothingMisread ==
  \A t \in DOMAIN db.rel :
    LET atoms == AtomsOf(db.rel[t])
    IN  /\ Decodes(atoms) =>
             /\ Observational(origin[t])
             /\ \/ ValueOf(t) = origin[t].value
                \/ /\ db.applied < 5
                   /\ ValueOf(t) = [origin[t].value EXCEPT !.source = Marker]
        /\ IsAirQuality(atoms) =>
             origin[t].kind = "air_quality" /\ DecodeAirQuality(atoms) = origin[t].value

(* No migration runs into a UNIQUE constraint on its way, neither                *)
(* UNIQUE(term, order) while relations move past each other nor that of         *)
(* QuickCheckIndex.term.                                                        *)
NoSaveRefused == pc # "refused"

(* 0002 indexes every observation of its time exactly once, with the values its *)
(* readers decode later: the migration has a decoder of its own.                *)
IndexMirrorsReadings ==
  [][db.applied = 1 /\ db'.applied = 2 =>
       db'.index = [t \in {u \in DOMAIN origin : Legacy(origin[u])} |->
                      [time |-> origin[t].value.time,
                       temperature |-> origin[t].value.temperature,
                       pressure |-> origin[t].value.pressure,
                       humidity |-> origin[t].value.humidity]]]_vars

(* Comparing the blobs at order 1 as bytes selects exactly the observations of  *)
(* the range, whatever else has a blob at order 1, unless a Term of the range    *)
(* ends the request.  A bound before 1970, which views.py:34-59 lets pass, comes *)
(* after every time since: a start there selects nothing and an end excludes     *)
(* nothing.                                                                     *)
RangeIsExact ==
  \A start, end \in Bounds :
    ~HistoryBreaks(db.rel, start, end) =>
      History(db.rel, start, end) =
        {t \in DOMAIN db.rel :
           /\ Decodes(AtomsOf(db.rel[t]))
           /\ start = Unbounded \/ (start >= 0 /\ ValueOf(t).time >= start)
           /\ end = Unbounded \/ end < 0 \/ ValueOf(t).time <= end}

(* The export takes the order of the blobs for that of time.                    *)
ExportIsChronological ==
  \A t, u \in History(db.rel, Unbounded, Unbounded) :
    ValueOf(t).time < ValueOf(u).time <=> Before(db.rel[t][1], db.rel[u][1])

(* The latest reading is the newest one; and the newest one is found as long as  *)
(* the Terms before it are refused and fewer than the window holds, however many *)
(* foreign ones come after it.                                                  *)
LatestIsNewest ==
  \A t \in History(db.rel, Unbounded, Unbounded) :
    LET before == {u \in AllRows : Above(db.rel, u, t)}
    IN  /\ IsLatest(db.rel, t) =>
             \A u \in History(db.rel, Unbounded, Unbounded) : ValueOf(u).time <= ValueOf(t).time
        /\ (\A u \in before : Refused(AtomsOf(db.rel[u]))) /\ Cardinality(before) < Window =>
             IsLatest(db.rel, t)

(* The two exact lookups, which decide by different criteria whether a Term is   *)
(* stored already, find the same Terms in every database that is left behind.   *)
LookupsAgree ==
  \A t \in DOMAIN db.rel :
    LET atoms == AtomsOf(db.rel[t])
    IN  /\ t \in DjangoFinds(db.rel, atoms)
        /\ DjangoFinds(db.rel, atoms) = NativeFinds(db.rel, atoms)

(* What an export and its import keep of a stored observation: all of a compact  *)
(* one but its source, which becomes Local; of a precise one, if the compact     *)
(* profile can hold it, the time and the values to within half a unit.          *)
ExportRestores ==
  \A t \in History(db.rel, Unbounded, Unbounded) :
    LET o == ValueOf(t)
        again == Restored(o)
    IN  /\ ~IsPrecise(AtomsOf(db.rel[t])) =>
             Importable(o) /\ again = [o EXCEPT !.source = Local]
        /\ Importable(o) =>
             /\ again.time = o.time
             /\ Near(again.temperature, o.temperature, 10)
             /\ Near(again.pressure, o.pressure, 100)
             /\ Near(again.humidity, o.humidity, 10)

(* "Protect date filtering and the complete, restorable CSV export contract."    *)
(* (measurements/tests.py:149; README.md:114-115)  Once the data is migrated,    *)
(* different compact observations are still different when they are restored.   *)
ExportIsComplete ==
  db.applied = 5 =>
    \A t, u \in History(db.rel, Unbounded, Unbounded) :
      \/ IsPrecise(AtomsOf(db.rel[t])) \/ IsPrecise(AtomsOf(db.rel[u]))
      \/ ValueOf(t) = ValueOf(u)
      \/ Restored(ValueOf(t)) # Restored(ValueOf(u))

(* "Keep a small validation window so an unrelated or malformed term does not   *)
(* prevent a usable environmental reading from being returned."                 *)
(* (measurements/repository.py:89-91)                                           *)
UsableLatestReturned ==
  (\E t \in AllRows : Decodes(AtomsOf(db.rel[t]))) => \E t \in AllRows : IsLatest(db.rel, t)
=============================================================================
