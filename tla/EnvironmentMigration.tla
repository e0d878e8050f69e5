------------------------- MODULE EnvironmentMigration -------------------------
(* The data migrations 0002 to 0005 of measurements.  They turn the            *)
(* observations of older versions (four Symbols, without a source) into        *)
(* observations with a source, in place, while other Terms lie among them and  *)
(* new ones are written between two migrations.                                *)
(*                                                                             *)
(* A Term is a function from the orders of its relations to blobs, which is    *)
(* what UNIQUE(term, order) makes of it; a save that would break the           *)
(* constraint is refused.  A migration is one transaction and holds the file   *)
(* from its first SELECT on.                                                   *)
EXTENDS Codecs

CONSTANTS
  Local, Marker,   \* the blobs b"local" and b"enpiro.environment.v1"
  Foundings,       \* databases to start from: what each Term was written as
  Additions,       \* what is written between migrations
  BatchSize,       \* rows per bulk_create (500 in the code)
  MaxTerms,        \* bound: nothing is written beyond this many Terms
  MaxCrashes       \* bound on deaths of the command

VARIABLES
  db,        \* the committed image: [rel, index, applied]
  work,      \* the image of the migration's transaction
  pc,        \* what the migration does next
  at,        \* the Term it is at, or has done last
  orders,    \* relation.order of that Term's relations, in memory
  done,      \* how many of them this loop has saved
  batch,     \* rows of QuickCheckIndex not yet inserted
  crashes,
  origin     \* history: what each Term was written as

vars == <<db, work, pc, at, orders, done, batch, crashes, origin>>
localVars == <<at, orders, done, batch>>

-----------------------------------------------------------------------------
(* What Terms are written as: [kind, value].  "compact" and "precise" stand    *)
(* for the encoders before 0003, "marked" for the one between 0003 and 0005.   *)

Precise(o) ==
  <<Pack(o.time, 8), Pack(o.temperature, 2), Pack(o.pressure, 4), Pack(o.humidity, 2)>>

WrittenAs(w) ==
  CASE w.kind = "compact" -> Tail(EncodeObservation(w.value))
    [] w.kind = "precise" -> Precise(w.value)
    [] w.kind = "marked" -> <<Marker>> \o Tail(EncodeObservation(w.value))
    [] w.kind = "environment" -> EncodeObservation(w.value)
    [] w.kind = "air_quality" -> EncodeAirQuality(w.value.time, w.value.percentage)
    [] w.kind = "other" -> w.value

With(f, x, value) == [y \in DOMAIN f \cup {x} |-> IF y = x THEN value ELSE f[y]]

-----------------------------------------------------------------------------
Init ==
  \E founding \in Foundings :
    /\ origin = founding
    /\ db = [rel |-> [t \in DOMAIN founding |-> Relations(WrittenAs(founding[t]))],
             index |-> <<>>, applied |-> 1]
    /\ work = db
    /\ pc = "idle" /\ at = 0 /\ orders = <<>> /\ done = 0 /\ batch = {} /\ crashes = 0

Resting == pc \in {"idle", "refused"}

(* Old code may write until 0004 is applied ("if 0003 ran before the data was  *)
(* available"), code that marks until 0005, today's at any time.               *)
Timely(w) ==
  /\ w.kind \in {"compact", "precise"} => db.applied < 4
  /\ w.kind = "marked" => db.applied \in 3..4

Add ==
  /\ Resting
  /\ \E w \in Additions :
       LET new == Cardinality(DOMAIN origin) + 1
       IN  /\ new <= MaxTerms /\ Timely(w)
           /\ origin' = With(origin, new, w)
           /\ db' = [db EXCEPT !.rel = With(@, new, Relations(WrittenAs(w)))]
  /\ work' = db'
  /\ UNCHANGED <<pc, localVars, crashes>>

Begin ==
  /\ Resting
  /\ db.applied < 5
  /\ pc' = "scan" /\ at' = 0 /\ orders' = <<>> /\ done' = 0 /\ batch' = {}
  /\ UNCHANGED <<db, work, crashes, origin>>

(* IntegrityError: the transaction is rolled back. *)
Refuse ==
  /\ work' = db
  /\ pc' = "refused"
  /\ UNCHANGED <<db, localVars, crashes, origin>>

Crash ==
  /\ ~Resting
  /\ crashes < MaxCrashes
  /\ crashes' = crashes + 1
  /\ work' = db
  /\ pc' = "idle"
  /\ UNCHANGED <<db, localVars, origin>>

(* The rest of the Terms with so many relations.  Nobody else writes and the   *)
(* Terms behind are not looked at again, so it does not matter that 0003 reads *)
(* the query at once and the others read it in chunks while they write.        *)
Rest(count) ==
  {t \in DOMAIN work.rel : t > at /\ Cardinality(DOMAIN work.rel[t]) = count}

IsFirst(t, terms) == t \in terms /\ \A u \in terms : t <= u

Commit(image) ==
  /\ db' = [image EXCEPT !.applied = @ + 1]
  /\ work' = db'
  /\ pc' = "idle"
  /\ UNCHANGED <<localVars, crashes, origin>>

Skip(t) ==
  /\ at' = t
  /\ UNCHANGED <<db, work, pc, orders, done, batch, crashes, origin>>

-----------------------------------------------------------------------------
(* 0002: a decoded copy of every observation, in QuickCheckIndex. *)

Lengths(atoms) == [i \in DOMAIN atoms |-> Len(atoms[i])]

(* Mutated IndexRow: one scale for both profiles. *)
IndexRowCompact(atoms) ==
  [time |-> Signed(atoms[1]), temperature |-> 10 * Signed(atoms[2]),
   pressure |-> 100 * Unsigned(atoms[3]), humidity |-> 10 * Unsigned(atoms[4])]

IndexRow(atoms) ==
  IF Lengths(atoms) = <<8, 2, 4, 2>>
  THEN [time |-> Signed(atoms[1]), temperature |-> Signed(atoms[2]),
        pressure |-> Unsigned(atoms[3]), humidity |-> Unsigned(atoms[4])]
  ELSE [time |-> Signed(atoms[1]), temperature |-> 10 * Signed(atoms[2]),
        pressure |-> 100 * Unsigned(atoms[3]), humidity |-> 10 * Unsigned(atoms[4])]

(* Mutated LegacyShapes: the precise profile is forgotten. *)
CompactShapeOnly == {<<8, 2, 2, 2>>}

LegacyShapes == {<<8, 2, 2, 2>>, <<8, 2, 4, 2>>}
IsLegacy(atoms) == Lengths(atoms) \in LegacyShapes

(* bulk_create; the column term is UNIQUE. *)
Inserted(image, rows) ==
  [image EXCEPT !.index =
     [t \in rows \cup DOMAIN @ |-> IF t \in rows THEN IndexRow(AtomsOf(image.rel[t])) ELSE @[t]]]
Clash(rows) == rows \cap DOMAIN work.index # {}

IsIndexable(atoms) == IsLegacy(atoms) /\ Signed(atoms[1]) \in Dates

AppendRow(t) ==
  LET rows == batch \cup {t}
  IN  IF Cardinality(rows) < BatchSize
      THEN batch' = rows /\ at' = t /\ UNCHANGED <<db, work, pc, orders, done, crashes, origin>>
      ELSE IF Clash(rows) THEN Refuse
      ELSE /\ work' = Inserted(work, rows) /\ batch' = {} /\ at' = t
           /\ UNCHANGED <<db, pc, orders, done, crashes, origin>>

PopulateIndex ==
  /\ pc = "scan" /\ db.applied = 1
  /\ \E t \in Rest(4) :
       /\ IsFirst(t, Rest(4))
       /\ IF IsIndexable(AtomsOf(work.rel[t])) THEN AppendRow(t) ELSE Skip(t)

FinishIndex ==
  /\ pc = "scan" /\ db.applied = 1
  /\ Rest(4) = {}
  /\ IF Clash(batch) THEN Refuse ELSE Commit(Inserted(work, batch))

-----------------------------------------------------------------------------
(* 0003 and 0004: the relations of an observation move up by one, by way of    *)
(* orders far above, and the marker takes order 0.                             *)

Mark ==
  \E t \in Rest(4) :
    /\ IsFirst(t, Rest(4))
    /\ IF IsLegacy(AtomsOf(work.rel[t]))
       THEN /\ at' = t
            /\ orders' = OrdersOf(work.rel[t])
            /\ done' = 0
            /\ pc' = "away"
            /\ UNCHANGED <<db, work, batch, crashes, origin>>
       ELSE Skip(t)

MarkExisting == pc = "scan" /\ db.applied = 2 /\ Mark
MarkUnconverted == pc = "scan" /\ db.applied = 3 /\ Mark

(* Mutated Save: the second loop goes on counting where the first ended. *)
SaveWithoutReset(step, next) ==
  LET i == done + 1
      new == orders[i] + step
      term == work.rel[at]
  IN  /\ new \notin DOMAIN term
      /\ work' = [work EXCEPT !.rel[at] =
                    [o \in (DOMAIN term \ {orders[i]}) \cup {new} |->
                       IF o = new THEN term[orders[i]] ELSE term[o]]]
      /\ orders' = [orders EXCEPT ![i] = new]
      /\ done' = i
      /\ pc' = IF i = Len(orders) THEN next ELSE pc
      /\ UNCHANGED <<db, at, batch, crashes, origin>>

(* relation.save(update_fields=["order"]) for the next relation. *)
Save(step, next) ==
  LET i == done + 1
      new == orders[i] + step
      term == work.rel[at]
  IN  IF new \in DOMAIN term
      THEN Refuse
      ELSE /\ work' = [work EXCEPT !.rel[at] =
                         [o \in (DOMAIN term \ {orders[i]}) \cup {new} |->
                            IF o = new THEN term[orders[i]] ELSE term[o]]]
           /\ orders' = [orders EXCEPT ![i] = new]
           /\ IF i = Len(orders) THEN pc' = next /\ done' = 0
                                 ELSE done' = i /\ UNCHANGED pc
           /\ UNCHANGED <<db, at, batch, crashes, origin>>

(* Mutated MoveAway: every relation moves to its place at once. *)
MoveAwayByOne == pc = "away" /\ Save(1, "mark")

MoveAway == pc = "away" /\ Save(10, "back")

MoveBack == pc = "back" /\ Save(-9, "mark")

InsertMarker ==
  /\ pc = "mark"
  /\ IF 0 \in DOMAIN work.rel[at]
     THEN Refuse
     ELSE /\ work' = [work EXCEPT !.rel[at] = With(@, 0, Marker)]
          /\ pc' = "scan"
          /\ UNCHANGED <<db, localVars, crashes, origin>>

(* 0003 also drops QuickCheckIndex. *)
FinishMarking ==
  /\ pc = "scan" /\ db.applied \in 2..3
  /\ Rest(4) = {}
  /\ Commit([work EXCEPT !.index = IF db.applied = 2 THEN <<>> ELSE @])

-----------------------------------------------------------------------------
(* 0005: the source takes the marker's place. *)

ReplaceMarker ==
  /\ pc = "scan" /\ db.applied = 4
  /\ \E t \in Rest(5) :
       LET first == OrdersOf(work.rel[t])[1]
       IN  /\ IsFirst(t, Rest(5))
           /\ IF work.rel[t][first] # Marker
              THEN Skip(t)
              ELSE /\ work' = [work EXCEPT !.rel[t][first] = Local]
                   /\ at' = t
                   /\ UNCHANGED <<db, pc, orders, done, batch, crashes, origin>>

FinishSource ==
  /\ pc = "scan" /\ db.applied = 4
  /\ Rest(5) = {}
  /\ Commit(work)

Migrate ==
  \/ PopulateIndex \/ FinishIndex
  \/ MarkExisting \/ MarkUnconverted \/ MoveAway \/ MoveBack \/ InsertMarker \/ FinishMarking
  \/ ReplaceMarker \/ FinishSource

-----------------------------------------------------------------------------
(* What can have been written: observations of each version's encoder, rounded *)
(* to its units and from a source that is not the marker, assessments, and     *)
(* Terms that no version would take for either.                                *)

Foreign(atoms) ==
  /\ atoms \in Seq(Seq(Byte))
  /\ ~Decodes(atoms) /\ ~IsAirQuality(atoms) /\ ~IsLegacy(atoms)
  /\ Len(atoms) = 5 => atoms[1] # Marker

Writable(w) ==
  CASE w.kind \in {"compact", "marked"} -> Rounded(w.value) /\ w.value.source = Local
    [] w.kind = "precise" ->
         /\ w.value \in Observation /\ w.value.source = Local
         /\ w.value.temperature \in SignedRange(2)
         /\ w.value.pressure \in 0..Power[4] - 1
         /\ w.value.humidity \in 0..Power[2] - 1
    [] w.kind = "environment" ->
         Rounded(w.value) /\ IsUtf8(w.value.source) /\ w.value.source # Marker
    [] w.kind = "air_quality" -> w.value \in [time : Dates, percentage : 0..MaxPercent]
    [] w.kind = "other" -> Foreign(w.value)
    [] OTHER -> FALSE

ASSUME SourcesAreBytes ==
  Local \in Seq(Byte) /\ IsUtf8(Local) /\ Len(Local) \in 1..MaxSource /\ Marker \in Seq(Byte)
ASSUME FoundingsAreTerms ==
  \A founding \in Foundings :
    /\ Cardinality(DOMAIN founding) \in Nat
    /\ DOMAIN founding = 1..Cardinality(DOMAIN founding)
    /\ \A t \in DOMAIN founding : Writable(founding[t])
ASSUME AdditionsAreTerms == \A w \in Additions : Writable(w)
ASSUME CrashesAreBounded == MaxCrashes \in Nat

-----------------------------------------------------------------------------
Next == Add \/ Begin \/ Migrate \/ Crash

Spec == Init /\ [][Next]_vars
=============================================================================
