---------------------------- MODULE ReadingsProofs ----------------------------
(* That observations survive the data migrations, whatever lies among them and  *)
(* whenever the command dies.                                                    *)
EXTENDS Readings, CodecsProofs

Blobs == Seq(Byte)

-----------------------------------------------------------------------------
(* What Terms are written as, and what the migrations make of them *)

(* A Term once 0003 or 0004 has seen it. *)
AsMarked(w) == IF Legacy(w) THEN <<Marker>> \o WrittenAs(w) ELSE WrittenAs(w)

RowOf(o) ==
  [time |-> o.time, temperature |-> o.temperature, pressure |-> o.pressure,
   humidity |-> o.humidity]

LEMMA ShapeOfLegacy ==
  ASSUME NEW x \in Seq(Blobs), NEW a \in Nat
  PROVE  Lengths(x) = <<8, 2, a, 2>> <=>
           Len(x) = 4 /\ Len(x[1]) = 8 /\ Len(x[2]) = 2 /\ Len(x[3]) = a /\ Len(x[4]) = 2
<1> DEFINE y == Lengths(x)
           z == <<8, 2, a, 2>>
<1>1. \A i \in 1..Len(x) : Len(x[i]) \in Nat
  BY DEF Blobs
<1>2. y = [i \in 1..Len(x) |-> Len(x[i])]
  BY DEF Lengths
<1>3. y \in Seq(Nat) /\ Len(y) = Len(x) /\ \A i \in 1..Len(x) : y[i] = Len(x[i])
  BY <1>1, <1>2
<1>4. z \in Seq(Nat) /\ Len(z) = 4 /\ z[1] = 8 /\ z[2] = 2 /\ z[3] = a /\ z[4] = 2
  OBVIOUS
<1> HIDE DEF y, z
<1>5. ASSUME Len(x) = 4, Len(x[1]) = 8, Len(x[2]) = 2, Len(x[3]) = a, Len(x[4]) = 2
      PROVE  y = z
  <2>1. \A i \in 1..Len(y) : y[i] = z[i]
    <3>1. \A i \in 1..4 : i = 1 \/ i = 2 \/ i = 3 \/ i = 4
      OBVIOUS
    <3> QED  BY <1>3, <1>4, <1>5, <3>1
  <2> QED  BY <1>3, <1>4, <1>5, <2>1, SeqEqual
<1>6. ASSUME y = z
      PROVE  Len(x) = 4 /\ Len(x[1]) = 8 /\ Len(x[2]) = 2 /\ Len(x[3]) = a /\ Len(x[4]) = 2
  <2>1. Len(x) = 4
    BY <1>3, <1>4, <1>6
  <2>2. 1 \in 1..Len(x) /\ 2 \in 1..Len(x) /\ 3 \in 1..Len(x) /\ 4 \in 1..Len(x)
    BY <2>1
  <2> QED  BY <1>3, <1>4, <1>6, <2>1, <2>2
<1>7. y = z <=> Len(x) = 4 /\ Len(x[1]) = 8 /\ Len(x[2]) = 2 /\ Len(x[3]) = a /\ Len(x[4]) = 2
  BY <1>5, <1>6
<1> QED  BY <1>7 DEF y, z

LEMMA Prefixed ==
  ASSUME NEW S, NEW s \in S, NEW x \in Seq(S), Len(x) = 4
  PROVE  /\ <<s>> \o x \in Seq(S) /\ Len(<<s>> \o x) = 5 /\ (<<s>> \o x)[1] = s
         /\ (<<s>> \o x)[2] = x[1] /\ (<<s>> \o x)[3] = x[2]
         /\ (<<s>> \o x)[4] = x[3] /\ (<<s>> \o x)[5] = x[4]
<1>1. <<s>> \in Seq(S) /\ Len(<<s>>) = 1 /\ <<s>>[1] = s
  OBVIOUS
<1> DEFINE z == <<s>> \o x
<1>2. /\ z \in Seq(S) /\ Len(z) = Len(<<s>>) + Len(x)
      /\ \A i \in 1..Len(<<s>>) + Len(x) :
           z[i] = IF i <= Len(<<s>>) THEN <<s>>[i] ELSE x[i - Len(<<s>>)]
  BY <1>1, ConcatProperties
<1> HIDE DEF z
<1>3. \A i \in 1..5 : z[i] = IF i <= 1 THEN s ELSE x[i - 1]
  BY <1>1, <1>2
<1>4. z \in Seq(S) /\ Len(z) = 5 /\ z[1] = s /\ z[2] = x[1] /\ z[3] = x[2]
      /\ z[4] = x[3] /\ z[5] = x[4]
  BY <1>1, <1>2, <1>3
<1> QED  BY <1>4 DEF z

LEMMA SameFive ==
  ASSUME NEW S, NEW x \in Seq(S), NEW y \in Seq(S), Len(x) = 5, Len(y) = 5,
         x[1] = y[1], x[2] = y[2], x[3] = y[3], x[4] = y[4], x[5] = y[5]
  PROVE  x = y
<1>1. \A i \in 1..5 : i = 1 \/ i = 2 \/ i = 3 \/ i = 4 \/ i = 5
  OBVIOUS
<1>2. \A i \in 1..Len(x) : x[i] = y[i]
  BY <1>1
<1> QED  BY <1>2, SeqEqual

(* What 0005 makes of the blobs of an observation. *)
Resourced(x, y) ==
  /\ y \in Seq(Blobs) /\ Len(y) = Len(x)
  /\ y[1] = Local /\ \A i \in 2..Len(x) : y[i] = x[i]

LEMMA PrefixReplaced ==
  ASSUME NEW x \in Seq(Blobs), Len(x) = 4
  PROVE  Resourced(<<Marker>> \o x, <<Local>> \o x)
<1> DEFINE y == <<Marker>> \o x
           z == <<Local>> \o x
<1>1. Local \in Blobs /\ Marker \in Blobs
  BY SourcesAreBytes DEF Blobs
<1>2. y \in Seq(Blobs) /\ Len(y) = 5 /\ y[2] = x[1] /\ y[3] = x[2] /\ y[4] = x[3]
      /\ y[5] = x[4]
  BY <1>1, Prefixed
<1>3. z \in Seq(Blobs) /\ Len(z) = 5 /\ z[1] = Local /\ z[2] = x[1] /\ z[3] = x[2]
      /\ z[4] = x[3] /\ z[5] = x[4]
  BY <1>1, Prefixed
<1> HIDE DEF y, z
<1>4. \A i \in 2..5 : i = 2 \/ i = 3 \/ i = 4 \/ i = 5
  OBVIOUS
<1>5. \A i \in 2..5 : z[i] = y[i]
  BY <1>2, <1>3, <1>4
<1>6. Resourced(y, z)
  BY <1>2, <1>3, <1>5 DEF Resourced
<1> QED  BY <1>6 DEF y, z

LEMMA TailOfFive ==
  ASSUME NEW S, NEW y \in Seq(S), Len(y) = 5
  PROVE  /\ Tail(y) \in Seq(S) /\ Len(Tail(y)) = 4
         /\ Tail(y)[1] = y[2] /\ Tail(y)[2] = y[3] /\ Tail(y)[3] = y[4] /\ Tail(y)[4] = y[5]
         /\ y[1] \in S /\ y = <<y[1]>> \o Tail(y)
<1>1. y # <<>>
  OBVIOUS
<1> DEFINE x == Tail(y)
<1>2. /\ x \in Seq(S) /\ Len(x) = Len(y) - 1
      /\ \A i \in 1..Len(x) : x[i] = y[i + 1]
  BY <1>1, HeadTailProperties
<1> HIDE DEF x
<1>3. Len(x) = 4 /\ x[1] = y[2] /\ x[2] = y[3] /\ x[3] = y[4] /\ x[4] = y[5]
  BY <1>2
<1>4. y[1] \in S
  OBVIOUS
<1> DEFINE z == <<y[1]>> \o x
<1>5. z \in Seq(S) /\ Len(z) = 5 /\ z[1] = y[1] /\ z[2] = x[1] /\ z[3] = x[2]
      /\ z[4] = x[3] /\ z[5] = x[4]
  BY <1>2, <1>3, <1>4, Prefixed
<1> HIDE DEF z
<1>6. y = z
  BY <1>3, <1>5, SameFive
<1> QED  BY <1>2, <1>3, <1>4, <1>6 DEF x, z

LEMMA PreciseEncoded ==
  ASSUME NEW o \in Observation, o.temperature \in SignedRange(2),
         o.pressure \in 0..Power[4] - 1, o.humidity \in 0..Power[2] - 1
  PROVE  LET x == Precise(o)
         IN  /\ x \in Seq(Blobs) /\ Len(x) = 4
             /\ Len(x[1]) = 8 /\ Len(x[2]) = 2 /\ Len(x[3]) = 4 /\ Len(x[4]) = 2
             /\ Signed(x[1]) = o.time /\ Signed(x[2]) = o.temperature
             /\ Unsigned(x[3]) = o.pressure /\ Unsigned(x[4]) = o.humidity
<1>1. o.time \in Dates /\ 4 \in {2, 4}
  BY DEF Observation
<1>2. /\ Pack(o.time, 8) \in Blobs /\ Len(Pack(o.time, 8)) = 8
      /\ Signed(Pack(o.time, 8)) = o.time
      /\ Pack(o.temperature, 2) \in Blobs /\ Len(Pack(o.temperature, 2)) = 2
      /\ Signed(Pack(o.temperature, 2)) = o.temperature
      /\ Pack(o.pressure, 4) \in Blobs /\ Len(Pack(o.pressure, 4)) = 4
      /\ Unsigned(Pack(o.pressure, 4)) = o.pressure
      /\ Pack(o.humidity, 2) \in Blobs /\ Len(Pack(o.humidity, 2)) = 2
      /\ Unsigned(Pack(o.humidity, 2)) = o.humidity
  BY <1>1, NumbersRestored DEF Blobs
<1> QED  BY <1>2 DEF Precise

(* The four Symbols of an observation without a source, and what 0002 and       *)
(* today's readers make of them.                                                *)
LEMMA LegacyWritten ==
  ASSUME NEW w, Writable(w), Legacy(w)
  PROVE  /\ WrittenAs(w) \in Seq(Blobs) /\ Len(WrittenAs(w)) = 4
         /\ IsIndexable(WrittenAs(w))
         /\ IndexRow(WrittenAs(w)) = RowOf(w.value)
         /\ Final(w) = <<Local>> \o WrittenAs(w)
<1> DEFINE x == WrittenAs(w)
           o == w.value
<1>1. CASE w.kind = "compact"
  <2>1. Rounded(o) /\ o.source = Local
    BY <1>1 DEF Writable
  <2>2. o \in Observation /\ Encodable(o) /\ o.time \in Dates
    BY <2>1 DEF Rounded, Observation
  <2>3. x = Tail(EncodeObservation(o)) /\ Final(w) = EncodeObservation(o)
    BY <1>1 DEF WrittenAs, Final
  <2>4. /\ DecodeObservation(EncodeObservation(o)) = o /\ ~IsPrecise(EncodeObservation(o))
    BY <2>1, <2>2, RoundedRestored, EncodedDecodes
  <2> DEFINE y == EncodeObservation(o)
  <2>5. /\ y \in Seq(Blobs) /\ Len(y) = 5 /\ y[1] = o.source
        /\ Len(y[2]) = 8 /\ Len(y[3]) = 2 /\ Len(y[4]) = 2 /\ Len(y[5]) = 2
        /\ Signed(y[2]) = o.time
    BY <2>2, Encoded DEF Blobs
  <2>6. /\ x \in Seq(Blobs) /\ Len(x) = 4 /\ x[1] = y[2] /\ x[2] = y[3]
        /\ x[3] = y[4] /\ x[4] = y[5] /\ y = <<Local>> \o x
    BY <2>1, <2>3, <2>5, TailOfFive
  <2> HIDE DEF x, y, o
  <2>7. Lengths(x) = <<8, 2, 2, 2>> /\ Lengths(x) # <<8, 2, 4, 2>>
    <3>1. Len(x[1]) = 8 /\ Len(x[2]) = 2 /\ Len(x[3]) = 2 /\ Len(x[4]) = 2
      BY <2>5, <2>6
    <3>2. /\ Lengths(x) = <<8, 2, 2, 2>> <=>
               Len(x) = 4 /\ Len(x[1]) = 8 /\ Len(x[2]) = 2 /\ Len(x[3]) = 2 /\ Len(x[4]) = 2
          /\ Lengths(x) = <<8, 2, 4, 2>> <=>
               Len(x) = 4 /\ Len(x[1]) = 8 /\ Len(x[2]) = 2 /\ Len(x[3]) = 4 /\ Len(x[4]) = 2
      BY <2>6, ShapeOfLegacy
    <3>3. Len(x[3]) # 4
      BY <3>1
    <3> QED  BY <2>6, <3>1, <3>2, <3>3, Zenon
  <2>8. IsIndexable(x)
    BY <2>2, <2>5, <2>6, <2>7 DEF IsIndexable, IsLegacy, LegacyShapes
  <2>9. /\ o.temperature = 10 * Signed(y[3]) /\ o.pressure = 100 * Unsigned(y[4])
        /\ o.humidity = 10 * Unsigned(y[5])
    BY <2>4 DEF DecodeObservation, y
  <2>10. IndexRow(x) = RowOf(o)
    BY <2>5, <2>6, <2>7, <2>9 DEF IndexRow, RowOf
  <2>11. Final(w) = y
    BY <2>3 DEF y
  <2> QED  BY <2>6, <2>8, <2>10, <2>11 DEF x, o
<1>2. CASE w.kind = "precise"
  <2>1. /\ o \in Observation /\ o.source = Local /\ o.temperature \in SignedRange(2)
        /\ o.pressure \in 0..Power[4] - 1 /\ o.humidity \in 0..Power[2] - 1
    BY <1>2 DEF Writable
  <2>2. x = Precise(o) /\ Final(w) = <<Local>> \o x
    BY <1>2 DEF WrittenAs, Final
  <2>3. /\ x \in Seq(Blobs) /\ Len(x) = 4
        /\ Len(x[1]) = 8 /\ Len(x[2]) = 2 /\ Len(x[3]) = 4 /\ Len(x[4]) = 2
        /\ Signed(x[1]) = o.time /\ Signed(x[2]) = o.temperature
        /\ Unsigned(x[3]) = o.pressure /\ Unsigned(x[4]) = o.humidity
    BY <2>1, <2>2, PreciseEncoded
  <2>4. o.time \in Dates
    BY <2>1 DEF Observation
  <2> HIDE DEF x, o
  <2>5. Lengths(x) = <<8, 2, 4, 2>>
    BY <2>3, ShapeOfLegacy
  <2>6. IsIndexable(x)
    BY <2>3, <2>4, <2>5 DEF IsIndexable, IsLegacy, LegacyShapes
  <2>7. IndexRow(x) = RowOf(o)
    BY <2>3, <2>5 DEF IndexRow, RowOf
  <2> QED  BY <2>2, <2>3, <2>6, <2>7 DEF x, o
<1> QED  BY <1>1, <1>2 DEF Legacy

LEMMA AssessmentWritten ==
  ASSUME NEW o \in [time : Dates, percentage : 0..MaxPercent]
  PROVE  LET x == EncodeAirQuality(o.time, o.percentage)
         IN  /\ x \in Seq(Blobs) /\ Len(x) = 2
             /\ x[1] \in Blobs /\ Len(x[1]) = 8 /\ x[1] = Pack(o.time, 8)
             /\ DecodeAirQuality(x) = o
<1> DEFINE time == o.time
           percentage == o.percentage
<1>1. time \in SignedRange(8) /\ percentage \in Nat /\ percentage <= MaxPercent
  BY DatesFit, PercentFits
<1>2. o = [time |-> time, percentage |-> percentage]
  OBVIOUS
<1> HIDE DEF time, percentage
<1>3. time \in Int
  BY <1>1, PowerPositive DEF SignedRange
<1>4. Power[1] = Base /\ 1 \in Nat \ {0}
  <2>1. 1 \in Nat \ {0} /\ 1 - 1 = 0
    OBVIOUS
  <2> QED  BY <2>1, PowerEquation, BaseIsEven
<1>5. percentage \in 0..Power[1] - 1
  BY <1>1, <1>4, PercentFits, BaseIsEven
<1>6. Pack(time, 8) \in Seq(Byte) /\ Len(Pack(time, 8)) = 8 /\ Signed(Pack(time, 8)) = time
  <2>1. Signed(Pack(time, 8)) = time
    BY <1>1, IntegerRestored
  <2> QED  BY <1>3, <2>1, PackType
<1>7. Pack(percentage, 1) \in Seq(Byte) /\ Unsigned(Pack(percentage, 1)) = percentage
  <2>1. Unsigned(Pack(percentage, 1)) = percentage
    BY <1>5, NaturalRestored
  <2> QED  BY <1>1, <2>1, PackType
<1> DEFINE x == <<Pack(time, 8), Pack(percentage, 1)>>
<1>8. x \in Seq(Blobs) /\ Len(x) = 2 /\ x[1] = Pack(time, 8) /\ x[2] = Pack(percentage, 1)
  BY <1>6, <1>7 DEF Blobs
<1>9. EncodeAirQuality(o.time, o.percentage) = x
  BY DEF EncodeAirQuality, time, percentage
<1> HIDE DEF x
<1>10. DecodeAirQuality(x) = o
  BY <1>2, <1>6, <1>7, <1>8 DEF DecodeAirQuality
<1>11. x[1] \in Blobs /\ Len(x[1]) = 8 /\ x[1] = Pack(o.time, 8)
  BY <1>6, <1>8 DEF Blobs, time
<1> QED  BY <1>8, <1>9, <1>10, <1>11

LEMMA LegacyLength ==
  ASSUME NEW x \in Seq(Blobs), Len(x) # 4
  PROVE  ~IsLegacy(x)
<1>1. 2 \in Nat /\ 4 \in Nat
  OBVIOUS
<1>2. Lengths(x) # <<8, 2, 2, 2>>
  BY <1>1, ShapeOfLegacy
<1>3. Lengths(x) # <<8, 2, 4, 2>>
  BY <1>1, ShapeOfLegacy
<1> QED  BY <1>2, <1>3 DEF IsLegacy, LegacyShapes

LEMMA OthersWritten ==
  ASSUME NEW w, Writable(w), ~Legacy(w)
  PROVE  LET x == WrittenAs(w)
         IN  /\ x \in Seq(Blobs) /\ ~IsLegacy(x)
             /\ IF Len(x) = 5 /\ x[1] = Marker THEN Resourced(x, Final(w)) ELSE Final(w) = x
<1> DEFINE x == WrittenAs(w)
           o == w.value
<1>1. CASE w.kind = "marked"
  <2>1. Rounded(o) /\ o.source = Local
    BY <1>1 DEF Writable
  <2>2. o \in Observation /\ Encodable(o)
    BY <2>1 DEF Rounded
  <2> DEFINE y == EncodeObservation(o)
  <2>3. x = <<Marker>> \o Tail(y) /\ Final(w) = y
    BY <1>1 DEF WrittenAs, Final
  <2>4. y \in Seq(Blobs) /\ Len(y) = 5 /\ y[1] = Local
    BY <2>1, <2>2, Encoded DEF Blobs
  <2> HIDE DEF y
  <2>5. Tail(y) \in Seq(Blobs) /\ Len(Tail(y)) = 4 /\ y = <<Local>> \o Tail(y)
    BY <2>4, TailOfFive
  <2>6. Local \in Blobs /\ Marker \in Blobs
    BY SourcesAreBytes DEF Blobs
  <2> DEFINE z == <<Marker>> \o Tail(y)
  <2>7. z \in Seq(Blobs) /\ Len(z) = 5 /\ z[1] = Marker
    BY <2>5, <2>6, Prefixed
  <2>8. Resourced(z, <<Local>> \o Tail(y))
    BY <2>5, PrefixReplaced
  <2> HIDE DEF z
  <2>9. ~IsLegacy(z)
    <3>1. z \in Seq(Blobs) /\ Len(z) # 4
      BY <2>7
    <3> QED  BY <3>1, LegacyLength
  <2>10. x = z
    BY <2>3 DEF z
  <2> HIDE DEF x
  <2> QED  BY <2>3, <2>5, <2>7, <2>8, <2>9, <2>10 DEF x
<1>2. CASE w.kind = "environment"
  <2>1. Rounded(o) /\ o.source # Marker
    BY <1>2 DEF Writable
  <2>2. o \in Observation /\ Encodable(o)
    BY <2>1 DEF Rounded
  <2>3. x = EncodeObservation(o) /\ Final(w) = x
    BY <1>2 DEF WrittenAs, Final
  <2>4. x \in Seq(Blobs) /\ Len(x) = 5 /\ x[1] = o.source
    BY <2>2, <2>3, Encoded DEF Blobs
  <2> HIDE DEF x
  <2>5. ~IsLegacy(x)
    <3>1. x \in Seq(Blobs) /\ Len(x) # 4
      BY <2>4
    <3> QED  BY <3>1, LegacyLength
  <2> QED  BY <2>1, <2>3, <2>4, <2>5 DEF x
<1>3. CASE w.kind = "air_quality"
  <2>1. o \in [time : Dates, percentage : 0..MaxPercent]
    BY <1>3 DEF Writable
  <2>2. x = EncodeAirQuality(o.time, o.percentage) /\ Final(w) = x
    BY <1>3 DEF WrittenAs, Final
  <2>3. x \in Seq(Blobs) /\ Len(x) = 2
    BY <2>1, <2>2, AssessmentWritten
  <2> HIDE DEF x
  <2>4. ~IsLegacy(x)
    BY <2>3, LegacyLength
  <2> QED  BY <2>2, <2>3, <2>4 DEF x
<1>4. CASE w.kind = "other"
  <2>1. Foreign(o) /\ x = o /\ Final(w) = x
    BY <1>4 DEF Writable, WrittenAs, Final
  <2>2. x \in Seq(Blobs) /\ ~IsLegacy(x) /\ (Len(x) = 5 => x[1] # Marker)
    BY <2>1 DEF Foreign, Blobs
  <2> HIDE DEF x
  <2> QED  BY <2>1, <2>2 DEF x
<1>5. w.kind \in {"marked", "environment", "air_quality", "other"}
  BY DEF Writable, Legacy
<1> QED  BY <1>1, <1>2, <1>3, <1>4, <1>5

(* What 0003, 0004 and 0005 do to each Term, and that they know which. *)
LEMMA Converted ==
  ASSUME NEW w, Writable(w)
  PROVE  /\ WrittenAs(w) \in Seq(Blobs) /\ AsMarked(w) \in Seq(Blobs) /\ Final(w) \in Seq(Blobs)
         /\ IsLegacy(WrittenAs(w)) <=> Legacy(w)
         /\ ~IsLegacy(AsMarked(w))
         /\ IF Len(AsMarked(w)) = 5 /\ AsMarked(w)[1] = Marker
            THEN Resourced(AsMarked(w), Final(w)) ELSE Final(w) = AsMarked(w)
<1>1. Local \in Blobs /\ Marker \in Blobs
  BY SourcesAreBytes DEF Blobs
<1>2. CASE Legacy(w)
  <2> DEFINE x == WrittenAs(w)
             z == <<Marker>> \o x
             y == <<Local>> \o x
  <2>1. x \in Seq(Blobs) /\ Len(x) = 4 /\ IsLegacy(x) /\ Final(w) = y
    BY <1>2, LegacyWritten DEF IsIndexable
  <2>2. AsMarked(w) = z
    BY <1>2 DEF AsMarked
  <2> HIDE DEF x
  <2>3. z \in Seq(Blobs) /\ Len(z) = 5 /\ z[1] = Marker /\ y \in Seq(Blobs)
    BY <1>1, <2>1, Prefixed
  <2>4. Resourced(z, y)
    BY <2>1, PrefixReplaced
  <2> HIDE DEF z, y
  <2>5. ~IsLegacy(z)
    <3>1. z \in Seq(Blobs) /\ Len(z) # 4
      BY <2>3
    <3> QED  BY <3>1, LegacyLength
  <2> QED  BY <1>2, <2>1, <2>2, <2>3, <2>4, <2>5 DEF x
<1>3. CASE ~Legacy(w)
  <2> DEFINE x == WrittenAs(w)
  <2>1. /\ x \in Seq(Blobs) /\ ~IsLegacy(x)
        /\ IF Len(x) = 5 /\ x[1] = Marker THEN Resourced(x, Final(w)) ELSE Final(w) = x
    BY <1>3, OthersWritten
  <2>2. AsMarked(w) = x
    BY <1>3 DEF AsMarked
  <2> HIDE DEF x
  <2>3. Final(w) \in Seq(Blobs)
    BY <2>1 DEF Resourced
  <2> QED  BY <1>3, <2>1, <2>2, <2>3 DEF x
<1> QED  BY <1>2, <1>3

-----------------------------------------------------------------------------
(* The inductive invariant *)

(* What a Term consists of once so many migrations are applied: 0004 finds      *)
(* those that 0003 has marked among those written since.                        *)
Forms(applied, w) ==
  CASE applied \in 1..2 -> {WrittenAs(w)}
    [] applied = 3 -> {WrittenAs(w), AsMarked(w)}
    [] applied = 4 -> {AsMarked(w)}
    [] applied = 5 -> {Final(w)}

(* What the next migration makes of it. *)
Goal(applied, w) ==
  CASE applied = 1 -> WrittenAs(w)
    [] applied \in 2..3 -> AsMarked(w)
    [] applied = 4 -> Final(w)

IsRecord(image) ==
  image = [rel |-> image.rel, index |-> image.index, applied |-> image.applied]

Shaped ==
  /\ IsRecord(db) /\ DOMAIN db.rel = DOMAIN origin
  /\ IsRecord(work) /\ DOMAIN work.rel = DOMAIN origin
  /\ DOMAIN db.index \subseteq DOMAIN origin /\ DOMAIN work.index \subseteq DOMAIN origin
  /\ db.applied \in 1..5
  /\ pc \in {"idle", "scan", "away", "back", "mark"}
  /\ at \in {0} \cup DOMAIN origin
  /\ orders \in Seq(Nat)
  /\ done \in 0..3
  /\ batch \subseteq DOMAIN origin
  /\ crashes \in 0..MaxCrashes

Grown ==
  /\ Cardinality(DOMAIN origin) \in Nat
  /\ DOMAIN origin = 1..Cardinality(DOMAIN origin)
  /\ \A t \in DOMAIN origin : Writable(origin[t])

Settled ==
  /\ \A t \in DOMAIN origin : \E x \in Forms(db.applied, origin[t]) : db.rel[t] = Relations(x)
  /\ db.applied = 1 => db.index = <<>>

Reached(t) == work.rel[t] = Relations(Goal(db.applied, origin[t]))

(* Where the k-th relation of the Term is that is being moved. *)
Place(k) ==
  CASE pc = "away" -> IF k <= done THEN k + 9 ELSE k - 1
    [] pc = "back" -> IF k <= done THEN k ELSE k + 9
    [] OTHER -> k

Holds(term, places, x) ==
  /\ DOMAIN term = {places[k] : k \in 1..4}
  /\ \A k \in 1..4 : term[places[k]] = x[k]

Moving ==
  /\ db.applied \in 2..3 /\ at \in DOMAIN origin /\ Legacy(origin[at])
  /\ orders = [k \in 1..4 |-> Place(k)]
  /\ Holds(work.rel[at], orders, WrittenAs(origin[at]))

(* 0002 has a row, or one to insert, for each observation it has passed. *)
Indexing ==
  /\ batch \cap DOMAIN work.index = {}
  /\ batch \cup DOMAIN work.index = {t \in DOMAIN origin : t <= at /\ Legacy(origin[t])}
  /\ \A t \in DOMAIN work.index : work.index[t] = RowOf(origin[t].value)

Migrating ==
  /\ \A t \in DOMAIN origin :
       /\ t < at \/ (t = at /\ pc = "scan") => Reached(t)
       /\ t > at => work.rel[t] = db.rel[t]
  /\ pc # "scan" => Moving
  /\ db.applied = 1 => Indexing
  /\ work.applied = db.applied /\ db.applied < 5

IInv ==
  /\ Shaped /\ Grown /\ Settled
  /\ IF pc = "idle" THEN work = db ELSE Migrating

-----------------------------------------------------------------------------

LEMMA FormsAreBlobs ==
  ASSUME NEW w, Writable(w), NEW applied \in 1..5, NEW x \in Forms(applied, w)
  PROVE  x \in Seq(Blobs)
<1>1. x \in {WrittenAs(w), AsMarked(w), Final(w)}
  BY DEF Forms
<1> QED  BY <1>1, Converted

LEMMA GoalIsForm ==
  ASSUME NEW w, NEW applied \in 1..4
  PROVE  Goal(applied, w) \in Forms(applied + 1, w)
<1>1. CASE applied = 1
  BY <1>1 DEF Goal, Forms
<1>2. CASE applied = 2
  BY <1>2 DEF Goal, Forms
<1>3. CASE applied = 3
  BY <1>3 DEF Goal, Forms
<1>4. CASE applied = 4
  BY <1>4 DEF Goal, Forms
<1> QED  BY <1>1, <1>2, <1>3, <1>4

(* What a migration finds in a Term that it has not passed. *)
LEMMA Ahead ==
  ASSUME IInv, pc = "scan", NEW t \in DOMAIN origin, t > at
  PROVE  \E x \in Forms(db.applied, origin[t]) :
           /\ x \in Seq(Blobs)
           /\ work.rel[t] = Relations(x)
           /\ AtomsOf(work.rel[t]) = x
           /\ Cardinality(DOMAIN work.rel[t]) = Len(x)
<1>1. work.rel[t] = db.rel[t] /\ Writable(origin[t]) /\ db.applied \in 1..5
  BY DEF IInv, Migrating, Grown, Shaped
<1>2. PICK x \in Forms(db.applied, origin[t]) : db.rel[t] = Relations(x)
  BY DEF IInv, Settled
<1>3. x \in Seq(Blobs)
  BY <1>1, FormsAreBlobs
<1>4. AtomsOf(Relations(x)) = x
  BY <1>3, AtomsOfRelations
<1>5. Cardinality(DOMAIN Relations(x)) = Len(x)
  BY <1>3, RelationsShape
<1> QED  BY <1>1, <1>2, <1>3, <1>4, <1>5

(* A Term that no migration would touch is already what it is to be. *)
Wanted(applied) == IF applied = 4 THEN 5 ELSE 4

LEMMA Unwanted ==
  ASSUME NEW w, Writable(w), NEW applied \in 1..4, NEW x \in Forms(applied, w),
         \/ Len(x) # Wanted(applied)
         \/ applied < 4 /\ ~IsLegacy(x)
         \/ applied = 4 /\ x[1] # Marker
  PROVE  x = Goal(applied, w) /\ (applied = 1 => ~Legacy(w))
<1>1. x \in Seq(Blobs)
  BY FormsAreBlobs
<1>2. CASE applied < 4
  <2>1. ~IsLegacy(x)
    BY <1>1, <1>2, LegacyLength DEF Wanted
  <2>2. CASE applied = 1
    <3>1. x = WrittenAs(w) /\ Goal(applied, w) = x
      BY <2>2 DEF Forms, Goal
    <3> QED  BY <2>1, <3>1, Converted
  <2>3. CASE applied \in 2..3
    <3>1. x \in {WrittenAs(w), AsMarked(w)} /\ Goal(applied, w) = AsMarked(w) /\ applied # 1
      BY <2>3 DEF Forms, Goal
    <3>2. x = WrittenAs(w) => AsMarked(w) = x
      BY <2>1, Converted DEF AsMarked
    <3> QED  BY <3>1, <3>2
  <2> QED  BY <1>2, <2>2, <2>3
<1>3. CASE applied = 4
  <2>1. x = AsMarked(w) /\ Goal(applied, w) = Final(w)
    BY <1>3 DEF Forms, Goal
  <2>2. ~(Len(x) = 5 /\ x[1] = Marker)
    BY <1>3 DEF Wanted
  <2> QED  BY <1>3, <2>1, <2>2, Converted
<1> QED  BY <1>2, <1>3

LEMMA Passed ==
  ASSUME IInv, pc = "scan", NEW t \in DOMAIN origin, t > at,
         \/ Cardinality(DOMAIN work.rel[t]) # Wanted(db.applied)
         \/ db.applied < 4 /\ ~IsLegacy(AtomsOf(work.rel[t]))
         \/ db.applied = 4 /\ AtomsOf(work.rel[t])[1] # Marker
  PROVE  Reached(t) /\ (db.applied = 1 => ~Legacy(origin[t]))
<1>1. Writable(origin[t]) /\ db.applied \in 1..4
  BY DEF IInv, Migrating, Grown, Shaped
<1>2. PICK x \in Forms(db.applied, origin[t]) :
           /\ x \in Seq(Blobs)
           /\ work.rel[t] = Relations(x)
           /\ AtomsOf(work.rel[t]) = x
           /\ Cardinality(DOMAIN work.rel[t]) = Len(x)
  BY Ahead
<1>3. \/ Len(x) # Wanted(db.applied)
      \/ db.applied < 4 /\ ~IsLegacy(x)
      \/ db.applied = 4 /\ x[1] # Marker
  BY <1>2
<1>4. x = Goal(db.applied, origin[t]) /\ (db.applied = 1 => ~Legacy(origin[t]))
  BY <1>1, <1>3, Unwanted
<1> QED  BY <1>2, <1>4 DEF Reached

(* The next Term with so many relations is the first one that can change. *)
LEMMA Approach ==
  ASSUME IInv, pc = "scan", NEW t, IsFirst(t, Rest(Wanted(db.applied)))
  PROVE  /\ t \in DOMAIN origin /\ t \in Nat /\ t > at
         /\ \A u \in DOMAIN origin : u < t => Reached(u)
         /\ db.applied = 1 => \A u \in DOMAIN origin : u > at /\ u < t => ~Legacy(origin[u])
<1>1. DOMAIN work.rel = DOMAIN origin /\ DOMAIN origin \subseteq Nat /\ at \in Nat
  BY DEF IInv, Shaped, Grown
<1>2. t \in DOMAIN origin /\ t \in Nat /\ t > at
  BY <1>1 DEF IsFirst, Rest
<1>3. ASSUME NEW u \in DOMAIN origin, u < t, u > at
      PROVE  Reached(u) /\ (db.applied = 1 => ~Legacy(origin[u]))
  <2>1. u \notin Rest(Wanted(db.applied))
    BY <1>1, <1>2, <1>3 DEF IsFirst
  <2>2. Cardinality(DOMAIN work.rel[u]) # Wanted(db.applied)
    BY <1>1, <1>3, <2>1 DEF Rest
  <2> QED  BY <1>3, <2>2, Passed
<1>4. ASSUME NEW u \in DOMAIN origin, u <= at PROVE Reached(u)
  BY <1>1, <1>4 DEF IInv, Migrating
<1> QED  BY <1>1, <1>2, <1>3, <1>4

LEMMA Finished ==
  ASSUME IInv, pc = "scan", Rest(Wanted(db.applied)) = {}
  PROVE  /\ \A u \in DOMAIN origin : Reached(u)
         /\ db.applied = 1 => \A u \in DOMAIN origin : u > at => ~Legacy(origin[u])
<1>1. DOMAIN work.rel = DOMAIN origin /\ DOMAIN origin \subseteq Nat /\ at \in Nat
  BY DEF IInv, Shaped, Grown
<1>2. ASSUME NEW u \in DOMAIN origin, u > at
      PROVE  Reached(u) /\ (db.applied = 1 => ~Legacy(origin[u]))
  <2>1. Cardinality(DOMAIN work.rel[u]) # Wanted(db.applied)
    BY <1>1, <1>2 DEF Rest
  <2> QED  BY <1>2, <2>1, Passed
<1>3. ASSUME NEW u \in DOMAIN origin, u <= at PROVE Reached(u)
  BY <1>1, <1>3 DEF IInv, Migrating
<1> QED  BY <1>1, <1>2, <1>3

-----------------------------------------------------------------------------
(* Each step keeps it *)

LEMMA Initially == Init => IInv
<1> SUFFICES ASSUME Init PROVE IInv
  OBVIOUS
<1>1. PICK founding \in Foundings :
        /\ origin = founding
        /\ db = [rel |-> [t \in DOMAIN founding |-> Relations(WrittenAs(founding[t]))],
                 index |-> <<>>, applied |-> 1]
  BY DEF Init
<1>2. work = db /\ pc = "idle" /\ at = 0 /\ orders = <<>> /\ done = 0 /\ batch = {} /\ crashes = 0
  BY DEF Init
<1>3. Grown
  BY <1>1, FoundingsAreTerms DEF Grown
<1>4. DOMAIN <<>> = {} /\ <<>> \in Seq(Nat)
  OBVIOUS
<1>5. db.rel = [t \in DOMAIN origin |-> Relations(WrittenAs(origin[t]))]
      /\ db.index = <<>> /\ db.applied = 1
  BY <1>1
<1>6. IsRecord(db) /\ IsRecord(work)
  BY <1>1, <1>2 DEF IsRecord
<1>7. Shaped
  BY <1>2, <1>4, <1>5, <1>6, CrashesAreBounded DEF Shaped
<1>8. Settled
  BY <1>5 DEF Settled, Forms
<1> QED  BY <1>2, <1>3, <1>7, <1>8 DEF IInv

(* A Term that is added has the form of its time. *)
LEMMA TimelyForm ==
  ASSUME NEW w, Writable(w), Timely(w), db.applied \in 1..5
  PROVE  WrittenAs(w) \in Forms(db.applied, w)
<1>1. CASE db.applied \in 1..3
  BY <1>1 DEF Forms
<1>2. CASE db.applied = 4
  <2>1. ~Legacy(w)
    BY <1>2 DEF Timely, Legacy
  <2> QED  BY <1>2, <2>1 DEF Forms, AsMarked
<1>3. CASE db.applied = 5
  <2>1. w.kind \notin {"compact", "precise", "marked"}
    BY <1>3 DEF Timely
  <2>2. Final(w) = WrittenAs(w)
    BY <2>1 DEF Final
  <2> QED  BY <1>3, <2>2 DEF Forms
<1> QED  BY <1>1, <1>2, <1>3

LEMMA AddKeeps == ASSUME IInv, Add PROVE IInv'
<1> DEFINE new == Cardinality(DOMAIN origin) + 1
<1>1. PICK w \in Additions :
        /\ Timely(w)
        /\ origin' = With(origin, new, w)
        /\ db' = [db EXCEPT !.rel = With(@, new, Relations(WrittenAs(w)))]
  BY DEF Add
<1>2. /\ work' = db' /\ pc' = pc /\ pc = "idle" /\ work = db
      /\ at' = at /\ orders' = orders /\ done' = done /\ batch' = batch /\ crashes' = crashes
  BY DEF Add, localVars, Resting, IInv, Shaped
<1>3. Writable(w)
  BY AdditionsAreTerms
<1>4. new \in Nat /\ new \notin DOMAIN origin /\ DOMAIN origin \cup {new} = 1..new
  BY DEF IInv, Grown
<1> HIDE DEF new
<1>5. /\ DOMAIN origin' = 1..new /\ origin'[new] = w
      /\ \A t \in DOMAIN origin : origin'[t] = origin[t]
  BY <1>1, <1>4 DEF With
<1>6. db'.rel = With(db.rel, new, Relations(WrittenAs(w)))
      /\ db'.index = db.index /\ db'.applied = db.applied /\ IsRecord(db)'
  BY <1>1 DEF IInv, Shaped, IsRecord
<1>7. DOMAIN db.rel = DOMAIN origin
  BY DEF IInv, Shaped
<1>8. /\ DOMAIN db'.rel = DOMAIN origin' /\ db'.rel[new] = Relations(WrittenAs(w))
      /\ \A t \in DOMAIN origin : db'.rel[t] = db.rel[t]
  BY <1>4, <1>5, <1>6, <1>7 DEF With
<1>9. Cardinality(DOMAIN origin') = new
  <2>1. 1 \in Int /\ new \in Int /\ new > 0
    BY <1>4 DEF new, IInv, Grown
  <2>2. Cardinality(1..new) = IF 1 > new THEN 0 ELSE new - 1 + 1
    BY <2>1, FS_Interval
  <2> QED  BY <1>5, <2>1, <2>2
<1>10. \A t \in DOMAIN origin' : t = new \/ t \in DOMAIN origin
  BY <1>4, <1>5
<1>11. Grown'
  BY <1>3, <1>4, <1>5, <1>9, <1>10 DEF IInv, Grown
<1>12. DOMAIN origin \subseteq DOMAIN origin'
  BY <1>4, <1>5
<1>13. Shaped'
  <2>1. IsRecord(work)'
    BY <1>2, <1>6 DEF IsRecord
  <2> QED  BY <1>2, <1>6, <1>8, <1>12, <2>1 DEF IInv, Shaped
<1>14. Settled'
  <2>1. ASSUME NEW t \in DOMAIN origin'
        PROVE  \E x \in Forms(db'.applied, origin'[t]) : db'.rel[t] = Relations(x)
    <3>1. CASE t = new
      <4>1. WrittenAs(w) \in Forms(db.applied, w)
        BY <1>1, <1>3, TimelyForm DEF IInv, Shaped
      <4> QED  BY <1>5, <1>6, <1>8, <3>1, <4>1
    <3>2. CASE t \in DOMAIN origin
      BY <1>5, <1>6, <1>8, <3>2 DEF IInv, Settled
    <3> QED  BY <1>10, <3>1, <3>2
  <2> QED  BY <1>6, <2>1 DEF IInv, Settled
<1> QED  BY <1>2, <1>11, <1>13, <1>14 DEF IInv

LEMMA BeginKeeps == ASSUME IInv, Begin PROVE IInv'
<1>1. /\ pc' = "scan" /\ at' = 0 /\ orders' = <<>> /\ done' = 0 /\ batch' = {}
      /\ db' = db /\ work' = work /\ crashes' = crashes /\ origin' = origin
      /\ work = db /\ db.applied < 5
  BY DEF Begin, Resting, IInv, Shaped
<1>2. <<>> \in Seq(Nat) /\ DOMAIN <<>> = {}
  OBVIOUS
<1>3. Shaped'
  BY <1>1, <1>2 DEF IInv, Shaped, IsRecord
<1>4. Grown' /\ Settled'
  BY <1>1 DEF IInv, Grown, Settled
<1>5. \A t \in DOMAIN origin : t \in Nat /\ t > 0
  BY DEF IInv, Grown
<1>6. db.applied = 1 => Indexing'
  BY <1>1, <1>2, <1>5 DEF IInv, Settled, Indexing
<1>7. Migrating'
  BY <1>1, <1>5, <1>6 DEF Migrating
<1> QED  BY <1>1, <1>3, <1>4, <1>7 DEF IInv

LEMMA CrashKeeps == ASSUME IInv, Crash PROVE IInv'
<1>1. /\ crashes < MaxCrashes /\ crashes' = crashes + 1 /\ work' = db /\ pc' = "idle" /\ db' = db
      /\ at' = at /\ orders' = orders /\ done' = done /\ batch' = batch /\ origin' = origin
  BY DEF Crash, localVars
<1>2. Shaped'
  BY <1>1, CrashesAreBounded DEF IInv, Shaped, IsRecord
<1>3. Grown' /\ Settled'
  BY <1>1 DEF IInv, Grown, Settled
<1> QED  BY <1>1, <1>2, <1>3 DEF IInv

(* Every migration commits what it has made of all the Terms. *)
LEMMA CommitKeeps ==
  ASSUME IInv, pc = "scan", Rest(Wanted(db.applied)) = {}, NEW image, Commit(image),
         IsRecord(image), image.rel = work.rel, image.applied = work.applied,
         DOMAIN image.index \subseteq DOMAIN origin
  PROVE  IInv' /\ db'.applied = db.applied + 1
<1>1. /\ db' = [image EXCEPT !.applied = @ + 1] /\ work' = db' /\ pc' = "idle"
      /\ at' = at /\ orders' = orders /\ done' = done /\ batch' = batch
      /\ crashes' = crashes /\ origin' = origin
  BY DEF Commit, localVars
<1>2. work.applied = db.applied /\ db.applied \in 1..4
  BY DEF IInv, Migrating, Shaped
<1>3. /\ IsRecord(db)' /\ IsRecord(work)' /\ db'.rel = work.rel /\ db'.index = image.index
      /\ db'.applied = db.applied + 1
  BY <1>1, <1>2 DEF IsRecord
<1>4. Shaped'
  BY <1>1, <1>2, <1>3 DEF IInv, Shaped
<1>5. Grown'
  BY <1>1 DEF IInv, Grown
<1>6. Settled'
  <2>1. ASSUME NEW t \in DOMAIN origin'
        PROVE  \E x \in Forms(db'.applied, origin'[t]) : db'.rel[t] = Relations(x)
    <3>1. Reached(t)
      BY <1>1, <2>1, Finished
    <3>2. Goal(db.applied, origin[t]) \in Forms(db.applied + 1, origin[t])
      BY <1>2, GoalIsForm
    <3> QED  BY <1>1, <1>3, <3>1, <3>2 DEF Reached
  <2> QED  BY <1>2, <1>3, <2>1 DEF Settled
<1> QED  BY <1>1, <1>3, <1>4, <1>5, <1>6 DEF IInv

(* A Term that stays as it is. *)
LEMMA SkipKeeps ==
  ASSUME IInv, pc = "scan", NEW t, IsFirst(t, Rest(Wanted(db.applied))), Skip(t),
         Reached(t), db.applied = 1 => ~Legacy(origin[t])
  PROVE  IInv'
<1>1. /\ at' = t /\ db' = db /\ work' = work /\ pc' = pc /\ orders' = orders /\ done' = done
      /\ batch' = batch /\ crashes' = crashes /\ origin' = origin
  BY DEF Skip
<1>2. /\ t \in DOMAIN origin /\ t \in Nat /\ t > at
      /\ \A u \in DOMAIN origin : u < t => Reached(u)
      /\ db.applied = 1 => \A u \in DOMAIN origin : u > at /\ u < t => ~Legacy(origin[u])
  BY Approach
<1>3. DOMAIN origin \subseteq Nat /\ at \in Nat
  BY DEF IInv, Shaped, Grown
<1>4. Shaped' /\ Grown' /\ Settled'
  BY <1>1, <1>2 DEF IInv, Shaped, IsRecord, Grown, Settled
<1>5. ASSUME db.applied = 1 PROVE Indexing'
  <2>1. {u \in DOMAIN origin : u <= t /\ Legacy(origin[u])}
          = {u \in DOMAIN origin : u <= at /\ Legacy(origin[u])}
    BY <1>2, <1>3, <1>5
  <2>2. Indexing
    BY <1>5 DEF IInv, Migrating
  <2> QED  BY <1>1, <2>1, <2>2 DEF Indexing
<1>6. \A u \in DOMAIN origin : Reached(u) => Reached(u)'
  BY <1>1 DEF Reached
<1>7. Migrating
  BY DEF IInv
<1>8. \A u \in DOMAIN origin :
        /\ u < t \/ u = t => Reached(u)'
        /\ u > t => work'.rel[u] = db'.rel[u]
  BY <1>1, <1>2, <1>3, <1>6, <1>7 DEF Migrating
<1>9. Migrating'
  BY <1>1, <1>5, <1>7, <1>8 DEF Migrating
<1> QED  BY <1>1, <1>4, <1>9 DEF IInv

-----------------------------------------------------------------------------
(* 0002 *)

LEMMA RowsToInsert ==
  ASSUME IInv, pc = "scan", db.applied = 1, NEW rows \in SUBSET DOMAIN origin,
         \A t \in rows : Legacy(origin[t]) /\ work.rel[t] = Relations(WrittenAs(origin[t]))
  PROVE  LET image == Inserted(work, rows)
         IN  /\ IsRecord(image) /\ image.rel = work.rel /\ image.applied = work.applied
             /\ image.index = [t \in rows \cup DOMAIN work.index |->
                                 RowOf(origin[t].value)]
<1>1. IsRecord(work) /\ \A t \in DOMAIN work.index : work.index[t] = RowOf(origin[t].value)
  BY DEF IInv, Shaped, Migrating, Indexing
<1>2. \A t \in rows : IndexRow(AtomsOf(work.rel[t])) = RowOf(origin[t].value)
  <2> SUFFICES ASSUME NEW t \in rows PROVE IndexRow(AtomsOf(work.rel[t])) = RowOf(origin[t].value)
    OBVIOUS
  <2>1. Writable(origin[t]) /\ Legacy(origin[t])
    BY DEF IInv, Grown
  <2>2. /\ WrittenAs(origin[t]) \in Seq(Blobs)
        /\ IndexRow(WrittenAs(origin[t])) = RowOf(origin[t].value)
    BY <2>1, LegacyWritten
  <2>3. AtomsOf(Relations(WrittenAs(origin[t]))) = WrittenAs(origin[t])
    BY <2>2, AtomsOfRelations
  <2> QED  BY <2>2, <2>3
<1> DEFINE index == [t \in rows \cup DOMAIN work.index |->
                       IF t \in rows THEN IndexRow(AtomsOf(work.rel[t])) ELSE work.index[t]]
           image == Inserted(work, rows)
<1>3. image = [rel |-> work.rel, index |-> index, applied |-> work.applied]
  BY <1>1 DEF Inserted, IsRecord
<1>4. index = [t \in rows \cup DOMAIN work.index |-> RowOf(origin[t].value)]
  BY <1>1, <1>2
<1> HIDE DEF index, image
<1>5. image.rel = work.rel /\ image.applied = work.applied /\ image.index = index
  BY <1>3
<1>6. IsRecord(image)
  BY <1>3, <1>5 DEF IsRecord
<1> QED  BY <1>4, <1>5, <1>6 DEF image

(* All the Terms are still what they were written as. *)
LEMMA Untouched ==
  ASSUME IInv, pc = "scan", db.applied = 1, NEW t \in DOMAIN origin
  PROVE  work.rel[t] = Relations(WrittenAs(origin[t])) /\ Reached(t)
<1>1. Goal(db.applied, origin[t]) = WrittenAs(origin[t])
  BY DEF Goal
<1>2. DOMAIN origin \subseteq Nat /\ at \in Nat
  BY DEF IInv, Shaped, Grown
<1>3. t > at => \E x \in Forms(db.applied, origin[t]) : work.rel[t] = Relations(x)
  BY Ahead
<1>4. t > at => work.rel[t] = Relations(WrittenAs(origin[t]))
  BY <1>3 DEF Forms
<1>5. t <= at => Reached(t)
  BY <1>2 DEF IInv, Migrating
<1> QED  BY <1>1, <1>2, <1>4, <1>5 DEF Reached

(* The rows to insert are of observations that have none yet. *)
LEMMA BatchIsNew ==
  ASSUME IInv, pc = "scan", db.applied = 1
  PROVE  /\ batch \in SUBSET DOMAIN origin /\ ~Clash(batch)
         /\ \A t \in batch : Legacy(origin[t])
  BY DEF IInv, Shaped, Migrating, Indexing, Clash

LEMMA PopulateKeeps == ASSUME IInv, PopulateIndex PROVE IInv'
<1>1. pc = "scan" /\ db.applied = 1 /\ Wanted(db.applied) = 4
  BY DEF PopulateIndex, Wanted
<1>2. PICK t \in Rest(4) :
        /\ IsFirst(t, Rest(Wanted(db.applied)))
        /\ IF IsIndexable(AtomsOf(work.rel[t])) THEN AppendRow(t) ELSE Skip(t)
  BY <1>1 DEF PopulateIndex
<1> DEFINE w == origin[t]
<1>3. /\ t \in DOMAIN origin /\ t \in Nat /\ t > at
      /\ \A u \in DOMAIN origin : u < t => Reached(u)
      /\ \A u \in DOMAIN origin : u > at /\ u < t => ~Legacy(origin[u])
  BY <1>1, <1>2, Approach
<1>4. Writable(w)
  BY <1>3 DEF IInv, Grown
<1>5. AtomsOf(work.rel[t]) = WrittenAs(w)
  BY <1>1, <1>3, <1>4, Untouched, Converted, AtomsOfRelations
<1>6. CASE ~IsIndexable(AtomsOf(work.rel[t]))
  <2>1. ~Legacy(w)
    BY <1>4, <1>5, <1>6, LegacyWritten
  <2>2. Reached(t)
    BY <1>1, <1>3, Untouched
  <2> QED  BY <1>1, <1>2, <1>6, <2>1, <2>2, SkipKeeps
<1>7. CASE IsIndexable(AtomsOf(work.rel[t]))
  <2> DEFINE rows == batch \cup {t}
  <2>1. Legacy(w)
    BY <1>4, <1>5, <1>7, Converted DEF IsIndexable
  <2>2. AppendRow(t)
    BY <1>2, <1>7
  <2>3. Shaped /\ Grown /\ Settled /\ Migrating /\ Indexing
    BY <1>1 DEF IInv, Migrating
  <2>4. DOMAIN origin \subseteq Nat /\ at \in Nat
    BY <2>3 DEF Shaped, Grown
  <2>5. {u \in DOMAIN origin : u <= t /\ Legacy(origin[u])}
          = {u \in DOMAIN origin : u <= at /\ Legacy(origin[u])} \cup {t}
    BY <1>3, <2>1, <2>4
  <2>6. rows \cap DOMAIN work.index = {} /\ rows \in SUBSET DOMAIN origin
    BY <1>3, <2>3, <2>4, <2>5 DEF Indexing, Shaped
  <2>7. \A u \in rows :
          Legacy(origin[u]) /\ work.rel[u] = Relations(WrittenAs(origin[u]))
    BY <1>1, <1>3, <2>1, BatchIsNew, Untouched
  <2>8. \A u \in DOMAIN origin : u < t \/ u = t => Reached(u)
    BY <1>1, <1>3, Untouched
  <2>9. \A u \in DOMAIN origin : u > t => work.rel[u] = db.rel[u]
    BY <1>3, <2>3, <2>4 DEF Migrating
  <2>10. CASE Cardinality(rows) < BatchSize
    <3>1. /\ batch' = rows /\ at' = t /\ db' = db /\ work' = work /\ pc' = pc
          /\ orders' = orders /\ done' = done /\ crashes' = crashes /\ origin' = origin
      BY <2>2, <2>10 DEF AppendRow
    <3>2. Shaped' /\ Grown' /\ Settled'
      BY <1>3, <2>3, <2>6, <3>1 DEF Shaped, IsRecord, Grown, Settled
    <3>3. Indexing'
      BY <2>3, <2>5, <2>6, <3>1 DEF Indexing
    <3>4. \A u \in DOMAIN origin : Reached(u) => Reached(u)'
      BY <3>1 DEF Reached
    <3>5. Migrating'
      BY <1>1, <2>3, <2>8, <2>9, <3>1, <3>3, <3>4 DEF Migrating
    <3> QED  BY <1>1, <3>1, <3>2, <3>5 DEF IInv
  <2>11. CASE ~(Cardinality(rows) < BatchSize)
    <3>1. ~Clash(rows)
      BY <2>6 DEF Clash
    <3>2. /\ batch' = {} /\ at' = t /\ work' = Inserted(work, rows) /\ db' = db /\ pc' = pc
          /\ orders' = orders /\ done' = done /\ crashes' = crashes /\ origin' = origin
      BY <2>2, <2>11, <3>1 DEF AppendRow
    <3>3. /\ IsRecord(work)' /\ work'.rel = work.rel /\ work'.applied = work.applied
          /\ work'.index = [u \in rows \cup DOMAIN work.index |-> RowOf(origin[u].value)]
      <4>1. /\ IsRecord(Inserted(work, rows)) /\ Inserted(work, rows).rel = work.rel
            /\ Inserted(work, rows).applied = work.applied
            /\ Inserted(work, rows).index =
                 [u \in rows \cup DOMAIN work.index |-> RowOf(origin[u].value)]
        <5> HIDE DEF rows
        <5> QED  BY <1>1, <2>6, <2>7, RowsToInsert
      <4> QED  BY <3>2, <4>1 DEF IsRecord
    <3>4. Shaped' /\ Grown' /\ Settled'
      BY <1>3, <2>3, <2>6, <3>2, <3>3 DEF Shaped, IsRecord, Grown, Settled
    <3>5. Indexing'
      BY <2>3, <2>5, <3>2, <3>3 DEF Indexing
    <3>6. \A u \in DOMAIN origin : Reached(u) => Reached(u)'
      BY <3>2, <3>3 DEF Reached
    <3>7. Migrating'
      BY <1>1, <2>3, <2>8, <2>9, <3>2, <3>3, <3>5, <3>6 DEF Migrating
    <3> QED  BY <1>1, <3>2, <3>4, <3>7 DEF IInv
  <2> QED  BY <2>10, <2>11
<1> QED  BY <1>6, <1>7

(* What 0002 commits. *)
LEMMA FinishIndexKeeps ==
  ASSUME IInv, FinishIndex
  PROVE  /\ IInv'
         /\ db'.index = [t \in {u \in DOMAIN origin : Legacy(origin[u])} |->
                           RowOf(origin[t].value)]
<1>1. pc = "scan" /\ db.applied = 1 /\ Wanted(db.applied) = 4 /\ Rest(Wanted(db.applied)) = {}
  BY DEF FinishIndex, Wanted
<1> DEFINE image == Inserted(work, batch)
<1>2. Commit(image)
  BY <1>1, BatchIsNew DEF FinishIndex
<1>3. \A t \in batch : Legacy(origin[t]) /\ work.rel[t] = Relations(WrittenAs(origin[t]))
  BY <1>1, BatchIsNew, Untouched
<1>4. /\ IsRecord(image) /\ image.rel = work.rel /\ image.applied = work.applied
      /\ image.index = [t \in batch \cup DOMAIN work.index |-> RowOf(origin[t].value)]
  BY <1>1, <1>3, BatchIsNew, RowsToInsert
<1> HIDE DEF image
<1>5. DOMAIN origin \subseteq Nat /\ at \in Nat /\ Indexing
  BY <1>1 DEF IInv, Shaped, Grown, Migrating
<1>6. batch \cup DOMAIN work.index = {u \in DOMAIN origin : Legacy(origin[u])}
  <2>1. \A u \in DOMAIN origin : u > at => ~Legacy(origin[u])
    BY <1>1, Finished
  <2>2. {u \in DOMAIN origin : u <= at /\ Legacy(origin[u])}
          = {u \in DOMAIN origin : Legacy(origin[u])}
    BY <1>5, <2>1
  <2> QED  BY <1>5, <2>2 DEF Indexing
<1>7. DOMAIN image.index \subseteq DOMAIN origin
  BY <1>4, <1>6
<1>8. IInv'
  BY <1>1, <1>2, <1>4, <1>7, CommitKeeps
<1>9. db'.index = image.index
  BY <1>2, <1>4 DEF Commit, IsRecord
<1> QED  BY <1>4, <1>6, <1>8, <1>9

-----------------------------------------------------------------------------
(* 0003 and 0004 *)

LEMMA MarkKeeps == ASSUME IInv, pc = "scan", db.applied \in 2..3, Mark PROVE IInv'
<1>1. Wanted(db.applied) = 4 /\ db.applied < 4 /\ db.applied # 1
  BY DEF Wanted
<1>2. PICK t \in Rest(4) :
        /\ IsFirst(t, Rest(Wanted(db.applied)))
        /\ IF IsLegacy(AtomsOf(work.rel[t]))
           THEN /\ at' = t
                /\ orders' = OrdersOf(work.rel[t])
                /\ done' = 0
                /\ pc' = "away"
                /\ UNCHANGED <<db, work, batch, crashes, origin>>
           ELSE Skip(t)
  BY <1>1 DEF Mark
<1> DEFINE w == origin[t]
<1>3. /\ t \in DOMAIN origin /\ t \in Nat /\ t > at
      /\ \A u \in DOMAIN origin : u < t => Reached(u)
  BY <1>2, Approach
<1>4. CASE ~IsLegacy(AtomsOf(work.rel[t]))
  <2>1. Reached(t)
    BY <1>1, <1>3, <1>4, Passed
  <2> QED  BY <1>1, <1>2, <1>4, <2>1, SkipKeeps
<1>5. CASE IsLegacy(AtomsOf(work.rel[t]))
  <2>1. Writable(w)
    BY <1>3 DEF IInv, Grown
  <2>2. PICK x \in Forms(db.applied, w) :
          x \in Seq(Blobs) /\ work.rel[t] = Relations(x) /\ AtomsOf(work.rel[t]) = x
    BY <1>3, Ahead
  <2>3. x \in {WrittenAs(w), AsMarked(w)}
    BY <2>2 DEF Forms
  <2>4. x = WrittenAs(w) /\ Legacy(w)
    BY <1>5, <2>1, <2>2, <2>3, Converted
  <2>5. Len(x) = 4
    BY <2>1, <2>4, LegacyWritten
  <2>6. /\ at' = t /\ orders' = OrdersOf(work.rel[t]) /\ done' = 0 /\ pc' = "away"
        /\ db' = db /\ work' = work /\ batch' = batch /\ crashes' = crashes /\ origin' = origin
    BY <1>2, <1>5
  <2>7. orders' = [i \in 1..4 |-> i - 1]
    BY <2>2, <2>5, <2>6, OrdersOfRelations
  <2>8. orders' \in Seq(Nat)
    <3>1. [i \in 1..4 |-> i - 1] \in Seq(Nat)
      OBVIOUS
    <3> QED  BY <2>7, <3>1
  <2>9. Holds(work.rel[t], orders', x)
    <3>1. /\ DOMAIN work.rel[t] = 0..3
          /\ \A order \in 0..3 : work.rel[t][order] = x[order + 1]
      <4>1. Len(x) - 1 = 3
        BY <2>5
      <4>2. /\ DOMAIN Relations(x) = 0..Len(x) - 1
            /\ \A order \in 0..Len(x) - 1 : Relations(x)[order] = x[order + 1]
        BY <2>2, RelationsShape
      <4> QED  BY <2>2, <4>1, <4>2
    <3>2. {orders'[k] : k \in 1..4} = 0..3
      BY <2>7
    <3>3. \A k \in 1..4 : work.rel[t][orders'[k]] = x[k]
      <4> SUFFICES ASSUME NEW k \in 1..4 PROVE work.rel[t][orders'[k]] = x[k]
        OBVIOUS
      <4>1. orders'[k] = k - 1 /\ k - 1 \in 0..3 /\ (k - 1) + 1 = k
        BY <2>7
      <4> QED  BY <3>1, <4>1
    <3> QED  BY <3>1, <3>2, <3>3 DEF Holds
  <2>10. orders' = [k \in 1..4 |-> Place(k)']
    BY <2>6, <2>7 DEF Place
  <2>11. Moving'
    BY <1>3, <2>4, <2>6, <2>9, <2>10 DEF Moving
  <2>12. Shaped' /\ Grown' /\ Settled'
    BY <1>3, <2>6, <2>8 DEF IInv, Shaped, IsRecord, Grown, Settled
  <2>13. \A u \in DOMAIN origin : Reached(u) => Reached(u)'
    BY <2>6 DEF Reached
  <2>14. DOMAIN origin \subseteq Nat /\ at \in Nat /\ Migrating
    BY DEF IInv, Shaped, Grown
  <2>15. Migrating'
    BY <1>1, <1>3, <2>6, <2>11, <2>13, <2>14 DEF Migrating
  <2> QED  BY <2>6, <2>12, <2>15 DEF IInv
<1> QED  BY <1>4, <1>5

(* One relation moves to a free order and takes its blob along. *)
Relocated(term, moved, places, after, i, new) ==
  /\ \A j, k \in 1..4 : places[j] = places[k] => j = k
  /\ i \in 1..4 /\ new \notin DOMAIN term
  /\ DOMAIN moved = (DOMAIN term \ {places[i]}) \cup {new}
  /\ \A o \in DOMAIN moved : moved[o] = IF o = new THEN term[places[i]] ELSE term[o]
  /\ \A k \in 1..4 : after[k] = IF k = i THEN new ELSE places[k]

LEMMA Moved ==
  ASSUME NEW term, NEW moved, NEW places, NEW after, NEW i, NEW new, NEW x,
         Holds(term, places, x), Relocated(term, moved, places, after, i, new)
  PROVE  Holds(moved, after, x)
<1> DEFINE D == DOMAIN moved
<1> USE DEF Relocated
<1>1. DOMAIN term = {places[k] : k \in 1..4} /\ \A k \in 1..4 : term[places[k]] = x[k]
  BY DEF Holds
<1>2. \A k \in 1..4 : after[k] = IF k = i THEN new ELSE places[k]
  OBVIOUS
<1>3. D = {after[k] : k \in 1..4}
  <2>1. ASSUME NEW o \in D PROVE \E k \in 1..4 : o = after[k]
    <3>1. CASE o = new
      BY <1>2, <3>1
    <3>2. CASE o # new
      <4>1. PICK k \in 1..4 : o = places[k]
        BY <1>1, <3>2
      <4>2. k # i
        BY <3>2, <4>1
      <4> QED  BY <1>2, <4>1, <4>2
    <3> QED  BY <3>1, <3>2
  <2>2. ASSUME NEW k \in 1..4 PROVE after[k] \in D
    <3>1. CASE k = i
      BY <1>2, <3>1
    <3>2. CASE k # i
      BY <1>1, <1>2, <3>2
    <3> QED  BY <3>1, <3>2
  <2> HIDE DEF D
  <2> QED  BY <2>1, <2>2
<1>4. ASSUME NEW k \in 1..4 PROVE moved[after[k]] = x[k]
  <2>1. after[k] \in D
    BY <1>3
  <2>2. CASE k = i
    BY <1>1, <1>2, <2>1, <2>2
  <2>3. CASE k # i
    <3>1. after[k] = places[k] /\ places[k] \in DOMAIN term /\ places[k] # new
      BY <1>1, <1>2, <2>3
    <3> QED  BY <1>1, <2>1, <3>1
  <2> QED  BY <2>2, <2>3
<1> QED  BY <1>3, <1>4 DEF Holds

(* While one Term is being moved the others stay. *)
LEMMA SaveKeeps ==
  ASSUME IInv, NEW step \in Int, NEW next \in {"back", "mark"}, pc \in {"away", "back"},
         LET i == done + 1
             new == orders[i] + step
         IN  /\ new \in Nat /\ new \notin DOMAIN work.rel[at]
             /\ \A k \in 1..4 :
                  (IF k = i THEN new ELSE Place(k)) =
                    IF i # 4 THEN (CASE pc = "away" -> IF k <= i THEN k + 9 ELSE k - 1
                                     [] pc = "back" -> IF k <= i THEN k ELSE k + 9)
                    ELSE IF next = "back" THEN k + 9 ELSE k,
         Save(step, next)
  PROVE  IInv'
<1> DEFINE i == done + 1
           new == orders[i] + step
           term == work.rel[at]
           moved == [o \in (DOMAIN term \ {orders[i]}) \cup {new} |->
                       IF o = new THEN term[orders[i]] ELSE term[o]]
<1>1. Shaped /\ Grown /\ Settled /\ Migrating /\ Moving
  BY DEF IInv, Migrating
<1>2. i \in 1..4 /\ new \in Nat /\ new \notin DOMAIN term
  BY <1>1 DEF Shaped
<1>3. orders = [k \in 1..4 |-> Place(k)] /\ orders \in Seq(Nat) /\ Len(orders) = 4
  <2>1. orders = [k \in 1..4 |-> Place(k)] /\ orders \in Seq(Nat)
    BY <1>1 DEF Moving, Shaped
  <2> QED  BY <2>1
<1>4. /\ work' = [work EXCEPT !.rel[at] = moved]
      /\ orders' = [orders EXCEPT ![i] = new]
      /\ IF i = 4 THEN pc' = next /\ done' = 0 ELSE done' = i /\ pc' = pc
      /\ db' = db /\ at' = at /\ batch' = batch /\ crashes' = crashes /\ origin' = origin
  BY <1>2, <1>3 DEF Save
<1>5. \A j, k \in 1..4 : orders[j] = orders[k] => j = k
  <2>1. \A j, k \in 1..4 : Place(j) = Place(k) => j = k
    BY <1>1 DEF Place, Shaped
  <2> QED  BY <1>3, <2>1
<1>6. Holds(term, orders, WrittenAs(origin[at]))
  BY <1>1 DEF Moving
<1>7. \A k \in 1..4 :
        (IF k = i THEN new ELSE Place(k)) =
          IF i # 4 THEN (CASE pc = "away" -> IF k <= i THEN k + 9 ELSE k - 1
                           [] pc = "back" -> IF k <= i THEN k ELSE k + 9)
          ELSE IF next = "back" THEN k + 9 ELSE k
  OBVIOUS
<1> HIDE DEF i, new, term
<1>8. Holds(moved, orders', WrittenAs(origin[at]))
  <2>1. /\ DOMAIN moved = (DOMAIN term \ {orders[i]}) \cup {new}
        /\ \A o \in DOMAIN moved : moved[o] = IF o = new THEN term[orders[i]] ELSE term[o]
    OBVIOUS
  <2>2. \A k \in 1..4 : orders'[k] = IF k = i THEN new ELSE orders[k]
    BY <1>2, <1>3, <1>4
  <2> HIDE DEF moved
  <2>3. Relocated(term, moved, orders, orders', i, new)
    BY <1>2, <1>5, <2>1, <2>2 DEF Relocated
  <2> QED  BY <1>6, <2>3, Moved
<1> HIDE DEF moved
<1>9. orders' = [k \in 1..4 |-> IF k = i THEN new ELSE Place(k)]
  BY <1>2, <1>3, <1>4
<1>10. \A k \in 1..4 : (IF k = i THEN new ELSE Place(k)) = Place(k)'
  <2>1. CASE i = 4
    <3>1. pc' = next /\ done' = 0
      BY <1>4, <2>1
    <3>2. \A k \in 1..4 : Place(k)' = IF next = "back" THEN k + 9 ELSE k
      BY <3>1 DEF Place
    <3> QED  BY <1>7, <2>1, <3>2
  <2>2. CASE i # 4
    <3>1. pc' = pc /\ done' = i
      BY <1>4, <2>2
    <3>2. \A k \in 1..4 : Place(k)' = CASE pc = "away" -> IF k <= i THEN k + 9 ELSE k - 1
                                       [] pc = "back" -> IF k <= i THEN k ELSE k + 9
      BY <3>1 DEF Place
    <3> QED  BY <1>7, <2>2, <3>2
  <2> QED  BY <2>1, <2>2
<1>11. orders' = [k \in 1..4 |-> Place(k)']
  BY <1>9, <1>10
<1>12. orders' \in Seq(Nat)
  BY <1>2, <1>3, <1>4, ExceptSeq
<1>13. at \in DOMAIN work.rel /\ IsRecord(work)
  BY <1>1 DEF Moving, Shaped
<1>14. /\ IsRecord(work)' /\ work'.index = work.index /\ work'.applied = work.applied
       /\ DOMAIN work'.rel = DOMAIN work.rel /\ work'.rel[at] = moved
       /\ \A u \in DOMAIN work.rel : u # at => work'.rel[u] = work.rel[u]
  <2>1. work' = [rel |-> [work.rel EXCEPT ![at] = moved],
                 index |-> work.index, applied |-> work.applied]
    BY <1>4, <1>13 DEF IsRecord
  <2>2. /\ work'.rel = [work.rel EXCEPT ![at] = moved]
        /\ work'.index = work.index /\ work'.applied = work.applied
    BY <2>1
  <2> QED  BY <1>13, <2>1, <2>2 DEF IsRecord
<1>15. Moving'
  BY <1>1, <1>4, <1>8, <1>11, <1>14 DEF Moving
<1>16. pc' \in {"away", "back", "mark"} /\ done' \in 0..3
  BY <1>1, <1>2, <1>4 DEF Shaped
<1>17. Shaped'
  BY <1>1, <1>4, <1>12, <1>14, <1>16 DEF Shaped, IsRecord
<1>18. Grown' /\ Settled'
  BY <1>1, <1>4 DEF Grown, Settled
<1>19. \A u \in DOMAIN origin : u # at => (Reached(u) => Reached(u)')
  BY <1>1, <1>4, <1>14 DEF Reached, Shaped
<1>20. \A u \in DOMAIN origin : u # at => work'.rel[u] = work.rel[u]
  BY <1>1, <1>14 DEF Shaped
<1>21. at \in Nat /\ DOMAIN origin \subseteq Nat /\ db.applied \in 2..3
  BY <1>1 DEF Shaped, Grown, Moving
<1>22. pc # "scan" /\ pc' # "scan" /\ pc' # "idle"
  BY <1>16
<1>23. Migrating'
  BY <1>1, <1>4, <1>14, <1>15, <1>19, <1>20, <1>21, <1>22 DEF Migrating
<1> QED  BY <1>17, <1>18, <1>22, <1>23 DEF IInv

LEMMA MoveAwayKeeps == ASSUME IInv, MoveAway PROVE IInv'
<1>1. pc = "away" /\ Save(10, "back") /\ 10 \in Int
  BY DEF MoveAway
<1>2. /\ done \in 0..3 /\ orders = [k \in 1..4 |-> Place(k)]
      /\ DOMAIN work.rel[at] = {orders[k] : k \in 1..4}
  BY <1>1 DEF IInv, Shaped, Migrating, Moving, Holds
<1>3. orders = [k \in 1..4 |-> IF k <= done THEN k + 9 ELSE k - 1]
  BY <1>1, <1>2 DEF Place
<1>4. orders[done + 1] + 10 = done + 10
  BY <1>2, <1>3
<1>5. \A k \in 1..4 : orders[k] # done + 10
  BY <1>2, <1>3
<1>6. done + 10 \in Nat /\ done + 10 \notin DOMAIN work.rel[at]
  BY <1>2, <1>5
<1>7. \A k \in 1..4 :
        (IF k = done + 1 THEN done + 10 ELSE Place(k)) =
          IF done + 1 # 4 THEN (CASE pc = "away" -> IF k <= done + 1 THEN k + 9 ELSE k - 1
                                  [] pc = "back" -> IF k <= done + 1 THEN k ELSE k + 9)
          ELSE IF "back" = "back" THEN k + 9 ELSE k
  BY <1>1, <1>2 DEF Place
<1> QED  BY <1>1, <1>4, <1>6, <1>7, SaveKeeps

LEMMA MoveBackKeeps == ASSUME IInv, MoveBack PROVE IInv'
<1>1. pc = "back" /\ Save(-9, "mark") /\ -9 \in Int
  BY DEF MoveBack
<1>2. /\ done \in 0..3 /\ orders = [k \in 1..4 |-> Place(k)]
      /\ DOMAIN work.rel[at] = {orders[k] : k \in 1..4}
  BY <1>1 DEF IInv, Shaped, Migrating, Moving, Holds
<1>3. orders = [k \in 1..4 |-> IF k <= done THEN k ELSE k + 9]
  BY <1>1, <1>2 DEF Place
<1>4. orders[done + 1] + (-9) = done + 1
  BY <1>2, <1>3
<1>5. \A k \in 1..4 : orders[k] # done + 1
  BY <1>2, <1>3
<1>6. done + 1 \in Nat /\ done + 1 \notin DOMAIN work.rel[at]
  BY <1>2, <1>5
<1>7. \A k \in 1..4 :
        (IF k = done + 1 THEN done + 1 ELSE Place(k)) =
          IF done + 1 # 4 THEN (CASE pc = "away" -> IF k <= done + 1 THEN k + 9 ELSE k - 1
                                  [] pc = "back" -> IF k <= done + 1 THEN k ELSE k + 9)
          ELSE IF "mark" = "back" THEN k + 9 ELSE k
  BY <1>1, <1>2 DEF Place
<1> QED  BY <1>1, <1>4, <1>6, <1>7, SaveKeeps

LEMMA InsertMarkerKeeps == ASSUME IInv, InsertMarker PROVE IInv'
<1> DEFINE w == origin[at]
           x == WrittenAs(w)
           y == AsMarked(w)
           term == work.rel[at]
<1>1. Shaped /\ Grown /\ Settled /\ Migrating /\ Moving /\ pc = "mark"
  BY DEF IInv, InsertMarker, Migrating
<1>2. at \in DOMAIN origin /\ Writable(w) /\ Legacy(w) /\ Holds(term, orders, x)
  BY <1>1 DEF Moving, Grown
<1>3. orders = [k \in 1..4 |-> k]
  BY <1>1 DEF Moving, Place
<1>4. DOMAIN term = 1..4 /\ \A k \in 1..4 : term[k] = x[k]
  BY <1>2, <1>3 DEF Holds
<1>5. 0 \notin DOMAIN term
  BY <1>4
<1>6. /\ work' = [work EXCEPT !.rel[at] = With(@, 0, Marker)] /\ pc' = "scan"
      /\ db' = db /\ at' = at /\ orders' = orders /\ done' = done /\ batch' = batch
      /\ crashes' = crashes /\ origin' = origin
  BY <1>5 DEF InsertMarker, localVars
<1>7. x \in Seq(Blobs) /\ Len(x) = 4 /\ y = <<Marker>> \o x
  BY <1>2, LegacyWritten DEF AsMarked
<1> HIDE DEF x, y, term
<1>8. Marker \in Blobs
  BY SourcesAreBytes DEF Blobs
<1>9. y \in Seq(Blobs) /\ Len(y) = 5 /\ y[1] = Marker
      /\ y[2] = x[1] /\ y[3] = x[2] /\ y[4] = x[3] /\ y[5] = x[4]
  BY <1>7, <1>8, Prefixed
<1>10. With(term, 0, Marker) = Relations(y)
  <2>1. Relations(y) = [order \in 0..4 |-> y[order + 1]]
    BY <1>9 DEF Relations
  <2>2. DOMAIN term \cup {0} = 0..4
    BY <1>4
  <2>3. \A o \in 0..4 : (IF o = 0 THEN Marker ELSE term[o]) = y[o + 1]
    <3>1. \A o \in 0..4 : o = 0 \/ o = 1 \/ o = 2 \/ o = 3 \/ o = 4
      OBVIOUS
    <3> QED  BY <1>4, <1>9, <3>1
  <2> QED  BY <2>1, <2>2, <2>3 DEF With
<1>11. at \in DOMAIN work.rel /\ IsRecord(work)
  BY <1>1, <1>2 DEF Shaped
<1>12. /\ IsRecord(work)' /\ work'.index = work.index /\ work'.applied = work.applied
       /\ DOMAIN work'.rel = DOMAIN work.rel /\ work'.rel[at] = Relations(y)
       /\ \A u \in DOMAIN work.rel : u # at => work'.rel[u] = work.rel[u]
  <2>1. work' = [rel |-> [work.rel EXCEPT ![at] = With(term, 0, Marker)],
                 index |-> work.index, applied |-> work.applied]
    BY <1>6, <1>11 DEF IsRecord, term
  <2>2. /\ work'.rel = [work.rel EXCEPT ![at] = With(term, 0, Marker)]
        /\ work'.index = work.index /\ work'.applied = work.applied
    BY <2>1
  <2> QED  BY <1>10, <1>11, <2>1, <2>2 DEF IsRecord
<1>13. Shaped'
  BY <1>1, <1>6, <1>12 DEF Shaped, IsRecord
<1>14. Grown' /\ Settled'
  BY <1>1, <1>6 DEF Grown, Settled
<1>15. db.applied \in 2..3
  BY <1>1 DEF Moving
<1>16. Reached(at)'
  <2>1. Goal(db.applied, w) = y
    BY <1>15 DEF Goal, y
  <2> QED  BY <1>6, <1>12, <2>1 DEF Reached
<1>17. \A u \in DOMAIN origin : u # at => (Reached(u) => Reached(u)')
  BY <1>1, <1>6, <1>12 DEF Reached, Shaped
<1>18. \A u \in DOMAIN origin : u # at => work'.rel[u] = work.rel[u]
  BY <1>1, <1>12 DEF Shaped
<1>19. at \in Nat /\ DOMAIN origin \subseteq Nat
  BY <1>1 DEF Shaped, Grown
<1>20. Migrating'
  BY <1>1, <1>6, <1>12, <1>15, <1>16, <1>17, <1>18, <1>19 DEF Migrating
<1> QED  BY <1>6, <1>13, <1>14, <1>20 DEF IInv

LEMMA FinishMarkingKeeps == ASSUME IInv, FinishMarking PROVE IInv'
<1> DEFINE image == [work EXCEPT !.index = IF db.applied = 2 THEN <<>> ELSE @]
<1>1. /\ pc = "scan" /\ Rest(Wanted(db.applied)) = {} /\ Commit(image)
  BY DEF FinishMarking, Wanted
<1>2. IsRecord(work) /\ DOMAIN work.index \subseteq DOMAIN origin /\ DOMAIN <<>> = {}
  BY DEF IInv, Shaped
<1>3. image = [rel |-> work.rel, index |-> IF db.applied = 2 THEN <<>> ELSE work.index,
               applied |-> work.applied]
  BY <1>2 DEF IsRecord
<1> HIDE DEF image
<1>4. image.rel = work.rel /\ image.applied = work.applied /\ IsRecord(image)
      /\ DOMAIN image.index \subseteq DOMAIN origin
  BY <1>2, <1>3 DEF IsRecord
<1> QED  BY <1>1, <1>4, CommitKeeps

-----------------------------------------------------------------------------
(* 0005 *)

LEMMA ReplaceMarkerKeeps == ASSUME IInv, ReplaceMarker PROVE IInv'
<1>1. pc = "scan" /\ db.applied = 4 /\ Wanted(db.applied) = 5
  BY DEF ReplaceMarker, Wanted
<1> DEFINE First(t) == OrdersOf(work.rel[t])[1]
<1>2. PICK t \in Rest(5) :
        /\ IsFirst(t, Rest(Wanted(db.applied)))
        /\ IF work.rel[t][First(t)] # Marker
           THEN Skip(t)
           ELSE /\ work' = [work EXCEPT !.rel[t][First(t)] = Local]
                /\ at' = t
                /\ UNCHANGED <<db, pc, orders, done, batch, crashes, origin>>
  BY <1>1 DEF ReplaceMarker
<1> DEFINE w == origin[t]
           x == AsMarked(w)
           term == work.rel[t]
<1>3. /\ t \in DOMAIN origin /\ t \in Nat /\ t > at
      /\ \A u \in DOMAIN origin : u < t => Reached(u)
  BY <1>1, <1>2, Approach
<1>4. Writable(w) /\ Cardinality(DOMAIN term) = 5
  BY <1>2, <1>3 DEF IInv, Grown, Rest
<1>5. x \in Seq(Blobs) /\ term = Relations(x) /\ AtomsOf(term) = x /\ Len(x) = 5
  <2>1. \E y \in Forms(db.applied, w) :
          /\ y \in Seq(Blobs) /\ term = Relations(y) /\ AtomsOf(term) = y
          /\ Cardinality(DOMAIN term) = Len(y)
    BY <1>1, <1>3, Ahead
  <2>2. Forms(db.applied, w) = {x}
    BY <1>1 DEF Forms
  <2> HIDE DEF x, term, w
  <2> QED  BY <1>4, <2>1, <2>2
<1>6. First(t) = 0
  <2>1. OrdersOf(Relations(x)) = [i \in 1..Len(x) |-> i - 1]
    BY <1>5, OrdersOfRelations
  <2> QED  BY <1>5, <2>1
<1> HIDE DEF First, x, term
<1>7. Relations(x) = [order \in 0..4 |-> x[order + 1]] /\ term[0] = x[1]
  <2>1. Relations(x) = [order \in 0..4 |-> x[order + 1]]
    BY <1>5 DEF Relations
  <2> QED  BY <1>5, <2>1
<1>8. CASE term[0] # Marker
  <2>1. Reached(t)
    BY <1>1, <1>3, <1>5, <1>7, <1>8, Passed DEF term
  <2> QED  BY <1>1, <1>2, <1>6, <1>8, <2>1, SkipKeeps DEF term
<1>9. CASE term[0] = Marker
  <2>1. /\ work' = [work EXCEPT !.rel[t][0] = Local] /\ at' = t /\ db' = db /\ pc' = pc
        /\ orders' = orders /\ done' = done /\ batch' = batch /\ crashes' = crashes
        /\ origin' = origin
    BY <1>2, <1>6, <1>9 DEF term
  <2>2. Resourced(x, Final(w))
    BY <1>4, <1>5, <1>7, <1>9, Converted DEF x
  <2> DEFINE y == Final(w)
  <2>3. y \in Seq(Blobs) /\ Len(y) = 5 /\ y[1] = Local /\ \A i \in 2..5 : y[i] = x[i]
    BY <1>5, <2>2 DEF Resourced
  <2> HIDE DEF y
  <2>4. [term EXCEPT ![0] = Local] = Relations(y)
    <3>1. Relations(y) = [order \in 0..4 |-> y[order + 1]]
      BY <2>3 DEF Relations
    <3>2. [term EXCEPT ![0] = Local] =
            [order \in 0..4 |-> IF order = 0 THEN Local ELSE x[order + 1]]
      BY <1>5, <1>7
    <3>3. \A order \in 0..4 : (IF order = 0 THEN Local ELSE x[order + 1]) = y[order + 1]
      <4> SUFFICES ASSUME NEW order \in 0..4
                   PROVE  (IF order = 0 THEN Local ELSE x[order + 1]) = y[order + 1]
        OBVIOUS
      <4>1. order # 0 => order + 1 \in 2..5
        OBVIOUS
      <4> QED  BY <2>3, <4>1
    <3> QED  BY <3>1, <3>2, <3>3
  <2>5. Shaped /\ Grown /\ Settled /\ Migrating
    BY <1>1 DEF IInv
  <2>6. t \in DOMAIN work.rel /\ IsRecord(work)
    BY <1>3, <2>5 DEF Shaped
  <2>7. /\ IsRecord(work)' /\ work'.index = work.index /\ work'.applied = work.applied
        /\ DOMAIN work'.rel = DOMAIN work.rel /\ work'.rel[t] = Relations(y)
        /\ \A u \in DOMAIN work.rel : u # t => work'.rel[u] = work.rel[u]
    <3>1. work' = [rel |-> [work.rel EXCEPT ![t] = [term EXCEPT ![0] = Local]],
                   index |-> work.index, applied |-> work.applied]
      BY <2>1, <2>6 DEF IsRecord, term
    <3>2. /\ work'.rel = [work.rel EXCEPT ![t] = [term EXCEPT ![0] = Local]]
          /\ work'.index = work.index /\ work'.applied = work.applied
      BY <3>1
    <3> QED  BY <2>4, <2>6, <3>1, <3>2 DEF IsRecord
  <2>8. Shaped'
    BY <1>3, <2>1, <2>5, <2>7 DEF Shaped, IsRecord
  <2>9. Grown' /\ Settled'
    BY <2>1, <2>5 DEF Grown, Settled
  <2>10. Reached(t)'
    <3>1. Goal(db.applied, w) = y
      BY <1>1 DEF Goal, y
    <3> QED  BY <2>1, <2>7, <3>1 DEF Reached
  <2>11. \A u \in DOMAIN origin : u # t => (Reached(u) => Reached(u)')
    BY <2>1, <2>5, <2>7 DEF Reached, Shaped
  <2>12. \A u \in DOMAIN origin : u # t => work'.rel[u] = work.rel[u]
    BY <2>5, <2>7 DEF Shaped
  <2>13. at \in Nat /\ DOMAIN origin \subseteq Nat
    BY <2>5 DEF Shaped, Grown
  <2>14. Migrating'
    BY <1>1, <1>3, <2>1, <2>5, <2>7, <2>10, <2>11, <2>12, <2>13 DEF Migrating
  <2> QED  BY <1>1, <2>1, <2>8, <2>9, <2>14 DEF IInv
<1> QED  BY <1>8, <1>9

LEMMA FinishSourceKeeps == ASSUME IInv, FinishSource PROVE IInv'
<1>1. pc = "scan" /\ Rest(Wanted(db.applied)) = {} /\ Commit(work)
  BY DEF FinishSource, Wanted
<1>2. IsRecord(work) /\ DOMAIN work.index \subseteq DOMAIN origin
  BY DEF IInv, Shaped
<1> QED  BY <1>1, <1>2, CommitKeeps

LEMMA Preserved == IInv /\ [Next]_vars => IInv'
<1> SUFFICES ASSUME IInv, [Next]_vars PROVE IInv'
  OBVIOUS
<1>1. CASE UNCHANGED vars
  BY <1>1 DEF IInv, Shaped, IsRecord, Grown, Settled, Migrating, Reached, Indexing, Moving,
       Holds, Place, vars
<1>2. CASE Add
  BY <1>2, AddKeeps
<1>3. CASE Begin
  BY <1>3, BeginKeeps
<1>4. CASE Crash
  BY <1>4, CrashKeeps
<1>5. CASE PopulateIndex
  BY <1>5, PopulateKeeps
<1>6. CASE FinishIndex
  BY <1>6, FinishIndexKeeps
<1>7. CASE MarkExisting \/ MarkUnconverted
  <2>1. pc = "scan" /\ db.applied \in 2..3 /\ Mark
    BY <1>7 DEF MarkExisting, MarkUnconverted
  <2> QED  BY <2>1, MarkKeeps
<1>8. CASE MoveAway
  BY <1>8, MoveAwayKeeps
<1>9. CASE MoveBack
  BY <1>9, MoveBackKeeps
<1>10. CASE InsertMarker
  BY <1>10, InsertMarkerKeeps
<1>11. CASE FinishMarking
  BY <1>11, FinishMarkingKeeps
<1>12. CASE ReplaceMarker
  BY <1>12, ReplaceMarkerKeeps
<1>13. CASE FinishSource
  BY <1>13, FinishSourceKeeps
<1> QED
  BY <1>1, <1>2, <1>3, <1>4, <1>5, <1>6, <1>7, <1>8, <1>9, <1>10, <1>11, <1>12, <1>13
  DEF Next, Migrate

LEMMA Inductive == Spec => []IInv
  BY Initially, Preserved, PTL DEF Spec

-----------------------------------------------------------------------------
(* What follows from it *)

(* Every Term of the file is one that was written, in the form of its time. *)
LEMMA Stored ==
  ASSUME IInv, NEW t \in DOMAIN db.rel
  PROVE  /\ t \in DOMAIN origin /\ Writable(origin[t])
         /\ \E x \in Forms(db.applied, origin[t]) :
              /\ x \in Seq(Blobs)
              /\ db.rel[t] = Relations(x)
              /\ AtomsOf(db.rel[t]) = x
<1>1. t \in DOMAIN origin /\ Writable(origin[t]) /\ db.applied \in 1..5
  BY DEF IInv, Shaped, Grown
<1>2. PICK x \in Forms(db.applied, origin[t]) : db.rel[t] = Relations(x)
  BY <1>1 DEF IInv, Settled
<1>3. x \in Seq(Blobs)
  BY <1>1, FormsAreBlobs
<1> QED  BY <1>1, <1>2, <1>3, AtomsOfRelations

(* The variables keep their shape: Terms are finite functions on naturals, also *)
(* while the relations of one are being renumbered.                             *)
THEOREM ReadingsTypes == Spec => []ReadingsTypeOK
<1>1. IInv => ReadingsTypeOK
  <2> SUFFICES ASSUME IInv PROVE ReadingsTypeOK
    OBVIOUS
  <2> DEFINE Fine(rel, t) == DOMAIN rel[t] \subseteq Nat /\ IsFiniteSet(DOMAIN rel[t])
  <2>1. Shaped /\ Grown /\ Settled
    BY DEF IInv
  <2>2. ASSUME NEW t \in DOMAIN origin PROVE Fine(db.rel, t)
    <3>1. PICK x : x \in Seq(Blobs) /\ db.rel[t] = Relations(x)
      BY <2>1, Stored DEF Shaped
    <3> QED  BY <3>1, RelationsShape
  <2>3. ASSUME NEW t \in DOMAIN origin PROVE Fine(work.rel, t)
    <3>1. at \in Nat /\ t \in Nat
      BY <2>1 DEF Shaped, Grown
    <3>2. CASE pc = "idle" \/ t > at
      <4>1. work.rel[t] = db.rel[t]
        BY <3>2 DEF IInv, Migrating
      <4> QED  BY <2>2, <4>1
    <3>3. CASE pc # "idle" /\ Reached(t)
      <4>1. db.applied \in 1..4 /\ Writable(origin[t])
        BY <2>1, <3>3 DEF IInv, Shaped, Grown, Migrating
      <4>2. Goal(db.applied, origin[t]) \in Seq(Blobs)
        BY <4>1, GoalIsForm, FormsAreBlobs
      <4>3. work.rel[t] = Relations(Goal(db.applied, origin[t]))
        BY <3>3 DEF Reached
      <4> QED  BY <4>2, <4>3, RelationsShape
    <3>4. CASE pc \notin {"idle", "scan"} /\ t = at
      <4>1. orders = [k \in 1..4 |-> Place(k)] /\ DOMAIN work.rel[t] = {orders[k] : k \in 1..4}
        BY <3>4 DEF IInv, Migrating, Moving, Holds
      <4>2. \A k \in 1..4 : Place(k) \in 0..13
        BY <2>1 DEF Shaped, Place
      <4>3. DOMAIN work.rel[t] \in SUBSET (0..13)
        BY <4>1, <4>2
      <4>4. IsFiniteSet(0..13)
        <5>1. 0 \in Int /\ 13 \in Int
          OBVIOUS
        <5> QED  BY <5>1, FS_Interval
      <4>5. IsFiniteSet(DOMAIN work.rel[t])
        BY <4>3, <4>4, FS_Subset
      <4> QED  BY <4>3, <4>5
    <3> QED  BY <3>1, <3>2, <3>3, <3>4 DEF IInv, Migrating
  <2>4. work.applied \in 1..5
    BY <2>1 DEF IInv, Shaped, Migrating
  <2>5. IsImage(db) /\ IsImage(work)
    BY <2>1, <2>2, <2>3, <2>4 DEF Shaped, IsImage
  <2> QED  BY <2>1, <2>5 DEF Shaped, ReadingsTypeOK
<1> QED  BY <1>1, Inductive, PTL

(* No migration ever saves a relation to an order that is taken, or a row that  *)
(* is there: the way by orders far above leaves room.                           *)
THEOREM NothingRefused == Spec => []NoSaveRefused
<1>1. IInv => NoSaveRefused
  BY DEF IInv, Shaped, NoSaveRefused
<1> QED  BY <1>1, Inductive, PTL

(* Whatever was written, killed and run again, the Terms are converted in the   *)
(* end: each observation once, with its values, and nothing else.               *)
THEOREM Survival == Spec => []ReadingsSurvive
<1>1. IInv => ReadingsSurvive
  <2> SUFFICES ASSUME IInv, db.applied = 5, NEW t \in DOMAIN db.rel
               PROVE  db.rel[t] = Relations(Final(origin[t]))
    BY DEF ReadingsSurvive
  <2>1. PICK x \in Forms(db.applied, origin[t]) : db.rel[t] = Relations(x)
    BY Stored
  <2> QED  BY <2>1 DEF Forms
<1> QED  BY <1>1, Inductive, PTL

(* 0002 commits a row for each observation and for nothing else, with the       *)
(* values that were written.                                                    *)
THEOREM IndexIsMirror == Spec => IndexMirrorsReadings
<1> DEFINE Mirrored ==
      db.applied = 1 /\ db'.applied = 2 =>
        db'.index = [t \in {u \in DOMAIN origin : Legacy(origin[u])} |->
                       [time |-> origin[t].value.time,
                        temperature |-> origin[t].value.temperature,
                        pressure |-> origin[t].value.pressure,
                        humidity |-> origin[t].value.humidity]]
<1>1. IInv /\ [Next]_vars => [Mirrored]_vars
  <2> SUFFICES ASSUME IInv, Next, db.applied = 1, db'.applied = 2 PROVE Mirrored
    OBVIOUS
  <2>1. IsRecord(db)
    BY DEF IInv, Shaped
  <2>2. ~Add
    <3> SUFFICES ASSUME Add PROVE FALSE
      OBVIOUS
    <3>1. \E rel : db' = [db EXCEPT !.rel = rel]
      BY DEF Add
    <3>2. db'.applied = db.applied
      BY <2>1, <3>1 DEF IsRecord
    <3> QED  BY <3>2
  <2>3. ~Begin /\ ~Crash
    BY DEF Begin, Crash
  <2>4. ~PopulateIndex
    <3>1. \A t : AppendRow(t) \/ Skip(t) => db' = db
      BY DEF AppendRow, Refuse, Skip
    <3> QED  BY <3>1 DEF PopulateIndex
  <2>5. ~MarkExisting /\ ~MarkUnconverted /\ ~FinishMarking /\ ~ReplaceMarker /\ ~FinishSource
    BY DEF MarkExisting, MarkUnconverted, FinishMarking, ReplaceMarker, FinishSource
  <2>6. ~MoveAway /\ ~MoveBack /\ ~InsertMarker
    BY DEF MoveAway, MoveBack, Save, InsertMarker, Refuse
  <2>7. FinishIndex
    BY <2>2, <2>3, <2>4, <2>5, <2>6 DEF Next, Migrate
  <2>8. db'.index = [t \in {u \in DOMAIN origin : Legacy(origin[u])} |-> RowOf(origin[t].value)]
    BY <2>7, FinishIndexKeeps
  <2> QED  BY <2>8 DEF RowOf
<1> QED  BY <1>1, Inductive, PTL DEF Spec, IndexMirrorsReadings

LEMMA ExactMatch ==
  ASSUME NEW x \in Seq(Blobs), NEW y \in Seq(Blobs)
  PROVE  /\ Cardinality({o \in DOMAIN Relations(y) : o < Len(x) /\ Relations(y)[o] = x[o + 1]})
              = Len(x)
         /\ Cardinality(DOMAIN Relations(y)) = Len(x)
         <=> y = x
<1> DEFINE n == Len(y)
           same == {o \in 0..n - 1 : o < Len(x) /\ Relations(y)[o] = x[o + 1]}
<1>1. /\ DOMAIN Relations(y) = 0..n - 1 /\ Cardinality(0..n - 1) = n /\ IsFiniteSet(0..n - 1)
      /\ \A o \in 0..n - 1 : Relations(y)[o] = y[o + 1]
  BY RelationsShape
<1>2. n \in Nat /\ Len(x) \in Nat
  OBVIOUS
<1>3. ASSUME n = Len(x), Cardinality(same) = n PROVE y = x
  <2>1. same \in SUBSET (0..n - 1)
    OBVIOUS
  <2>2. same = 0..n - 1
    BY <1>1, <1>3, <2>1, FS_Subset
  <2>3. ASSUME NEW i \in 1..n PROVE y[i] = x[i]
    <3>1. i - 1 \in same /\ (i - 1) + 1 = i
      BY <1>2, <2>2
    <3> HIDE DEF same
    <3>2. i - 1 \in 0..n - 1
      BY <2>1, <3>1
    <3>3. Relations(y)[i - 1] = y[i]
      BY <1>1, <3>1, <3>2
    <3>4. Relations(y)[i - 1] = x[i]
      BY <3>1 DEF same
    <3> QED  BY <3>3, <3>4
  <2> HIDE DEF same
  <2>4. \A i \in 1..Len(y) : y[i] = x[i]
    BY <2>3
  <2> QED  BY <1>3, <2>4, SeqEqual
<1>4. ASSUME y = x PROVE n = Len(x) /\ Cardinality(same) = n
  <2>1. same = 0..n - 1
    BY <1>1, <1>2, <1>4
  <2> QED  BY <1>1, <1>4, <2>1
<1>5. {o \in DOMAIN Relations(y) : o < Len(x) /\ Relations(y)[o] = x[o + 1]} = same
  BY <1>1
<1> HIDE DEF same, n
<1>6. Cardinality(same) = Len(x) /\ n = Len(x) <=> y = x
  BY <1>3, <1>4
<1> QED  BY <1>1, <1>5, <1>6

(* The lookup that counts matching relations and the one that reads them in     *)
(* their order agree, because the orders of a Term are always 0, 1, 2...        *)
THEOREM LookupAgreement == Spec => []LookupsAgree
<1>1. IInv => LookupsAgree
  <2> SUFFICES ASSUME IInv, NEW t \in DOMAIN db.rel
               PROVE  /\ t \in DjangoFinds(db.rel, AtomsOf(db.rel[t]))
                      /\ DjangoFinds(db.rel, AtomsOf(db.rel[t])) =
                           NativeFinds(db.rel, AtomsOf(db.rel[t]))
    BY DEF LookupsAgree
  <2>1. PICK x : x \in Seq(Blobs) /\ AtomsOf(db.rel[t]) = x
    BY Stored
  <2>2. ASSUME NEW u \in DOMAIN db.rel
        PROVE  u \in DjangoFinds(db.rel, x) <=> u \in NativeFinds(db.rel, x)
    <3>1. PICK y : y \in Seq(Blobs) /\ db.rel[u] = Relations(y) /\ AtomsOf(db.rel[u]) = y
      BY Stored
    <3>2. u \in DjangoFinds(db.rel, x) <=> y = x
      <4>1. u \in DjangoFinds(db.rel, x) <=>
              /\ Cardinality({o \in DOMAIN Relations(y) :
                                o < Len(x) /\ Relations(y)[o] = x[o + 1]}) = Len(x)
              /\ Cardinality(DOMAIN Relations(y)) = Len(x)
        BY <3>1 DEF DjangoFinds
      <4> QED  BY <2>1, <3>1, <4>1, ExactMatch, Zenon
    <3> QED  BY <3>1, <3>2 DEF NativeFinds
  <2>3. /\ DjangoFinds(db.rel, x) \subseteq DOMAIN db.rel
        /\ NativeFinds(db.rel, x) \subseteq DOMAIN db.rel
        /\ t \in NativeFinds(db.rel, x)
    BY <2>1 DEF DjangoFinds, NativeFinds
  <2> QED  BY <2>1, <2>2, <2>3
<1> QED  BY <1>1, Inductive, PTL

-----------------------------------------------------------------------------
(* What readers make of the Terms *)

LEMMA Sourced ==
  ASSUME NEW s \in Blobs, NEW T \in Seq(Blobs), Len(T) = 4,
         Len(T[1]) = 8, Len(T[2]) = 2, Len(T[3]) \in {2, 4}, Len(T[4]) = 2,
         Signed(T[1]) \in Dates
  PROVE  LET x == <<s>> \o T
         IN  /\ x \in Seq(Blobs) /\ Len(x) = 5 /\ x[2] = T[1]
             /\ ~Breaks(x) /\ (Decodes(x) <=> IsUtf8(s)) /\ ~IsAirQuality(x)
             /\ IsPrecise(x) <=> Len(T[3]) = 4
             /\ DecodeObservation(x) =
                  [source |-> s, time |-> Signed(T[1]),
                   temperature |-> (IF Len(T[3]) = 4 THEN 1 ELSE 10) * Signed(T[2]),
                   pressure |-> (IF Len(T[3]) = 4 THEN 1 ELSE 100) * Unsigned(T[3]),
                   humidity |-> (IF Len(T[3]) = 4 THEN 1 ELSE 10) * Unsigned(T[4])]
<1> DEFINE x == <<s>> \o T
<1>1. x \in Seq(Blobs) /\ Len(x) = 5 /\ x[1] = s
      /\ x[2] = T[1] /\ x[3] = T[2] /\ x[4] = T[3] /\ x[5] = T[4]
  BY Prefixed
<1> HIDE DEF x
<1>2. ~Breaks(x) /\ (IsPrecise(x) <=> Len(T[3]) = 4) /\ ~IsAirQuality(x)
  BY <1>1 DEF Breaks, IsPrecise, IsAirQuality
<1>3. Decodes(x) <=> IsUtf8(s)
  BY <1>1, <1>2 DEF Decodes, Refused
<1>4. DecodeObservation(x) =
        [source |-> s, time |-> Signed(T[1]),
         temperature |-> (IF Len(T[3]) = 4 THEN 1 ELSE 10) * Signed(T[2]),
         pressure |-> (IF Len(T[3]) = 4 THEN 1 ELSE 100) * Unsigned(T[3]),
         humidity |-> (IF Len(T[3]) = 4 THEN 1 ELSE 10) * Unsigned(T[4])]
  BY <1>1, <1>2 DEF DecodeObservation
<1> QED  BY <1>1, <1>2, <1>3, <1>4 DEF x

(* What all forms of an observation have in common: the four blobs behind the   *)
(* source.                                                                      *)
IsBody(T, w) ==
  /\ T \in Seq(Blobs) /\ Len(T) = 4
  /\ Len(T[1]) = 8 /\ Len(T[2]) = 2 /\ Len(T[3]) \in {2, 4} /\ Len(T[4]) = 2
  /\ T[1] = Pack(w.value.time, 8) /\ Signed(T[1]) = w.value.time
  /\ Len(T[3]) = 2 <=> w.kind # "precise"
  /\ w.value.temperature = (IF Len(T[3]) = 4 THEN 1 ELSE 10) * Signed(T[2])
  /\ w.value.pressure = (IF Len(T[3]) = 4 THEN 1 ELSE 100) * Unsigned(T[3])
  /\ w.value.humidity = (IF Len(T[3]) = 4 THEN 1 ELSE 10) * Unsigned(T[4])
  /\ WrittenAs(w) = CASE Legacy(w) -> T
                      [] w.kind = "marked" -> <<Marker>> \o T
                      [] w.kind = "environment" -> <<w.value.source>> \o T
  /\ Final(w) = <<w.value.source>> \o T

LEMMA HasBody ==
  ASSUME NEW w, Writable(w), Observational(w)
  PROVE  /\ w.value \in Observation
         /\ \E T : IsBody(T, w)
<1> DEFINE o == w.value
<1>1. CASE w.kind = "precise"
  <2> DEFINE T == Precise(o)
  <2>1. /\ o \in Observation /\ o.source = Local /\ o.temperature \in SignedRange(2)
        /\ o.pressure \in 0..Power[4] - 1 /\ o.humidity \in 0..Power[2] - 1
    BY <1>1 DEF Writable
  <2>2. WrittenAs(w) = T /\ Final(w) = <<o.source>> \o T /\ Legacy(w)
    BY <1>1, <2>1 DEF WrittenAs, Final, Legacy
  <2>3. /\ T \in Seq(Blobs) /\ Len(T) = 4
        /\ Len(T[1]) = 8 /\ Len(T[2]) = 2 /\ Len(T[3]) = 4 /\ Len(T[4]) = 2
        /\ Signed(T[1]) = o.time /\ Signed(T[2]) = o.temperature
        /\ Unsigned(T[3]) = o.pressure /\ Unsigned(T[4]) = o.humidity
    BY <2>1, PreciseEncoded
  <2>4. T[1] = Pack(o.time, 8)
    BY DEF Precise
  <2>5. o.temperature \in Int /\ o.pressure \in Int /\ o.humidity \in Int
    BY <2>1 DEF Observation
  <2> HIDE DEF T
  <2>6. IsBody(T, w)
    BY <1>1, <2>2, <2>3, <2>4, <2>5 DEF IsBody
  <2> QED  BY <2>1, <2>6
<1>2. CASE w.kind \in {"compact", "marked", "environment"}
  <2> DEFINE y == EncodeObservation(o)
             T == Tail(y)
  <2>1. Rounded(o) /\ (w.kind # "environment" => o.source = Local)
    BY <1>2 DEF Writable
  <2>2. o \in Observation /\ Encodable(o)
    BY <2>1 DEF Rounded
  <2>3. /\ y \in Seq(Blobs) /\ Len(y) = 5 /\ y[1] = o.source
        /\ Len(y[2]) = 8 /\ Len(y[3]) = 2 /\ Len(y[4]) = 2 /\ Len(y[5]) = 2
        /\ Signed(y[2]) = o.time
    BY <2>2, Encoded DEF Blobs
  <2>4. DecodeObservation(y) = o /\ ~IsPrecise(y)
    BY <2>1, <2>2, RoundedRestored, EncodedDecodes
  <2>5. y[2] = Pack(o.time, 8)
    BY DEF EncodeObservation
  <2>6. /\ WrittenAs(w) = CASE Legacy(w) -> T
                            [] w.kind = "marked" -> <<Marker>> \o T
                            [] w.kind = "environment" -> y
        /\ Final(w) = y
    BY <1>2 DEF WrittenAs, Final, Legacy
  <2> HIDE DEF y
  <2>7. /\ T \in Seq(Blobs) /\ Len(T) = 4
        /\ T[1] = y[2] /\ T[2] = y[3] /\ T[3] = y[4] /\ T[4] = y[5]
        /\ y = <<o.source>> \o T
    BY <2>3, TailOfFive
  <2> HIDE DEF T
  <2>8. /\ o.temperature = 10 * Signed(y[3]) /\ o.pressure = 100 * Unsigned(y[4])
        /\ o.humidity = 10 * Unsigned(y[5])
    BY <2>4 DEF DecodeObservation
  <2>9. w.kind # "precise"
    BY <1>2
  <2>10. /\ Len(T[1]) = 8 /\ Len(T[2]) = 2 /\ Len(T[3]) = 2 /\ Len(T[4]) = 2
         /\ T[1] = Pack(o.time, 8) /\ Signed(T[1]) = o.time
         /\ o.temperature = 10 * Signed(T[2]) /\ o.pressure = 100 * Unsigned(T[3])
         /\ o.humidity = 10 * Unsigned(T[4])
    BY <2>3, <2>5, <2>7, <2>8
  <2>11. Final(w) = <<o.source>> \o T
    BY <2>6, <2>7
  <2>12. WrittenAs(w) = CASE Legacy(w) -> T
                          [] w.kind = "marked" -> <<Marker>> \o T
                          [] w.kind = "environment" -> <<o.source>> \o T
    BY <2>6, <2>7
  <2>13. IsBody(T, w)
    <3>1. T \in Seq(Blobs) /\ Len(T) = 4 /\ 2 \in {2, 4} /\ 2 # 4
      BY <2>7
    <3> QED  BY <2>9, <2>10, <2>11, <2>12, <3>1 DEF IsBody
  <2> QED  BY <2>2, <2>13
<1> QED  BY <1>1, <1>2 DEF Observational, Legacy

(* The forms of an observation, and what each decodes to. *)
LEMMA ObservationForms ==
  ASSUME NEW w, Writable(w), Observational(w), NEW applied \in 1..5,
         NEW x \in Forms(applied, w)
  PROVE  /\ ~IsAirQuality(x) /\ ~Breaks(x)
         /\ Len(x) # 5 => ~Decodes(x)
         /\ Len(x) = 5 =>
              /\ x[2] = Pack(w.value.time, 8)
              /\ IsPrecise(x) <=> w.kind = "precise"
              /\ \/ DecodeObservation(x) = w.value
                 \/ /\ applied < 5
                    /\ DecodeObservation(x) = [w.value EXCEPT !.source = Marker]
<1> DEFINE o == w.value
<1>1. PICK T : IsBody(T, w)
  BY HasBody
<1>2. /\ T \in Seq(Blobs) /\ Len(T) = 4
      /\ Len(T[1]) = 8 /\ Len(T[2]) = 2 /\ Len(T[3]) \in {2, 4} /\ Len(T[4]) = 2
      /\ T[1] = Pack(o.time, 8) /\ Signed(T[1]) = o.time
  BY <1>1 DEF IsBody
<1>3. o \in Observation /\ o.source \in Blobs /\ o.time \in Dates /\ Marker \in Blobs
      /\ o = [source |-> o.source, time |-> o.time, temperature |-> o.temperature,
              pressure |-> o.pressure, humidity |-> o.humidity]
  BY HasBody, SourcesAreBytes DEF Observation, Blobs
<1> DEFINE tenth == IF Len(T[3]) = 4 THEN 1 ELSE 10
           whole == IF Len(T[3]) = 4 THEN 1 ELSE 100
           m == <<Marker>> \o T
           y == <<o.source>> \o T
<1>4. /\ o.temperature = tenth * Signed(T[2]) /\ o.pressure = whole * Unsigned(T[3])
      /\ o.humidity = tenth * Unsigned(T[4])
      /\ Len(T[3]) = 4 <=> w.kind = "precise"
  <2>1. /\ o.temperature = tenth * Signed(T[2]) /\ o.pressure = whole * Unsigned(T[3])
        /\ o.humidity = tenth * Unsigned(T[4])
    BY <1>1 DEF IsBody
  <2>2. Len(T[3]) = 2 <=> w.kind # "precise"
    BY <1>1 DEF IsBody
  <2>3. Len(T[3]) = 4 <=> w.kind = "precise"
    <3>1. Len(T[3]) \in {2, 4}
      BY <1>2
    <3>2. \A n \in {2, 4} : n = 2 <=> n # 4
      OBVIOUS
    <3>3. Len(T[3]) = 2 <=> Len(T[3]) # 4
      BY <3>1, <3>2, Zenon
    <3> QED  BY <2>2, <3>3, Zenon
  <2> HIDE DEF o, tenth, whole
  <2> QED  BY <2>1, <2>3
<1>5. x \in {T, m, y} /\ (applied = 5 => x = y)
  <2>1. WrittenAs(w) \in {T, m, y} /\ AsMarked(w) \in {T, m, y} /\ Final(w) = y
    <3>1. /\ WrittenAs(w) = CASE Legacy(w) -> T
                              [] w.kind = "marked" -> m
                              [] w.kind = "environment" -> y
          /\ Final(w) = y
      BY <1>1 DEF IsBody
    <3>2. CASE Legacy(w)
      <4>1. AsMarked(w) = <<Marker>> \o WrittenAs(w)
        BY <3>2 DEF AsMarked
      <4>2. WrittenAs(w) = T
        <5> HIDE DEF m, y
        <5> QED  BY <3>1, <3>2 DEF Legacy
      <4>3. AsMarked(w) = m
        BY <4>1, <4>2
      <4> HIDE DEF m, y
      <4> QED  BY <3>1, <4>2, <4>3
    <3>3. CASE ~Legacy(w)
      <4>1. AsMarked(w) = WrittenAs(w) /\ w.kind \in {"marked", "environment"}
        BY <3>3 DEF AsMarked, Observational
      <4> HIDE DEF m, y
      <4> QED  BY <3>1, <3>3, <4>1
    <3> QED  BY <3>2, <3>3
  <2> QED  BY <2>1 DEF Forms
<1>6. ~IsAirQuality(T) /\ ~Breaks(T) /\ ~Decodes(T)
  BY <1>2 DEF IsAirQuality, Breaks, Decodes, Refused
<1>7. /\ Len(m) = 5 /\ m[2] = T[1] /\ ~IsAirQuality(m) /\ ~Breaks(m)
      /\ IsPrecise(m) <=> w.kind = "precise"
      /\ DecodeObservation(m) = [o EXCEPT !.source = Marker]
  <2>1. /\ Len(m) = 5 /\ m[2] = T[1] /\ ~IsAirQuality(m) /\ ~Breaks(m)
        /\ IsPrecise(m) <=> Len(T[3]) = 4
        /\ DecodeObservation(m) =
             [source |-> Marker, time |-> Signed(T[1]),
              temperature |-> tenth * Signed(T[2]), pressure |-> whole * Unsigned(T[3]),
              humidity |-> tenth * Unsigned(T[4])]
    BY <1>2, <1>3, Sourced
  <2> HIDE DEF m, tenth, whole
  <2>2. DecodeObservation(m) =
          [source |-> Marker, time |-> o.time, temperature |-> o.temperature,
           pressure |-> o.pressure, humidity |-> o.humidity]
    BY <1>2, <1>4, <2>1
  <2> HIDE DEF o
  <2>3. [o EXCEPT !.source = Marker] =
          [source |-> Marker, time |-> o.time, temperature |-> o.temperature,
           pressure |-> o.pressure, humidity |-> o.humidity]
    BY <1>3
  <2> QED  BY <1>4, <2>1, <2>2, <2>3
<1>8. /\ Len(y) = 5 /\ y[2] = T[1] /\ ~IsAirQuality(y) /\ ~Breaks(y)
      /\ IsPrecise(y) <=> w.kind = "precise"
      /\ DecodeObservation(y) = o
  <2>1. /\ Len(y) = 5 /\ y[2] = T[1] /\ ~IsAirQuality(y) /\ ~Breaks(y)
        /\ IsPrecise(y) <=> Len(T[3]) = 4
        /\ DecodeObservation(y) =
             [source |-> o.source, time |-> Signed(T[1]),
              temperature |-> tenth * Signed(T[2]), pressure |-> whole * Unsigned(T[3]),
              humidity |-> tenth * Unsigned(T[4])]
    BY <1>2, <1>3, Sourced
  <2> HIDE DEF y, tenth, whole
  <2>2. DecodeObservation(y) =
          [source |-> o.source, time |-> o.time, temperature |-> o.temperature,
           pressure |-> o.pressure, humidity |-> o.humidity]
    BY <1>2, <1>4, <2>1
  <2> HIDE DEF o
  <2> QED  BY <1>3, <1>4, <2>1, <2>2
<1> HIDE DEF m, y, o, tenth, whole
<1>9. applied < 5 \/ applied = 5
  OBVIOUS
<1>10. CASE x = T
  BY <1>2, <1>5, <1>6, <1>10
<1>11. CASE x = m
  <2>1. Len(x) = 5 /\ x[2] = Pack(o.time, 8)
    BY <1>2, <1>7, <1>11
  <2>2. x = y \/ applied < 5
    BY <1>5, <1>9
  <2> QED  BY <1>7, <1>8, <1>11, <2>1, <2>2 DEF o
<1>12. CASE x = y
  <2>1. Len(x) = 5 /\ x[2] = Pack(o.time, 8)
    BY <1>2, <1>8, <1>12
  <2> QED  BY <1>8, <1>12, <2>1 DEF o
<1> QED  BY <1>5, <1>10, <1>11, <1>12

(* The other Terms have one form, and readers decode none of them as an         *)
(* observation.                                                                 *)
LEMMA OtherForms ==
  ASSUME NEW w, Writable(w), ~Observational(w), NEW applied \in 1..5,
         NEW x \in Forms(applied, w)
  PROVE  /\ x = WrittenAs(w) /\ ~Decodes(x)
         /\ w.kind # "air_quality" => ~IsAirQuality(x)
         /\ w.kind = "air_quality" =>
              /\ ~Breaks(x) /\ Len(x) = 2 /\ x[1] \in Blobs /\ x[2] \in Blobs
              /\ DecodeAirQuality(x) = w.value
<1>1. w.kind \in {"air_quality", "other"} /\ ~Legacy(w)
  BY DEF Observational, Writable, Legacy
<1>2. AsMarked(w) = WrittenAs(w) /\ Final(w) = WrittenAs(w)
  BY <1>1 DEF AsMarked, Final, Observational
<1>3. x = WrittenAs(w)
  BY <1>2 DEF Forms
<1>4. CASE w.kind = "air_quality"
  <2>1. w.value \in [time : Dates, percentage : 0..MaxPercent]
        /\ x = EncodeAirQuality(w.value.time, w.value.percentage)
    BY <1>3, <1>4 DEF Writable, WrittenAs
  <2>2. x \in Seq(Blobs) /\ Len(x) = 2 /\ DecodeAirQuality(x) = w.value
    BY <2>1, AssessmentWritten
  <2>3. x[1] \in Blobs /\ x[2] \in Blobs
    BY <2>2
  <2>4. ~Decodes(x) /\ ~Breaks(x)
    BY <2>2 DEF Decodes, Breaks, Refused
  <2> QED  BY <1>3, <1>4, <2>2, <2>3, <2>4
<1>5. CASE w.kind = "other"
  <2>1. Foreign(w.value) /\ x = w.value
    BY <1>3, <1>5 DEF Writable, WrittenAs
  <2> QED  BY <1>3, <1>5, <2>1 DEF Foreign
<1> QED  BY <1>1, <1>4, <1>5

(* A reader that comes before, between or after the migrations decodes only     *)
(* what is an observation or an assessment, and to what was written.            *)
THEOREM NothingIsMisread == Spec => []NothingMisread
<1>1. IInv => NothingMisread
  <2> SUFFICES ASSUME IInv, NEW t \in DOMAIN db.rel
               PROVE  LET atoms == AtomsOf(db.rel[t])
                      IN  /\ Decodes(atoms) =>
                               /\ Observational(origin[t])
                               /\ \/ ValueOf(t) = origin[t].value
                                  \/ /\ db.applied < 5
                                     /\ ValueOf(t) = [origin[t].value EXCEPT !.source = Marker]
                          /\ IsAirQuality(atoms) =>
                               /\ origin[t].kind = "air_quality"
                               /\ DecodeAirQuality(atoms) = origin[t].value
    BY DEF NothingMisread
  <2> DEFINE w == origin[t]
  <2>1. Writable(w) /\ db.applied \in 1..5
    BY Stored DEF IInv, Shaped
  <2>2. PICK x \in Forms(db.applied, w) : AtomsOf(db.rel[t]) = x
    BY Stored
  <2>3. ValueOf(t) = DecodeObservation(x)
    BY <2>2 DEF ValueOf
  <2> HIDE DEF w
  <2>4. CASE Observational(w)
    BY <2>1, <2>2, <2>3, <2>4, ObservationForms DEF w
  <2>5. CASE ~Observational(w)
    BY <2>1, <2>2, <2>3, <2>5, OtherForms DEF w
  <2> QED  BY <2>4, <2>5
<1> QED  BY <1>1, Inductive, PTL

-----------------------------------------------------------------------------
(* The order of blobs *)

(* The first place where two blobs differ decides. *)
DecidedAt(a, b, i) ==
  /\ i \in 1..Len(b)
  /\ \A j \in 1..i - 1 : j <= Len(a) /\ a[j] = b[j]
  /\ i = Len(a) + 1 \/ (i <= Len(a) /\ a[i] < b[i])

LEMMA BeforeDecided ==
  ASSUME NEW a \in Blobs, NEW b \in Blobs
  PROVE  Before(a, b) <=> \E i \in Nat : DecidedAt(a, b, i)
<1>1. /\ a \in Seq(Byte) /\ b \in Seq(Byte) /\ Len(a) \in Nat /\ Len(b) \in Nat
      /\ DOMAIN a = 1..Len(a) /\ DOMAIN b = 1..Len(b)
  BY DEF Blobs
<1>2. ASSUME NEW n \in 0..Len(b)
      PROVE  /\ SubSeq(b, 1, n) \in Seq(Byte) /\ Len(SubSeq(b, 1, n)) = n
             /\ \A j \in 1..n : SubSeq(b, 1, n)[j] = b[j]
  <2>1. 1 \in Int /\ n \in Int /\ \A j \in 1..n : b[j] \in Byte
    BY <1>1
  <2>2. /\ SubSeq(b, 1, n) \in Seq(Byte)
        /\ Len(SubSeq(b, 1, n)) = IF 1 <= n THEN n - 1 + 1 ELSE 0
        /\ \A j \in 1..n - 1 + 1 : SubSeq(b, 1, n)[j] = b[1 + j - 1]
    BY <2>1, SubSeqProperties
  <2>3. \A j \in 1..n : j \in 1..n - 1 + 1 /\ 1 + j - 1 = j
    BY <1>1
  <2> QED  BY <1>1, <2>2, <2>3
<1>3. ASSUME Before(a, b) PROVE \E i \in Nat : DecidedAt(a, b, i)
  <2>1. CASE \E i \in DOMAIN a \cap DOMAIN b : a[i] < b[i] /\ \A j \in 1..i - 1 : a[j] = b[j]
    <3>1. PICK i \in DOMAIN a \cap DOMAIN b : a[i] < b[i] /\ \A j \in 1..i - 1 : a[j] = b[j]
      BY <2>1
    <3>2. i \in Nat /\ i \in 1..Len(b) /\ i <= Len(a)
      BY <1>1, <3>1
    <3>3. DecidedAt(a, b, i)
      BY <1>1, <3>1, <3>2 DEF DecidedAt
    <3> QED  BY <3>2, <3>3
  <2>2. CASE Len(a) < Len(b) /\ a = SubSeq(b, 1, Len(a))
    <3>1. Len(a) \in 0..Len(b) /\ Len(a) + 1 \in 1..Len(b) /\ (Len(a) + 1) - 1 = Len(a)
          /\ Len(a) + 1 \in Nat
      BY <1>1, <2>2
    <3>2. \A j \in 1..Len(a) : j <= Len(a) /\ a[j] = b[j]
      BY <1>2, <2>2, <3>1
    <3>3. DecidedAt(a, b, Len(a) + 1)
      BY <3>1, <3>2 DEF DecidedAt
    <3> QED  BY <3>1, <3>3
  <2> QED  BY <1>3, <2>1, <2>2 DEF Before
<1>4. ASSUME NEW i \in Nat, DecidedAt(a, b, i) PROVE Before(a, b)
  <2>1. i \in 1..Len(b) /\ \A j \in 1..i - 1 : j <= Len(a) /\ a[j] = b[j]
    BY <1>4 DEF DecidedAt
  <2>2. CASE i = Len(a) + 1
    <3>1. Len(a) < Len(b) /\ Len(a) \in 0..Len(b) /\ i - 1 = Len(a)
      BY <1>1, <2>1, <2>2
    <3>2. \A j \in 1..Len(a) : a[j] = SubSeq(b, 1, Len(a))[j]
      BY <1>2, <2>1, <3>1
    <3>3. SubSeq(b, 1, Len(a)) \in Seq(Byte) /\ Len(SubSeq(b, 1, Len(a))) = Len(a)
      BY <1>2, <3>1
    <3>4. a = SubSeq(b, 1, Len(a))
      BY <1>1, <3>2, <3>3, SeqEqual
    <3> QED  BY <3>1, <3>4 DEF Before
  <2>3. CASE i <= Len(a) /\ a[i] < b[i]
    <3>1. i \in DOMAIN a \cap DOMAIN b
      BY <1>1, <2>1, <2>3
    <3> QED  BY <2>1, <2>3, <3>1 DEF Before
  <2> QED  BY <1>4, <2>2, <2>3 DEF DecidedAt
<1> QED  BY <1>3, <1>4

LEMMA BytesAreNumbers == ASSUME NEW a \in Blobs, NEW i \in 1..Len(a) PROVE a[i] \in Nat
<1>1. a[i] \in Byte
  BY DEF Blobs
<1> QED  BY <1>1, BaseIsEven DEF Byte

LEMMA BeforeIrreflexive == ASSUME NEW a \in Blobs PROVE ~Before(a, a)
<1> SUFFICES ASSUME NEW i \in Nat, DecidedAt(a, a, i) PROVE FALSE
  BY BeforeDecided
<1>1. i \in 1..Len(a) /\ Len(a) \in Nat
  BY DEF DecidedAt, Blobs
<1>2. a[i] \in Nat
  BY <1>1, BytesAreNumbers
<1> QED  BY <1>1, <1>2 DEF DecidedAt

LEMMA BeforeTransitive ==
  ASSUME NEW a \in Blobs, NEW b \in Blobs, NEW c \in Blobs, Before(a, b), Before(b, c)
  PROVE  Before(a, c)
<1>1. PICK i \in Nat : DecidedAt(a, b, i)
  BY BeforeDecided
<1>2. PICK k \in Nat : DecidedAt(b, c, k)
  BY BeforeDecided
<1>3. Len(a) \in Nat /\ Len(b) \in Nat /\ Len(c) \in Nat
  BY DEF Blobs
<1>4. /\ \A j \in 1..Len(a) : a[j] \in Nat
      /\ \A j \in 1..Len(b) : b[j] \in Nat
      /\ \A j \in 1..Len(c) : c[j] \in Nat
  BY BytesAreNumbers
<1>5. /\ i \in 1..Len(b) /\ \A j \in 1..i - 1 : j <= Len(a) /\ a[j] = b[j]
      /\ i = Len(a) + 1 \/ (i <= Len(a) /\ a[i] < b[i])
  BY <1>1 DEF DecidedAt
<1>6. /\ k \in 1..Len(c) /\ \A j \in 1..k - 1 : j <= Len(b) /\ b[j] = c[j]
      /\ k = Len(b) + 1 \/ (k <= Len(b) /\ b[k] < c[k])
  BY <1>2 DEF DecidedAt
<1>7. CASE i < k
  <2>1. i \in 1..k - 1 /\ b[i] = c[i] /\ i \in 1..Len(c)
    BY <1>5, <1>6, <1>7
  <2>2. \A j \in 1..i - 1 : j <= Len(a) /\ a[j] = c[j]
    BY <1>5, <1>6, <1>7
  <2>3. DecidedAt(a, c, i)
    BY <1>5, <2>1, <2>2 DEF DecidedAt
  <2> QED  BY <2>3, BeforeDecided
<1>8. CASE k < i
  <2>1. k \in 1..i - 1 /\ k <= Len(a) /\ a[k] = b[k] /\ b[k] < c[k]
    BY <1>3, <1>5, <1>6, <1>8
  <2>2. \A j \in 1..k - 1 : j <= Len(a) /\ a[j] = c[j]
    BY <1>5, <1>6, <1>8
  <2>3. DecidedAt(a, c, k)
    BY <1>6, <2>1, <2>2 DEF DecidedAt
  <2> QED  BY <2>3, BeforeDecided
<1>9. CASE i = k
  <2>1. b[k] < c[k] /\ \A j \in 1..i - 1 : j <= Len(a) /\ a[j] = c[j]
    BY <1>3, <1>5, <1>6, <1>9
  <2>2. i <= Len(a) => a[i] < c[i]
    <3> SUFFICES ASSUME i <= Len(a) PROVE a[i] < c[i]
      OBVIOUS
    <3>1. a[i] \in Nat /\ b[i] \in Nat /\ c[i] \in Nat /\ a[i] < b[i]
      BY <1>3, <1>4, <1>5, <1>6, <1>9
    <3> QED  BY <1>9, <2>1, <3>1
  <2>3. DecidedAt(a, c, i)
    BY <1>5, <1>6, <1>9, <2>1, <2>2 DEF DecidedAt
  <2> QED  BY <2>3, BeforeDecided
<1> QED  BY <1>7, <1>8, <1>9

LEMMA BeforeTotal ==
  ASSUME NEW a \in Blobs, NEW b \in Blobs
  PROVE  a = b \/ Before(a, b) \/ Before(b, a)
<1>1. a \in Seq(Byte) /\ b \in Seq(Byte) /\ Len(a) \in Nat /\ Len(b) \in Nat
  BY DEF Blobs
<1>2. /\ \A j \in 1..Len(a) : a[j] \in Nat
      /\ \A j \in 1..Len(b) : b[j] \in Nat
  BY BytesAreNumbers
<1> DEFINE D == {i \in Nat \ {0} : \/ i <= Len(a) /\ i <= Len(b) /\ a[i] # b[i]
                                   \/ i = Len(a) + 1 /\ i <= Len(b)
                                   \/ i = Len(b) + 1 /\ i <= Len(a)}
<1>3. CASE D = {}
  <2>1. ~(Len(a) + 1 \in D) /\ ~(Len(b) + 1 \in D)
    BY <1>3
  <2>2. Len(a) = Len(b)
    <3>1. ~(Len(a) + 1 <= Len(b)) /\ ~(Len(b) + 1 <= Len(a))
      BY <1>1, <2>1
    <3> QED  BY <1>1, <3>1
  <2>3. \A i \in 1..Len(a) : a[i] = b[i]
    <3> SUFFICES ASSUME NEW i \in 1..Len(a), a[i] # b[i] PROVE FALSE
      OBVIOUS
    <3>1. i \in D
      BY <1>1, <2>2
    <3> QED  BY <1>3, <3>1
  <2> QED  BY <1>1, <2>2, <2>3, SeqEqual
<1>4. CASE D # {}
  <2>1. D \in SUBSET Nat
    OBVIOUS
  <2>2. PICK i \in D : \A j \in D : i <= j
    <3> HIDE DEF D
    <3> QED  BY <1>4, <2>1, LeastNatural
  <2>3. i \in Nat \ {0}
    OBVIOUS
  <2>4. i <= Len(a) + 1 /\ i <= Len(b) + 1
    BY <1>1, <2>3
  <2>5. ASSUME NEW j \in 1..i - 1 PROVE j <= Len(a) /\ j <= Len(b) /\ a[j] = b[j]
    <3>1. j \notin D /\ j \in Nat \ {0}
      BY <2>2, <2>3
    <3>2. j <= Len(a) /\ j <= Len(b)
      BY <1>1, <2>3, <2>4
    <3> QED  BY <3>1, <3>2
  <2>6. CASE i <= Len(a) /\ i <= Len(b)
    <3>1. a[i] \in Nat /\ b[i] \in Nat /\ a[i] # b[i]
      BY <1>1, <1>2, <2>3, <2>6
    <3>2. a[i] < b[i] \/ b[i] < a[i]
      BY <3>1
    <3>3. DecidedAt(a, b, i) \/ DecidedAt(b, a, i)
      BY <1>1, <2>3, <2>5, <2>6, <3>2 DEF DecidedAt
    <3> QED  BY <2>3, <3>3, BeforeDecided
  <2>7. CASE i = Len(a) + 1 /\ i <= Len(b)
    <3>1. DecidedAt(a, b, i)
      BY <1>1, <2>3, <2>5, <2>7 DEF DecidedAt
    <3> QED  BY <2>3, <3>1, BeforeDecided
  <2>8. CASE i = Len(b) + 1 /\ i <= Len(a)
    <3>1. DecidedAt(b, a, i)
      BY <1>1, <2>3, <2>5, <2>8 DEF DecidedAt
    <3> QED  BY <2>3, <3>1, BeforeDecided
  <2> QED  BY <2>6, <2>7, <2>8
<1> QED  BY <1>3, <1>4

(* Of blobs of one width the order is that of their numbers. *)
LEMMA BeforeIsLess ==
  ASSUME NEW a \in Blobs, NEW b \in Blobs, Len(a) = Len(b), Before(a, b)
  PROVE  Unsigned(a) < Unsigned(b)
<1> DEFINE n == Len(a)
<1>1. n \in Nat
  BY DEF Blobs
<1>2. PICK i \in Nat : DecidedAt(a, b, i)
  BY BeforeDecided
<1>3. i \in 1..n /\ a[i] < b[i] /\ \A j \in 1..i - 1 : a[j] = b[j]
  BY <1>1, <1>2 DEF DecidedAt
<1>4. Byte \subseteq Int /\ \A x \in Byte : x >= 0 /\ x <= Base - 1
  BY BaseIsEven DEF Byte
<1>5. a \in Seq(Int) /\ b \in Seq(Int) /\ \A k \in 1..n : a[k] \in Byte /\ b[k] \in Byte
  <2>1. a \in Seq(Byte) /\ b \in Seq(Byte)
    BY DEF Blobs
  <2>2. Byte \subseteq Int
    BY <1>4
  <2>3. a \in Seq(Int)
    BY <2>1, <2>2, SeqMonotonic, Zenon
  <2>4. b \in Seq(Int)
    BY <2>1, <2>2, SeqMonotonic, Zenon
  <2>5. \A k \in 1..n : a[k] \in Byte /\ b[k] \in Byte
    BY <2>1
  <2> QED  BY <2>3, <2>4, <2>5
<1>6. PICK f \in [Nat -> Int] :
        f[0] = 0 /\ \A k \in 1..Len(a) : f[k] = Base * f[k - 1] + a[k]
  BY <1>5, Prefixes
<1>7. PICK g \in [Nat -> Int] :
        g[0] = 0 /\ \A k \in 1..Len(b) : g[k] = Base * g[k - 1] + b[k]
  BY <1>5, Prefixes
<1>8. Unsigned(a) = f[n] /\ Unsigned(b) = g[n]
  <2>1. Unsigned(a) = f[Len(a)]
    BY <1>5, <1>6, UnsignedIs
  <2>2. Unsigned(b) = g[Len(b)]
    BY <1>5, <1>7, UnsignedIs
  <2> QED  BY <2>1, <2>2
<1> HIDE DEF n
<1>9. /\ \A k \in 1..n : f[k] = Base * f[k - 1] + a[k]
      /\ \A k \in 1..n : g[k] = Base * g[k - 1] + b[k]
  BY <1>6, <1>7 DEF n
<1> DEFINE T == {k \in Nat : /\ k < i => f[k] = g[k]
                             /\ k >= i /\ k <= n => f[k] < g[k]}
<1>10. 0 \in T
  BY <1>1, <1>3, <1>6, <1>7
<1>11. ASSUME NEW k \in Nat, k \in T PROVE k + 1 \in T
  <2>1. CASE k + 1 > n
    <3>1. ~(k + 1 < i)
      BY <1>1, <1>3, <2>1
    <3> QED  BY <1>1, <2>1, <3>1
  <2>2. CASE k + 1 <= n
    <3>1. k + 1 \in 1..n /\ (k + 1) - 1 = k
      BY <1>1, <2>2
    <3>2. f[k + 1] = Base * f[k] + a[k + 1] /\ g[k + 1] = Base * g[k] + b[k + 1]
      BY <1>9, <3>1
    <3>3. f[k] \in Int /\ g[k] \in Int /\ a[k + 1] \in Int /\ b[k + 1] \in Int
      BY <1>4, <1>5, <3>1
    <3>4. Base * f[k] \in Int /\ Base * g[k] \in Int
      BY <3>3, BaseIsEven
    <3>5. CASE k + 1 < i
      <4>1. a[k + 1] = b[k + 1] /\ f[k] = g[k]
        BY <1>3, <1>11, <3>5
      <4>2. f[k + 1] = g[k + 1]
        BY <3>2, <4>1
      <4> QED  BY <3>5, <4>2
    <3>6. CASE k + 1 = i
      <4>1. k < i
        BY <3>6
      <4>2. a[k + 1] < b[k + 1]
        BY <1>3, <3>6, Zenon
      <4>3. f[k] = g[k]
        BY <1>11, <4>1
      <4>4. f[k + 1] < g[k + 1]
        BY <3>2, <3>3, <3>4, <4>2, <4>3
      <4> QED  BY <3>6, <4>4
    <3>7. CASE k + 1 > i
      <4>1. f[k] < g[k]
        BY <1>1, <1>3, <1>11, <2>2, <3>7
      <4>2. f[k] + 1 \in Int /\ f[k] + 1 <= g[k] /\ Base \in Int /\ Base > 0
        BY <3>3, <4>1, BaseIsEven
      <4>3. Base * (f[k] + 1) <= Base * g[k]
        <5>1. g[k] \in Int
          BY <3>3
        <5> QED  BY <4>2, <5>1, Monotone
      <4>4. Base * f[k] + Base <= Base * g[k]
        <5>1. Base * (f[k] + 1) = Base * f[k] + Base
          BY <3>3, <4>2
        <5> QED  BY <4>3, <5>1
      <4>5. a[k + 1] <= Base - 1 /\ b[k + 1] >= 0
        BY <1>4, <1>5, <3>1
      <4>6. ASSUME NEW p \in Int, NEW q \in Int, NEW u \in Int, NEW v \in Int,
                   p + Base <= q, u <= Base - 1, v >= 0
            PROVE  p + u < q + v
        BY <4>2, <4>6
      <4>7. Base * f[k] + a[k + 1] < Base * g[k] + b[k + 1]
        BY <3>3, <3>4, <4>4, <4>5, <4>6
      <4>8. f[k + 1] < g[k + 1]
        BY <3>2, <4>7
      <4> QED  BY <3>7, <4>8
    <3> QED  BY <1>3, <3>5, <3>6, <3>7
  <2> QED  BY <1>1, <2>1, <2>2
<1>12. n \in T
  <2> HIDE DEF T
  <2> QED  BY <1>1, <1>10, <1>11, Induction
<1> QED  BY <1>1, <1>3, <1>8, <1>12

LEMMA DatesAreNumbers == Dates \subseteq Int
<1>1. Power[8] \in Nat
  BY PowerPositive
<1> QED  BY <1>1, DatesFit DEF SignedRange

(* Times that are not before 1970 are in the order of their blobs. *)
LEMMA TimesInOrder ==
  ASSUME NEW x \in Dates, NEW y \in Dates, x >= 0, y >= 0
  PROVE  Before(Pack(x, 8), Pack(y, 8)) <=> x < y
<1>1. x \in SignedRange(8) /\ y \in SignedRange(8)
  BY DatesFit
<1>2. Power[8] \in Nat
  BY PowerPositive
<1>3. x \in 0..Power[8] - 1 /\ y \in 0..Power[8] - 1
  BY <1>1, <1>2 DEF SignedRange
<1>4. Unsigned(Pack(x, 8)) = x /\ Unsigned(Pack(y, 8)) = y
  BY <1>3, NaturalRestored
<1>5. x \in Int /\ y \in Int
  BY <1>3
<1>6. /\ Pack(x, 8) \in Blobs /\ Len(Pack(x, 8)) = 8
      /\ Pack(y, 8) \in Blobs /\ Len(Pack(y, 8)) = 8
  BY <1>5, PackType DEF Blobs
<1>7. Before(Pack(x, 8), Pack(y, 8)) => x < y
  BY <1>4, <1>6, BeforeIsLess
<1>8. Before(Pack(y, 8), Pack(x, 8)) => y < x
  BY <1>4, <1>6, BeforeIsLess
<1>9. Pack(x, 8) = Pack(y, 8) => x = y
  BY <1>4
<1>10. \/ Pack(x, 8) = Pack(y, 8) \/ Before(Pack(x, 8), Pack(y, 8))
       \/ Before(Pack(y, 8), Pack(x, 8))
  BY <1>6, BeforeTotal
<1> QED  BY <1>5, <1>7, <1>8, <1>9, <1>10

(* A time before 1970 has its sign in the first byte, and comes after all those. *)
LEMMA NegativeTimesLast ==
  ASSUME NEW x \in Dates, NEW y \in Dates, x >= 0, y < 0
  PROVE  Before(Pack(x, 8), Pack(y, 8)) /\ ~Before(Pack(y, 8), Pack(x, 8))
<1> DEFINE a == Pack(x, 8)
           b == Pack(y, 8)
<1>1. x \in SignedRange(8) /\ y \in SignedRange(8) /\ x \in Int /\ y \in Int
  BY DatesFit, DatesAreNumbers
<1>2. a \in Blobs /\ Len(a) = 8 /\ b \in Blobs /\ Len(b) = 8
  BY <1>1, PackType DEF Blobs
<1>3. a[1] < Base \div 2 /\ ~(b[1] < Base \div 2)
  <2>1. 8 \in Nat \ {0} /\ ~(y >= 0)
    BY <1>1
  <2> QED  BY <1>1, <2>1, IntegerRestored
<1> HIDE DEF a, b
<1>4. a[1] < b[1]
  <2>1. 1 \in 1..Len(a) /\ 1 \in 1..Len(b)
    BY <1>2
  <2>2. a[1] \in Nat /\ b[1] \in Nat
    BY <1>2, <2>1, BytesAreNumbers
  <2> DEFINE half == Base \div 2
  <2>3. half \in Int /\ a[1] < half /\ ~(b[1] < half)
    BY <1>3, BaseIsEven
  <2> HIDE DEF half
  <2> QED  BY <2>2, <2>3
<1>5. Before(a, b)
  <2>1. 1 \in DOMAIN a \cap DOMAIN b
    BY <1>2
  <2>2. \A j \in 1..1 - 1 : a[j] = b[j]
    OBVIOUS
  <2> QED  BY <1>4, <2>1, <2>2 DEF Before
<1>6. ~Before(b, a)
  BY <1>2, <1>5, BeforeTransitive, BeforeIrreflexive
<1> QED  BY <1>5, <1>6 DEF a, b

-----------------------------------------------------------------------------
(* Ranges and the order of the export *)

(* Whatever is in the file was written by somebody. *)
Known == \A t \in DOMAIN origin : origin[t] \in Written

LEMMA OnlyKnown == Spec => []Known
<1>1. Init => Known
  BY DEF Init, Known, Written
<1>2. Known /\ [Next]_vars => Known'
  <2> SUFFICES ASSUME Known, [Next]_vars PROVE Known'
    OBVIOUS
  <2>1. CASE Add
    <3>1. PICK w \in Additions : \E new : origin' = With(origin, new, w)
      BY <2>1 DEF Add
    <3>2. PICK new : origin' = With(origin, new, w)
      BY <3>1
    <3>3. w \in Written
      BY DEF Written
    <3>4. \A t \in DOMAIN origin' : t \in DOMAIN origin \/ t = new
      BY <3>2 DEF With
    <3>5. \A t \in DOMAIN origin' : origin'[t] = IF t = new THEN w ELSE origin[t]
      BY <3>2 DEF With
    <3> QED  BY <3>3, <3>4, <3>5 DEF Known
  <2>2. CASE origin' = origin
    BY <2>2 DEF Known
  <2>3. UNCHANGED vars => origin' = origin
    BY DEF vars
  <2>4. Begin \/ Crash => origin' = origin
    BY DEF Begin, Crash
  <2>5. PopulateIndex \/ FinishIndex => origin' = origin
    BY DEF PopulateIndex, FinishIndex, AppendRow, Skip, Refuse, Commit
  <2>6. MarkExisting \/ MarkUnconverted \/ FinishMarking => origin' = origin
    BY DEF MarkExisting, MarkUnconverted, Mark, Skip, FinishMarking, Commit
  <2>7. MoveAway \/ MoveBack \/ InsertMarker => origin' = origin
    BY DEF MoveAway, MoveBack, Save, Refuse, InsertMarker
  <2>8. ReplaceMarker \/ FinishSource => origin' = origin
    BY DEF ReplaceMarker, Skip, FinishSource, Commit
  <2> QED  BY <2>1, <2>2, <2>3, <2>4, <2>5, <2>6, <2>7, <2>8 DEF Next, Migrate
<1> QED  BY <1>1, <1>2, PTL DEF Spec

(* What decodes is an observation, found under the blob of its time. *)
LEMMA Decoded ==
  ASSUME IInv, NEW t \in DOMAIN db.rel, Decodes(AtomsOf(db.rel[t]))
  PROVE  /\ t \in DOMAIN origin /\ Writable(origin[t]) /\ Observational(origin[t])
         /\ origin[t].value \in Observation
         /\ \/ ValueOf(t) = origin[t].value
            \/ ValueOf(t) = [origin[t].value EXCEPT !.source = Marker]
         /\ ValueOf(t).time = origin[t].value.time
         /\ IsPrecise(AtomsOf(db.rel[t])) <=> origin[t].kind = "precise"
         /\ 1 \in DOMAIN db.rel[t]
         /\ db.rel[t][1] = Pack(origin[t].value.time, 8)
<1> DEFINE w == origin[t]
<1>1. t \in DOMAIN origin /\ Writable(w) /\ db.applied \in 1..5
  BY Stored DEF IInv, Shaped
<1>2. PICK x \in Forms(db.applied, w) :
        x \in Seq(Blobs) /\ db.rel[t] = Relations(x) /\ AtomsOf(db.rel[t]) = x
  BY Stored
<1>3. Decodes(x) /\ ValueOf(t) = DecodeObservation(x)
  BY <1>2 DEF ValueOf
<1> HIDE DEF w
<1>4. Observational(w)
  BY <1>1, <1>2, <1>3, OtherForms
<1>5. Len(x) = 5
  BY <1>1, <1>2, <1>3, <1>4, ObservationForms
<1>6. /\ x[2] = Pack(w.value.time, 8)
      /\ IsPrecise(x) <=> w.kind = "precise"
      /\ \/ DecodeObservation(x) = w.value
         \/ DecodeObservation(x) = [w.value EXCEPT !.source = Marker]
  BY <1>1, <1>2, <1>4, <1>5, ObservationForms
<1>7. w.value \in Observation
  BY <1>1, <1>4, HasBody
<1>8. [w.value EXCEPT !.source = Marker].time = w.value.time
  BY <1>7 DEF Observation
<1>9. ValueOf(t).time = w.value.time
  BY <1>3, <1>6, <1>8
<1>10. 1 \in DOMAIN db.rel[t] /\ db.rel[t][1] = x[2]
  <2>1. 1 \in 0..Len(x) - 1 /\ 1 + 1 = 2
    BY <1>5
  <2>2. /\ DOMAIN Relations(x) = 0..Len(x) - 1
        /\ \A order \in 0..Len(x) - 1 : Relations(x)[order] = x[order + 1]
    BY <1>2, RelationsShape
  <2> QED  BY <1>2, <2>1, <2>2
<1> QED  BY <1>1, <1>2, <1>3, <1>4, <1>6, <1>7, <1>9, <1>10 DEF w

LEMMA DecodedInTime ==
  ASSUME Since1970, IInv, Known, NEW t \in DOMAIN db.rel, Decodes(AtomsOf(db.rel[t]))
  PROVE  /\ ValueOf(t).time \in Dates /\ ValueOf(t).time >= 0
         /\ 1 \in DOMAIN db.rel[t] /\ db.rel[t][1] = Pack(ValueOf(t).time, 8)
<1>1. /\ t \in DOMAIN origin /\ Observational(origin[t]) /\ origin[t].value \in Observation
      /\ ValueOf(t).time = origin[t].value.time
      /\ 1 \in DOMAIN db.rel[t] /\ db.rel[t][1] = Pack(origin[t].value.time, 8)
  BY Decoded
<1>2. origin[t].value.time >= 0
  BY <1>1 DEF Known, Since1970
<1>3. origin[t].value.time \in Dates
  BY <1>1 DEF Observation
<1> QED  BY <1>1, <1>2, <1>3

(* The range of a request, compared as bytes in SQL, selects exactly the        *)
(* observations with a time in it, whatever the bounds are; only what is stored *)
(* has times from 1970 on.  A bound before 1970 acts as one after all times.    *)
THEOREM RangesAreExact ==
  ASSUME Since1970
  PROVE  Spec => []RangeIsExact
<1>1. IInv /\ Known => RangeIsExact
  <2> SUFFICES ASSUME IInv, Known, NEW start \in Bounds, NEW end \in Bounds
               PROVE  History(db.rel, start, end) =
                        {t \in DOMAIN db.rel :
                           /\ Decodes(AtomsOf(db.rel[t]))
                           /\ start = Unbounded \/ (start >= 0 /\ ValueOf(t).time >= start)
                           /\ end = Unbounded \/ end < 0 \/ ValueOf(t).time <= end}
    BY DEF RangeIsExact
  <2>1. ASSUME NEW t \in DOMAIN db.rel, Decodes(AtomsOf(db.rel[t]))
        PROVE  t \in Candidates(db.rel, start, end) <=>
                 /\ start = Unbounded \/ (start >= 0 /\ ValueOf(t).time >= start)
                 /\ end = Unbounded \/ end < 0 \/ ValueOf(t).time <= end
    <3> DEFINE time == ValueOf(t).time
    <3>1. /\ time \in Dates /\ time >= 0
          /\ 1 \in DOMAIN db.rel[t] /\ db.rel[t][1] = Pack(time, 8)
      BY <2>1, DecodedInTime
    <3> HIDE DEF time
    <3>2. start # Unbounded =>
            (~Before(Pack(time, 8), Pack(start, 8)) <=> start >= 0 /\ time >= start)
      <4> SUFFICES ASSUME start # Unbounded
                   PROVE  ~Before(Pack(time, 8), Pack(start, 8)) <=> start >= 0 /\ time >= start
        OBVIOUS
      <4>1. start \in Dates /\ start \in Int /\ time \in Int
        BY <3>1, BoundsAreDates, DatesAreNumbers
      <4>2. CASE start >= 0
        <5>1. Before(Pack(time, 8), Pack(start, 8)) <=> time < start
          BY <3>1, <4>1, <4>2, TimesInOrder
        <5> QED  BY <4>1, <4>2, <5>1
      <4>3. CASE start < 0
        <5>1. Before(Pack(time, 8), Pack(start, 8))
          BY <3>1, <4>1, <4>3, NegativeTimesLast
        <5> QED  BY <4>1, <4>3, <5>1
      <4> QED  BY <4>1, <4>2, <4>3
    <3>3. end # Unbounded =>
            (~Before(Pack(end, 8), Pack(time, 8)) <=> end < 0 \/ time <= end)
      <4> SUFFICES ASSUME end # Unbounded
                   PROVE  ~Before(Pack(end, 8), Pack(time, 8)) <=> end < 0 \/ time <= end
        OBVIOUS
      <4>1. end \in Dates /\ end \in Int /\ time \in Int
        BY <3>1, BoundsAreDates, DatesAreNumbers
      <4>2. CASE end >= 0
        <5>1. Before(Pack(end, 8), Pack(time, 8)) <=> end < time
          BY <3>1, <4>1, <4>2, TimesInOrder
        <5> QED  BY <4>1, <4>2, <5>1
      <4>3. CASE end < 0
        <5>1. ~Before(Pack(end, 8), Pack(time, 8))
          BY <3>1, <4>1, <4>3, NegativeTimesLast
        <5> QED  BY <4>1, <4>3, <5>1
      <4> QED  BY <4>1, <4>2, <4>3
    <3>4. t \in Candidates(db.rel, start, end) <=>
            /\ start = Unbounded \/ ~Before(Pack(time, 8), Pack(start, 8))
            /\ end = Unbounded \/ ~Before(Pack(end, 8), Pack(time, 8))
      BY <3>1 DEF Candidates
    <3> QED  BY <3>2, <3>3, <3>4 DEF time
  <2>2. History(db.rel, start, end) =
          {t \in DOMAIN db.rel :
             t \in Candidates(db.rel, start, end) /\ Decodes(AtomsOf(db.rel[t]))}
    BY DEF History, Candidates
  <2> QED  BY <2>1, <2>2
<1> QED  BY <1>1, Inductive, OnlyKnown, PTL

(* The rows of an export, in the order of their blobs, are in that of their     *)
(* times; all times are from 1970 on.                                           *)
THEOREM ExportInOrder ==
  ASSUME Since1970
  PROVE  Spec => []ExportIsChronological
<1>1. IInv /\ Known => ExportIsChronological
  <2> SUFFICES ASSUME IInv, Known, NEW t \in History(db.rel, Unbounded, Unbounded),
                      NEW u \in History(db.rel, Unbounded, Unbounded)
               PROVE  ValueOf(t).time < ValueOf(u).time <=>
                        Before(db.rel[t][1], db.rel[u][1])
    BY DEF ExportIsChronological
  <2>1. /\ t \in DOMAIN db.rel /\ Decodes(AtomsOf(db.rel[t]))
        /\ u \in DOMAIN db.rel /\ Decodes(AtomsOf(db.rel[u]))
    BY DEF History, Candidates
  <2> DEFINE at1 == ValueOf(t).time
             at2 == ValueOf(u).time
  <2>2. /\ at1 \in Dates /\ at1 >= 0 /\ db.rel[t][1] = Pack(at1, 8)
        /\ at2 \in Dates /\ at2 >= 0 /\ db.rel[u][1] = Pack(at2, 8)
    BY <2>1, DecodedInTime
  <2> HIDE DEF at1, at2
  <2>3. Before(db.rel[t][1], db.rel[u][1]) <=> at1 < at2
    BY <2>2, TimesInOrder
  <2> QED  BY <2>3 DEF at1, at2
<1> QED  BY <1>1, Inductive, OnlyKnown, PTL

-----------------------------------------------------------------------------
(* What an export and its import keep *)

(* A compact observation is restored but for its source; a precise one, if the   *)
(* compact profile can hold it, to the nearest value of that profile.            *)
THEOREM ExportIsRestored == Spec => []ExportRestores
<1>1. IInv => ExportRestores
  <2> SUFFICES ASSUME IInv, NEW t \in History(db.rel, Unbounded, Unbounded)
               PROVE  LET o == ValueOf(t)
                          again == Restored(o)
                      IN  /\ ~IsPrecise(AtomsOf(db.rel[t])) =>
                               Importable(o) /\ again = [o EXCEPT !.source = Local]
                          /\ Importable(o) =>
                               /\ again.time = o.time
                               /\ Near(again.temperature, o.temperature, 10)
                               /\ Near(again.pressure, o.pressure, 100)
                               /\ Near(again.humidity, o.humidity, 10)
    BY DEF ExportRestores
  <2> DEFINE w == origin[t]
             v == w.value
             o == ValueOf(t)
             again == Restored(o)
             row == Imported(Exported(o))
  <2>1. t \in DOMAIN db.rel /\ Decodes(AtomsOf(db.rel[t]))
    BY DEF History, Candidates
  <2>2. /\ t \in DOMAIN origin /\ Writable(w) /\ Observational(w) /\ v \in Observation
        /\ o = v \/ o = [v EXCEPT !.source = Marker]
        /\ IsPrecise(AtomsOf(db.rel[t])) <=> w.kind = "precise"
    BY <2>1, Decoded
  <2>3. w.kind # "precise" => Rounded(v)
    BY <2>2 DEF Writable, Observational, Legacy
  <2> HIDE DEF v, o
  <2>4. /\ o \in Observation /\ o.time = v.time /\ o.temperature = v.temperature
        /\ o.pressure = v.pressure /\ o.humidity = v.humidity
    BY <2>2, SourcesAreBytes DEF Observation
  <2>5. row = [source |-> Local, time |-> o.time, temperature |-> o.temperature,
               pressure |-> o.pressure, humidity |-> o.humidity]
    BY DEF Imported, Exported
  <2>6. row = [o EXCEPT !.source = Local]
    BY <2>4, <2>5 DEF Observation
  <2>7. again = DecodeObservation(EncodeObservation(row)) /\ (Importable(o) <=> Encodable(row))
    BY DEF Restored, Importable
  <2> HIDE DEF row, again
  <2>8. /\ row.source = Local /\ row.time = o.time /\ row.temperature = o.temperature
        /\ row.pressure = o.pressure /\ row.humidity = o.humidity
    BY <2>5
  <2>9. /\ row \in Observation /\ row.temperature \in Int /\ row.pressure \in Int
        /\ row.humidity \in Int
    BY <2>4, <2>5, SourcesAreBytes DEF Observation
  <2>10. ASSUME ~IsPrecise(AtomsOf(db.rel[t]))
         PROVE  Importable(o) /\ again = [o EXCEPT !.source = Local]
    <3>1. Rounded(v)
      BY <2>2, <2>3, <2>10
    <3>2. Encodable(row)
      BY <2>4, <2>8, <3>1, SourcesAreBytes DEF Rounded, Encodable
    <3>3. Rounded(row)
      BY <2>4, <2>8, <2>9, <3>1, <3>2 DEF Rounded
    <3>4. again = row
      BY <2>7, <3>3, RoundedRestored
    <3> QED  BY <2>6, <2>7, <3>2, <3>4
  <2>11. ASSUME Importable(o)
         PROVE  /\ again.time = o.time
                /\ Near(again.temperature, o.temperature, 10)
                /\ Near(again.pressure, o.pressure, 100)
                /\ Near(again.humidity, o.humidity, 10)
    <3>1. again = [source |-> row.source, time |-> row.time,
                   temperature |-> 10 * TemperatureUnits(row.temperature),
                   pressure |-> 100 * PressureUnits(row.pressure),
                   humidity |-> 10 * HumidityUnits(row.humidity)]
      BY <2>7, <2>9, <2>11, EncodedDecodes
    <3>2. /\ again.time = row.time /\ again.temperature = 10 * HalfUp(row.temperature, 10)
          /\ again.pressure = 100 * HalfUp(row.pressure, 100)
          /\ again.humidity = 10 * HalfUp(row.humidity, 10)
      BY <3>1 DEF TemperatureUnits, PressureUnits, HumidityUnits
    <3>3. Near(again.temperature, row.temperature, 10)
      BY <2>9, <3>2, HalfUpNear DEF Near
    <3>4. Near(again.pressure, row.pressure, 100)
      BY <2>9, <3>2, HalfUpNear DEF Near
    <3>5. Near(again.humidity, row.humidity, 10)
      BY <2>9, <3>2, HalfUpNear DEF Near
    <3> QED  BY <2>8, <3>2, <3>3, <3>4, <3>5
  <2> QED  BY <2>10, <2>11 DEF o, again
<1> QED  BY <1>1, Inductive, PTL

-----------------------------------------------------------------------------
(* The latest reading *)

(* The Terms before this one in the search for the latest reading. *)
Overhead(t) == {u \in AllRows : Above(db.rel, u, t)}

(* The search has an order: by blobs, and by ids where these are equal. *)
LEMMA RowsOrdered ==
  ASSUME IInv
  PROVE  /\ IsFiniteSet(AllRows)
         /\ \A t \in AllRows : t \in DOMAIN db.rel /\ t \in Nat /\ ~Above(db.rel, t, t)
         /\ \A t, u \in AllRows : t = u \/ Above(db.rel, t, u) \/ Above(db.rel, u, t)
         /\ \A t, u, v \in AllRows :
              Above(db.rel, t, u) /\ Above(db.rel, u, v) => Above(db.rel, t, v)
<1> DEFINE Key(t) == db.rel[t][1]
<1>1. AllRows \subseteq DOMAIN db.rel /\ DOMAIN db.rel = DOMAIN origin
  BY DEF AllRows, Candidates, IInv, Shaped
<1>2. DOMAIN origin = 1..Cardinality(DOMAIN origin) /\ Cardinality(DOMAIN origin) \in Nat
  BY DEF IInv, Grown
<1>3. IsFiniteSet(DOMAIN origin) /\ DOMAIN origin \subseteq Nat
  <2> DEFINE n == Cardinality(DOMAIN origin)
  <2>1. 1 \in Int /\ n \in Int
    BY <1>2
  <2>2. DOMAIN origin = 1..n
    BY <1>2
  <2> HIDE DEF n
  <2>3. IsFiniteSet(1..n)
    BY <2>1, FS_Interval
  <2> QED  BY <2>1, <2>2, <2>3
<1>4. IsFiniteSet(AllRows)
  BY <1>1, <1>3, FS_Subset
<1>5. ASSUME NEW t \in AllRows PROVE t \in Nat /\ t \in DOMAIN db.rel /\ Key(t) \in Blobs
  <2>1. t \in DOMAIN db.rel /\ 1 \in DOMAIN db.rel[t]
    BY DEF AllRows, Candidates
  <2>2. PICK x : x \in Seq(Blobs) /\ db.rel[t] = Relations(x)
    BY <2>1, Stored
  <2>3. /\ DOMAIN Relations(x) = 0..Len(x) - 1
        /\ \A order \in 0..Len(x) - 1 : Relations(x)[order] = x[order + 1]
    BY <2>2, RelationsShape
  <2>4. 1 \in 0..Len(x) - 1
    BY <2>1, <2>2, <2>3
  <2>5. Key(t) = x[2]
    BY <2>2, <2>3, <2>4
  <2>6. x[2] \in Blobs
    BY <2>2, <2>4
  <2> QED  BY <1>1, <1>3, <2>1, <2>5, <2>6
<1> HIDE DEF Key
<1>6. ASSUME NEW t, NEW u
      PROVE  Above(db.rel, t, u) <=> Before(Key(u), Key(t)) \/ (Key(t) = Key(u) /\ t > u)
  BY DEF Above, Key
<1>7. \A t \in AllRows : ~Above(db.rel, t, t)
  <2> SUFFICES ASSUME NEW t \in AllRows PROVE ~Above(db.rel, t, t)
    OBVIOUS
  <2>1. t \in Nat /\ ~Before(Key(t), Key(t))
    BY <1>5, BeforeIrreflexive
  <2>2. ~(t > t)
    BY <2>1
  <2> QED  BY <1>6, <2>1, <2>2
<1>8. \A t, u \in AllRows : t = u \/ Above(db.rel, t, u) \/ Above(db.rel, u, t)
  <2> SUFFICES ASSUME NEW t \in AllRows, NEW u \in AllRows
               PROVE  t = u \/ Above(db.rel, t, u) \/ Above(db.rel, u, t)
    OBVIOUS
  <2>1. t \in Nat /\ u \in Nat /\ Key(t) \in Blobs /\ Key(u) \in Blobs
    BY <1>5
  <2>2. Key(t) = Key(u) \/ Before(Key(t), Key(u)) \/ Before(Key(u), Key(t))
    BY <2>1, BeforeTotal
  <2>3. t = u \/ t > u \/ u > t
    BY <2>1
  <2> QED  BY <1>6, <2>2, <2>3
<1>9. \A t, u, v \in AllRows :
        Above(db.rel, t, u) /\ Above(db.rel, u, v) => Above(db.rel, t, v)
  <2> SUFFICES ASSUME NEW t \in AllRows, NEW u \in AllRows, NEW v \in AllRows,
                      Above(db.rel, t, u), Above(db.rel, u, v)
               PROVE  Above(db.rel, t, v)
    OBVIOUS
  <2>1. /\ t \in Nat /\ u \in Nat /\ v \in Nat
        /\ Key(t) \in Blobs /\ Key(u) \in Blobs /\ Key(v) \in Blobs
    BY <1>5
  <2>2. Before(Key(u), Key(t)) \/ (Key(t) = Key(u) /\ t > u)
    BY <1>6
  <2>3. Before(Key(v), Key(u)) \/ (Key(u) = Key(v) /\ u > v)
    BY <1>6
  <2>4. Before(Key(v), Key(u)) /\ Before(Key(u), Key(t)) => Before(Key(v), Key(t))
    BY <2>1, BeforeTransitive
  <2>5. t > u /\ u > v => t > v
    BY <2>1
  <2> QED  BY <1>6, <2>2, <2>3, <2>4, <2>5
<1> QED  BY <1>4, <1>5, <1>7, <1>8, <1>9

(* The further up, the fewer before it. *)
LEMMA OverheadGrows ==
  ASSUME IInv, NEW t \in AllRows, NEW u \in AllRows, Above(db.rel, u, t)
  PROVE  /\ IsFiniteSet(Overhead(u)) /\ IsFiniteSet(Overhead(t))
         /\ Cardinality(Overhead(u)) \in Nat /\ Cardinality(Overhead(t)) \in Nat
         /\ Cardinality(Overhead(u)) < Cardinality(Overhead(t))
<1>1. IsFiniteSet(AllRows) /\ Overhead(t) \in SUBSET AllRows /\ Overhead(u) \in SUBSET AllRows
  BY RowsOrdered DEF Overhead
<1>2. IsFiniteSet(Overhead(t)) /\ IsFiniteSet(Overhead(u))
  BY <1>1, FS_Subset
<1>3. \A v \in Overhead(u) : v \in Overhead(t)
  BY RowsOrdered DEF Overhead
<1>4. u \in Overhead(t) /\ u \notin Overhead(u)
  BY RowsOrdered DEF Overhead
<1>5. Overhead(u) \in SUBSET Overhead(t) /\ Overhead(u) # Overhead(t)
  BY <1>3, <1>4
<1>6. Cardinality(Overhead(u)) <= Cardinality(Overhead(t))
      /\ (Cardinality(Overhead(u)) = Cardinality(Overhead(t)) => Overhead(u) = Overhead(t))
  BY <1>2, <1>5, FS_Subset
<1>7. Cardinality(Overhead(u)) \in Nat /\ Cardinality(Overhead(t)) \in Nat
  BY <1>2, FS_CardinalityType
<1> QED  BY <1>2, <1>5, <1>6, <1>7

LEMMA OverheadIsNumber ==
  ASSUME IInv, NEW t \in AllRows
  PROVE  IsFiniteSet(Overhead(t)) /\ Cardinality(Overhead(t)) \in Nat
<1>1. IsFiniteSet(AllRows) /\ Overhead(t) \in SUBSET AllRows
  BY RowsOrdered DEF Overhead
<1>2. IsFiniteSet(Overhead(t))
  BY <1>1, FS_Subset
<1> QED  BY <1>2, FS_CardinalityType

LEMMA WindowIs ==
  ASSUME NEW t
  PROVE  InWindow(db.rel, t) <=> t \in AllRows /\ Cardinality(Overhead(t)) < Window
  BY DEF InWindow, AllRows, Overhead

(* The latest reading is the newest observation, and the newest one is found as  *)
(* long as the Terms before it are refused and fewer than the search is wide;    *)
(* all stored times are from 1970 on.                                            *)
THEOREM LatestWins ==
  ASSUME Since1970
  PROVE  Spec => []LatestIsNewest
<1>1. IInv /\ Known => LatestIsNewest
  <2> SUFFICES ASSUME IInv, Known PROVE LatestIsNewest
    OBVIOUS
  <2> DEFINE usable == History(db.rel, Unbounded, Unbounded)
  <2>1. \A t \in usable : /\ t \in AllRows /\ t \in DOMAIN db.rel
                         /\ Decodes(AtomsOf(db.rel[t]))
                         /\ ~Refused(AtomsOf(db.rel[t])) /\ ~Breaks(AtomsOf(db.rel[t]))
    BY RowsOrdered DEF History, AllRows, Decodes
  <2> HIDE DEF usable
  <2>2. ASSUME NEW t \in usable, NEW u \in usable, Above(db.rel, t, u)
        PROVE  ValueOf(u).time <= ValueOf(t).time
    <3> DEFINE old == ValueOf(u).time
               new == ValueOf(t).time
    <3>1. /\ old \in Dates /\ old >= 0 /\ db.rel[u][1] = Pack(old, 8)
          /\ new \in Dates /\ new >= 0 /\ db.rel[t][1] = Pack(new, 8)
      BY <2>1, DecodedInTime
    <3> HIDE DEF old, new
    <3>2. Pack(new, 8) \in Blobs /\ Pack(old, 8) \in Blobs
      BY <3>1, DatesAreNumbers, PackType DEF Blobs
    <3>3. ~Before(Pack(new, 8), Pack(old, 8))
      <4>1. Before(Pack(old, 8), Pack(new, 8)) \/ Pack(new, 8) = Pack(old, 8)
        BY <2>2, <3>1 DEF Above
      <4>2. Before(Pack(old, 8), Pack(new, 8)) /\ Before(Pack(new, 8), Pack(old, 8))
              => Before(Pack(new, 8), Pack(new, 8))
        BY <3>2, BeforeTransitive
      <4>3. ~Before(Pack(new, 8), Pack(new, 8))
        BY <3>2, BeforeIrreflexive
      <4> QED  BY <4>1, <4>2, <4>3
    <3>4. Before(Pack(new, 8), Pack(old, 8)) <=> new < old
      BY <3>1, TimesInOrder
    <3>5. old <= new
      BY <3>1, <3>3, <3>4, DatesAreNumbers
    <3> QED  BY <3>5 DEF old, new
  <2>3. ASSUME NEW t \in usable, IsLatest(db.rel, t), NEW u \in usable
        PROVE  ValueOf(u).time <= ValueOf(t).time
    <3>1. /\ InWindow(db.rel, t)
          /\ \A v \in DOMAIN db.rel :
               InWindow(db.rel, v) /\ ~Refused(AtomsOf(db.rel[v])) =>
                 v = t \/ Above(db.rel, t, v)
      BY <2>3 DEF IsLatest, IsPicked
    <3>2. t \in AllRows /\ u \in AllRows /\ u \in DOMAIN db.rel
      BY <2>1
    <3>3. u = t \/ Above(db.rel, t, u)
      <4>1. CASE InWindow(db.rel, u)
        BY <2>1, <3>1, <3>2, <4>1
      <4>2. CASE ~InWindow(db.rel, u)
        <5>1. Cardinality(Overhead(t)) < Window /\ ~(Cardinality(Overhead(u)) < Window)
          BY <3>1, <3>2, <4>2, WindowIs
        <5>2. ~Above(db.rel, u, t)
          <6> SUFFICES ASSUME Above(db.rel, u, t) PROVE FALSE
            OBVIOUS
          <6>1. /\ Cardinality(Overhead(u)) \in Nat /\ Cardinality(Overhead(t)) \in Nat
                /\ Cardinality(Overhead(u)) < Cardinality(Overhead(t))
            BY <3>2, OverheadGrows
          <6> QED  BY <5>1, <6>1, WindowIsNumber
        <5> QED  BY <3>2, <5>2, RowsOrdered
      <4> QED  BY <4>1, <4>2
    <3>4. CASE u = t
      <4>1. ValueOf(t).time \in Dates
        BY <2>1, DecodedInTime
      <4>2. ValueOf(t).time <= ValueOf(t).time
        <5>1. \A n \in Int : n <= n
          OBVIOUS
        <5> QED  BY <4>1, <5>1, DatesAreNumbers, Zenon
      <4>3. ValueOf(u).time = ValueOf(t).time
        BY <3>4, Zenon
      <4> QED  BY <4>2, <4>3
    <3>5. CASE Above(db.rel, t, u)
      BY <2>2, <3>5
    <3> QED  BY <3>3, <3>4, <3>5
  <2>4. ASSUME NEW t \in usable, \A u \in Overhead(t) : Refused(AtomsOf(db.rel[u])),
               Cardinality(Overhead(t)) < Window
        PROVE  IsLatest(db.rel, t)
    <3>1. InWindow(db.rel, t)
      BY <2>1, <2>4, WindowIs
    <3>2. ASSUME NEW u \in DOMAIN db.rel, InWindow(db.rel, u), ~Refused(AtomsOf(db.rel[u]))
          PROVE  u = t \/ Above(db.rel, t, u)
      <4>1. u \in AllRows /\ t \in AllRows
        BY <2>1, <3>2, WindowIs
      <4>2. ~Above(db.rel, u, t)
        BY <2>4, <3>2, <4>1 DEF Overhead
      <4> QED  BY <4>1, <4>2, RowsOrdered
    <3> QED  BY <2>1, <3>1, <3>2 DEF IsLatest, IsPicked
  <2> QED  BY <2>3, <2>4 DEF LatestIsNewest, usable, Overhead
<1> QED  BY <1>1, Inductive, OnlyKnown, PTL
===============================================================================
