-------------------------------- MODULE Codecs --------------------------------
(* Observations as ordered blobs: measurements/semantic.py and the air-quality *)
(* assessments of measurements/air_quality.py.                                 *)
(*                                                                             *)
(* A blob is a sequence of bytes.  A byte has Base values (256 in the code):   *)
(* widths and positions are the code's own, the ranges they give are smaller.  *)
(* Measurements are integers in hundredths of their unit, times in             *)
(* microseconds since 1970.                                                    *)
EXTENDS Integers, Sequences, FiniteSets

CONSTANTS
  Base,         \* values of a byte
  MaxHumidity,  \* 100 % in tenths: the largest humidity that is encoded
  MaxPercent,   \* the largest air-quality percentage
  MaxSource,    \* bytes of the longest source identifier
  Dates         \* the microseconds that a datetime can hold

ASSUME BaseIsEven == Base \in Nat /\ Base > 1 /\ Base % 2 = 0

Byte == 0..Base - 1
Power[n \in Nat] == IF n = 0 THEN 1 ELSE Base * Power[n - 1]
SignedRange(width) == -(Power[width] \div 2)..(Power[width] \div 2) - 1

ASSUME DatesFit == Dates \subseteq SignedRange(8)
ASSUME PercentFits == MaxPercent \in Nat /\ MaxPercent < Base
ASSUME HumidityFits == MaxHumidity \in Nat /\ MaxHumidity < Power[2]

(* struct.pack and struct.unpack with ">".  A negative number is packed as its *)
(* two's complement.                                                           *)
Pack(number, width) == [i \in 1..width |-> (number \div Power[width - i]) % Base]

Unsigned(blob) ==
  LET value[i \in 0..Len(blob)] == IF i = 0 THEN 0 ELSE Base * value[i - 1] + blob[i]
  IN  value[Len(blob)]

Signed(blob) ==
  IF blob[1] < Base \div 2 THEN Unsigned(blob) ELSE Unsigned(blob) - Power[Len(blob)]

(* Decimal.quantize with ROUND_HALF_UP, and C's round(): ties go away from zero. *)
HalfUp(number, unit) ==
  IF number >= 0 THEN (2 * number + unit) \div (2 * unit)
                 ELSE -((unit - 2 * number) \div (2 * unit))

(* A source identifier is its UTF-8 encoding; one that does not decode is told *)
(* from those that do by its first byte.                                       *)
IsUtf8(blob) == blob = <<>> \/ blob[1] < Base \div 2

-----------------------------------------------------------------------------
(* A Term is a function from the orders of its relations to blobs. *)

Relations(atoms) == [order \in 0..Len(atoms) - 1 |-> atoms[order + 1]]

(* order_by("order"). *)
OrdersOf(term) ==
  [i \in 1..Cardinality(DOMAIN term) |->
     CHOOSE o \in DOMAIN term : Cardinality({p \in DOMAIN term : p < o}) = i - 1]
AtomsOf(term) == [i \in DOMAIN OrdersOf(term) |-> term[OrdersOf(term)[i]]]

-----------------------------------------------------------------------------
(* Environmental observations: source, time, temperature, pressure, humidity. *)

Observation ==
  [source : Seq(Byte), time : Dates, temperature : Int, pressure : Int, humidity : Int]

TemperatureUnits(hundredths) == HalfUp(hundredths, 10)
PressureUnits(hundredths) == HalfUp(hundredths, 100)
HumidityUnits(hundredths) == HalfUp(hundredths, 10)

Encodable(o) ==
  /\ Len(o.source) \in 1..MaxSource
  /\ TemperatureUnits(o.temperature) \in SignedRange(2)
  /\ PressureUnits(o.pressure) \in 0..Power[2] - 1
  /\ HumidityUnits(o.humidity) \in 0..MaxHumidity

(* In whole units of the compact profile. *)
Rounded(o) ==
  /\ o \in Observation /\ Encodable(o)
  /\ o.temperature % 10 = 0 /\ o.pressure % 100 = 0 /\ o.humidity % 10 = 0

(* Mutated EncodeObservation: pressure and humidity change places. *)
EncodeSwapped(o) ==
  <<o.source, Pack(o.time, 8), Pack(TemperatureUnits(o.temperature), 2),
    Pack(HumidityUnits(o.humidity), 2), Pack(PressureUnits(o.pressure), 2)>>

EncodeObservation(o) ==
  <<o.source, Pack(o.time, 8), Pack(TemperatureUnits(o.temperature), 2),
    Pack(PressureUnits(o.pressure), 2), Pack(HumidityUnits(o.humidity), 2)>>

(* The decoder raises ValueError, which every reader skips. *)
Refused(atoms) ==
  \/ Len(atoms) # 5
  \/ ~IsUtf8(atoms[1])
  \/ Len(atoms[2]) # 8 \/ Len(atoms[3]) # 2 \/ Len(atoms[5]) # 2

(* It raises struct.error or OverflowError, which no reader expects. *)
Breaks(atoms) ==
  /\ ~Refused(atoms)
  /\ Len(atoms[4]) \notin {2, 4} \/ Signed(atoms[2]) \notin Dates

Decodes(atoms) == ~Refused(atoms) /\ ~Breaks(atoms)

IsPrecise(atoms) == Len(atoms[4]) = 4

(* Mutated DecodeObservation: the precise profile is read as the compact one. *)
DecodeCompact(atoms) ==
  [source |-> atoms[1], time |-> Signed(atoms[2]),
   temperature |-> 10 * Signed(atoms[3]), pressure |-> 100 * Unsigned(atoms[4]),
   humidity |-> 10 * Unsigned(atoms[5])]

(* A pressure of four bytes marks the profile that counted in hundredths. *)
DecodeObservation(atoms) ==
  LET tenth == IF IsPrecise(atoms) THEN 1 ELSE 10
      whole == IF IsPrecise(atoms) THEN 1 ELSE 100
  IN  [source |-> atoms[1], time |-> Signed(atoms[2]),
       temperature |-> tenth * Signed(atoms[3]),
       pressure |-> whole * Unsigned(atoms[4]),
       humidity |-> tenth * Unsigned(atoms[5])]

-----------------------------------------------------------------------------
(* Air quality: time and percentage. *)

EncodeAirQuality(time, percentage) == <<Pack(time, 8), Pack(percentage, 1)>>

IsAirQuality(atoms) == Len(atoms) = 2 /\ Len(atoms[1]) = 8 /\ Len(atoms[2]) = 1

DecodeAirQuality(atoms) == [time |-> Signed(atoms[1]), percentage |-> Unsigned(atoms[2])]
=============================================================================
