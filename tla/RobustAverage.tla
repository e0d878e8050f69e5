----------------------------- MODULE RobustAverage -----------------------------
(* One observation from several samples of the sensor: collect_average and      *)
(* average_without_outliers of measurements/bme690_sensor.py, and the two       *)
(* commands that record the result.                                             *)
(*                                                                              *)
(* A sample is a function from fields to integers, in hundredths of the field's *)
(* unit.  Halves and quotients are avoided by comparing multiples.  An average  *)
(* is a sum, a count and a drift: by how much the float that the code computes  *)
(* misses the exact mean.  Deviations are compared with the threshold exactly.  *)
EXTENDS Codecs, Functions

CONSTANTS
  Samples,      \* what the sensor may deliver
  Counts,       \* numbers of samples to ask for, at least five
  Threshold,    \* outlier_threshold in ten-thousandths
  Steps,        \* a millionth of a unit, in the steps in which drift is counted
  Drift         \* how many of them a mean in binary floats may be off

VARIABLES
  pc,         \* where the collection is
  count,      \* samples asked for
  readings,   \* delivered so far
  average,    \* of the samples that were kept: [sum, count, drift]
  stored      \* units written to the substrate, or None

vars == <<pc, count, readings, average, stored>>

Fields == {"temperature", "pressure", "humidity"}
None == <<>>

ASSUME SamplesAreNumbers == Samples \subseteq [Fields -> Int]
ASSUME CountsSuffice == Counts \subseteq Nat /\ \A n \in Counts : n >= 5
ASSUME ThresholdIsPositive == Threshold \in Nat \ {0}
ASSUME FloatsAreFine == Steps \in Nat /\ Drift \in Nat /\ 2 * Drift < Steps

(* The constant 0.6745, and the six decimals of "{:.6f}" per hundredth. *)
Scale == 6745
Micro == 10000

-----------------------------------------------------------------------------
Column(field) == [i \in DOMAIN readings |-> readings[i][field]]
Absolute(x) == IF x < 0 THEN -x ELSE x

(* The k-th smallest of the values. *)
Kth(values, k) ==
  CHOOSE v \in Range(values) :
    /\ Cardinality({i \in DOMAIN values : values[i] < v}) < k
    /\ Cardinality({i \in DOMAIN values : values[i] <= v}) >= k

(* statistics.median, twice. *)
TwiceMedian(values) ==
  LET n == Len(values) IN Kth(values, (n + 1) \div 2) + Kth(values, n \div 2 + 1)

(* _median_absolute_deviation: deviations counted twice, so their median is   *)
(* four times the one of the code.                                             *)
TwiceDeviations(field) ==
  LET centre == TwiceMedian(Column(field))
  IN  [i \in DOMAIN readings |-> Absolute(2 * readings[i][field] - centre)]
FourMad(field) == TwiceMedian(TwiceDeviations(field))

(* The samples one field rejects: none when the median deviation is zero. *)
Outliers(field) ==
  LET deviations == TwiceDeviations(field)
      mad == TwiceMedian(deviations)
  IN  {i \in DOMAIN readings : mad # 0 /\ 2 * Scale * deviations[i] > Threshold * mad}

(* Mutated Retained: only the temperature is looked at. *)
RetainedByTemperature == DOMAIN readings \ Outliers("temperature")

Retained == DOMAIN readings \ UNION {Outliers(field) : field \in Fields}

(* sum(...) / len(...) in floats: the drift depends on the order and the sizes   *)
(* of the samples, and is anything within its bound.                            *)
AveragesOf(kept) ==
  [sum : {[field \in Fields |-> FoldFunctionOnSet(+, 0, Column(field), kept)]},
   count : {Cardinality(kept)},
   drift : [Fields -> -Drift..Drift]]

-----------------------------------------------------------------------------
(* What the commands make of an average: a number of units per field.           *)

UnitOf == [temperature |-> 10, pressure |-> 100, humidity |-> 10]

(* The float times a.count, in steps. *)
InSteps(a, field) == Micro * Steps * a.sum[field] + a.count * a.drift[field]

(* encode_temperature and the others quantize Decimal(str(value)): the float is  *)
(* rounded as it is, drift included.                                             *)
DjangoUnits(a) ==
  [field \in Fields |-> HalfUp(InSteps(a, field), UnitOf[field] * Micro * Steps * a.count)]

(* Mutated NativeUnits: floor(x + 0.5). *)
NativeUnitsByFloor(a) ==
  [field \in Fields |->
     LET unit == UnitOf[field] * Micro
     IN  (2 * HalfUp(InSteps(a, field), Steps * a.count) + unit) \div (2 * unit)]

(* native/record_sensor.py prints six decimals, the recorder rounds those: a    *)
(* printed tie times 10.0 is a tie again.  (printf breaks a tie of the seventh   *)
(* decimal to even; none is next to a tie of the units.)                        *)
NativeUnits(a) ==
  [field \in Fields |->
     HalfUp(HalfUp(InSteps(a, field), Steps * a.count), UnitOf[field] * Micro)]

(* Both encoders check the ranges. *)
Accepted(units) ==
  /\ units.temperature \in SignedRange(2)
  /\ units.pressure \in 0..Power[2] - 1
  /\ units.humidity \in 0..MaxHumidity

-----------------------------------------------------------------------------
Init ==
  /\ pc = "idle" /\ count = 0 /\ readings = <<>> /\ average = None /\ stored = None

(* The timer fires, or somebody types the command. *)
Start ==
  /\ pc = "idle"
  /\ pc' = "reading"
  /\ count' \in Counts
  /\ UNCHANGED <<readings, average, stored>>

(* Mutated Read: one sample too many. *)
ReadOneMore ==
  /\ pc = "reading"
  /\ Len(readings) <= count
  /\ \E sample \in Samples : readings' = Append(readings, sample)
  /\ UNCHANGED <<pc, count, average, stored>>

Read ==
  /\ pc = "reading"
  /\ Len(readings) < count
  /\ \E sample \in Samples : readings' = Append(readings, sample)
  /\ UNCHANGED <<pc, count, average, stored>>

(* get_sensor_data finds no new data: TimeoutError, and no observation. *)
NoReading ==
  /\ pc = "reading"
  /\ Len(readings) < count
  /\ pc' = "failed"
  /\ UNCHANGED <<count, readings, average, stored>>

(* Mutated Average: more than three samples have to remain. *)
AverageOfFour ==
  /\ pc = "reading"
  /\ Len(readings) = count
  /\ IF Cardinality(Retained) <= 3
     THEN pc' = "starved" /\ UNCHANGED average
     ELSE pc' = "averaged" /\ average' \in AveragesOf(Retained)
  /\ UNCHANGED <<count, readings, stored>>

(* RuntimeError when fewer than three samples remain. *)
Average ==
  /\ pc = "reading"
  /\ Len(readings) = count
  /\ IF Cardinality(Retained) < 3
     THEN pc' = "starved" /\ UNCHANGED average
     ELSE pc' = "averaged" /\ average' \in AveragesOf(Retained)
  /\ UNCHANGED <<count, readings, stored>>

(* Either command records; the other fields of the Term are not affected. *)
Store(units) ==
  /\ pc = "averaged"
  /\ IF Accepted(units) THEN pc' = "recorded" /\ stored' = units
                        ELSE pc' = "failed" /\ UNCHANGED stored
  /\ UNCHANGED <<count, readings, average>>

Record == Store(DjangoUnits(average))
RecordNatively == Store(NativeUnits(average))

(* The process ends; the timer will start another. *)
End ==
  /\ pc \in {"failed", "starved", "recorded"}
  /\ pc' = "idle" /\ count' = 0 /\ readings' = <<>> /\ average' = None /\ stored' = None

Next == Start \/ Read \/ NoReading \/ Average \/ Record \/ RecordNatively \/ End

Spec == Init /\ [][Next]_vars

-----------------------------------------------------------------------------
(* Every variable has the shape the code gives it.                              *)
AverageTypeOK ==
  /\ pc \in {"idle", "reading", "averaged", "starved", "failed", "recorded"}
  /\ count \in {0} \cup Counts
  /\ readings \in Seq(Samples) /\ Len(readings) <= count
  /\ pc = "averaged" \/ average # None =>
       average \in [sum : [Fields -> Int], count : 3..count, drift : [Fields -> -Drift..Drift]]
  /\ stored # None => pc = "recorded" /\ Accepted(stored)

(* One noisy field never costs an observation: only when samples deviate in two  *)
(* fields or more can fewer than three remain.                                   *)
OneNoisyFieldNeverStarves ==
  pc = "starved" /\ Threshold > Scale =>
    Cardinality({field \in Fields : Outliers(field) # {}}) > 1

(* Less than half of the samples cannot distort a field that is not flat: the    *)
(* exact mean lies within what the others span, give or take Threshold / 0.6745  *)
(* times that span; the float is at most Drift steps off it.  (A field is flat   *)
(* when its median absolute deviation is zero; bme690_sensor.py:62-68 then keeps *)
(* a sample however far it is off.)                                              *)
MinorityCannotDistort ==
  pc = "averaged" =>
    \A field \in {f \in Fields : FourMad(f) # 0} :
      \A others \in SUBSET DOMAIN readings :
        2 * Cardinality(others) > count =>
          LET values == {readings[i][field] : i \in others}
              low == CHOOSE v \in values : \A w \in values : v <= w
              high == CHOOSE v \in values : \A w \in values : v >= w
              slack == Threshold * (high - low) * average.count
              sum == average.sum[field]
          IN  /\ Scale * (sum - high * average.count) <= slack
              /\ Scale * (low * average.count - sum) <= slack

(* The mean lies halfway between two units. *)
IsTie(sum, unit) == (2 * Absolute(sum) + unit) % (2 * unit) = 0

(* The native path, though it rounds twice, stores the exact mean, rounded half  *)
(* away from zero.  The Django command stores the same, or the neighbour nearer  *)
(* to zero if the mean is a tie that the float falls short of: 22.34, 22.35 and  *)
(* 22.36 are 223 tenths for the one and 224 for the other.                       *)
PathsDifferOnlyOnTies ==
  pc = "averaged" =>
    \A field \in Fields :
      LET unit == UnitOf[field] * average.count
          exact == HalfUp(average.sum[field], unit)
          django == DjangoUnits(average)[field]
      IN  /\ NativeUnits(average)[field] = exact
          /\ \/ django = exact
             \/ IsTie(average.sum[field], unit) /\ Absolute(django) = Absolute(exact) - 1
=============================================================================
