------------------------------- MODULE MCReadings -------------------------------
(* Bytes of four values; databases of one to three Terms, of old and present    *)
(* observations among assessments and Terms of other shapes.                    *)
EXTENDS Readings

MCLocal == <<1, 1, 1>>
MCMarker == <<1, 2, 1, 2>>
Pico == <<1, 3>>
NotUtf8 == <<3, 0>>
MCDates == -10..1000
MCBounds == {-3, 5, 6, 8, Unbounded}

Is(kind, value) == [kind |-> kind, value |-> value]
Observed(source, time) ==
  [source |-> source, time |-> time, temperature |-> -30, pressure |-> 500, humidity |-> 10]

Compact(time) == Is("compact", Observed(MCLocal, time))
PreciseAt(time) ==
  Is("precise", [source |-> MCLocal, time |-> time,
                 temperature |-> -7, pressure |-> 203, humidity |-> 9])
Saturated(time) ==
  Is("precise", [source |-> MCLocal, time |-> time,
                 temperature |-> -7, pressure |-> 203, humidity |-> 15])
Marked(time) == Is("marked", Observed(MCLocal, time))
Environment(source, time) == Is("environment", Observed(source, time))
Assessment(time, percentage) ==
  Is("air_quality", [time |-> time, percentage |-> percentage])
Other(atoms) == Is("other", atoms)

Alone == Other(<<Pack(5, 8)>>)
Pressureless == Other(<<Pack(6, 8), <<1, 1>>, <<2>>, <<1, 2>>>>)
Labelled(blob) == Other(<<blob, Pack(6, 8), <<0, 2>>, <<1, 2>>>>)
Sourceless == Other(EncodeObservation(Observed(NotUtf8, 9)))
Malformed == Other(<<Pico, Pack(9, 8), <<1, 1>>, <<1, 1, 1>>, <<1, 2>>>>)

MCFoundings ==
  {<<Compact(5), PreciseAt(6), Compact(8)>>,
   <<Assessment(5, 2), Alone, Saturated(5)>>,
   <<Pressureless, Compact(7), Sourceless>>,
   <<Environment(MCLocal, 6), Environment(Pico, 6), Compact(5)>>,
   <<Labelled(<<1, 1>>), Labelled(<<1, 3>>), PreciseAt(8)>>,
   <<Malformed, Compact(6)>>}
MCAdditions ==
  {Compact(7), Marked(7), Environment(MCLocal, 4), Assessment(9, 0)}

ASSUME Since1970

TwoSources == {<<Environment(MCLocal, 6), Environment(Pico, 6)>>}
Nothing == {}
OneReading == {<<Environment(MCLocal, 8)>>}
OnlyMalformed == {Malformed}
=============================================================================
