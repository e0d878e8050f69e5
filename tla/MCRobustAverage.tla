---------------------------- MODULE MCRobustAverage ----------------------------
(* A value that most samples share, one next to it, and a spike, in combinations *)
(* of the three fields; ties of every rounding are among the averages.           *)
EXTENDS RobustAverage

Sample(t, p, h) == [temperature |-> t - 5, pressure |-> p + 150, humidity |-> h + 96]

MCSamples ==
  {Sample(0, 60, 0), Sample(1, 0, 0), Sample(60, 0, 0), Sample(60, 1, 0),
   Sample(0, 0, 0), Sample(1, 0, 60)}
MCDates == 0..1
=============================================================================
