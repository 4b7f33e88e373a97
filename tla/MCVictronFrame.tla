--------------------------- MODULE MCVictronFrame ---------------------------
(* VictronFrame for TLC: the ends of every field in all combinations, and  *)
(* every voltage that is not plausible, with two above 100 V of which the  *)
(* fallback takes the second.                                              *)
EXTENDS VictronFrame

Sample(s, e, v, a, y, l) == [state |-> s, error |-> e, volts |-> v, amps |-> a,
                             yield |-> y, solar |-> y, load |-> l]
MCReports ==
  {Sample(5, e, v, a, y, l) : e \in {0, 255}, v \in {500, 1312, 10000, NaN},
                              a \in {-300, 0, NaN}, y \in {258, NaN}, l \in {0, 256, NaN}}
  \union {Sample(3, 0, v, 15, 258, 20) : v \in 0..499 \union {10001, 10240}}
=============================================================================
