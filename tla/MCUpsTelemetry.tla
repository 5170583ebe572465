---------------------------- MODULE MCUpsTelemetry ----------------------------
(***************************************************************************)
(* Three sessions: the measurements, any two replies in a row; the ratings *)
(* and the load; and the replies the status is made of, in every order of  *)
(* three.                                                                  *)
(***************************************************************************)
EXTENDS UpsTelemetry

\* Around the limits of the parsers and of the conversions.
Measuring ==
  [commands |-> DOMAIN Lut \ {"x51", "x39", "x9FD1"},
   amounts  |-> {-32769, -32768, -27320, -27310, -1, 0, 9, 49, 50, 2749, 10009, 10010,
                 23050, 65535, 65536, 109300},
   flags    |-> {},
   replies  |-> 2]

Rating ==
  [commands |-> {"x9FD1", "x5C"},
   amounts  |-> {-100, -1, 0, 9949, 10000, 65535, 65536, 220000, 6553599, 6553600},
   flags    |-> {},
   replies  |-> 2]

Reporting ==
  [commands |-> {"x51", "x39", "x66", "x9FD4"},
   amounts  |-> {-5, 0, 5, 100, 1099, 1100, 10000},
   flags    |-> SUBSET {"on_line", "on_battery", "overload", "low", "replace"},
   replies  |-> 3]

MCSessions == {Measuring, Rating, Reporting}
==============================================================================
