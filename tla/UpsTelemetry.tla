----------------------------- MODULE UpsTelemetry -----------------------------
(***************************************************************************)
(* From the UPS's replies to the values a manager gets: the parsers of     *)
(* spm2k.c assign the telemetry globals (ups_data.h), from which           *)
(* snmp_get_value_by_index() of snmp_agent.c computes an answer.           *)
(*                                                                         *)
(* The parsers run in the main task.  The SNMP task has the higher         *)
(* priority: it can run between any two assignments of a parser and sees   *)
(* the fields as they then are, but a parser never runs while it computes  *)
(* an answer.  An action therefore performs one assignment, and what a     *)
(* manager can be told in a state is a function of that state.             *)
(*                                                                         *)
(* The UPS is external: it says an amount, in hundredths of its unit, or   *)
(* flags.  What it said last is kept as a history.                         *)
(***************************************************************************)
EXTENDS Spm2k, OidTable, FiniteSets

CONSTANT
  Sessions      \* what a UPS may say: the commands it answers, the amounts and the
                \* sets of flags it knows, and the bound on its replies

VARIABLES
  session,    \* one of Sessions
  g,          \* the telemetry fields
  todo,       \* the assignments the running parser has yet to make
  before,     \* history: the fields when it began
  said,       \* history: for each field, the last amount said
  raised,     \* history: the flags last raised
  mains,      \* history: the last word on whether the mains are present
  drawn,      \* history: the last word on whether the battery is discharged
  replies     \* their number

vars == <<session, g, todo, before, said, raised, mains, drawn, replies>>

----------------------------------------------------------------------------
(* The request tables: the parser of a command and the field it is given.  *)

Item(fn, out) == [fn |-> fn, out |-> out]

Lut ==
  [x9FD1 |-> Item("rated_info", "none"),
   x78   |-> Item("manufacturer_date", "manufacturer_date"),
   x6C   |-> Item("voltage", "low_voltage_transfer"),
   x75   |-> Item("voltage", "high_voltage_transfer"),
   x42   |-> Item("voltage", "battery_voltage"),
   x9FD4 |-> Item("bat_current", "battery_current"),
   x6A   |-> Item("runtime", "run_time_to_empty_s"),
   x43   |-> Item("temperature", "temperature"),
   x66   |-> Item("remaining_capacity", "remaining_capacity"),
   x39   |-> Item("ac_present", "ac_present"),
   x51   |-> Item("status_flags", "none"),
   x4C   |-> Item("voltage", "input_voltage"),
   x9FD3 |-> Item("frequency", "input_frequency"),
   x5C   |-> Item("percent_load", "percent_load"),
   x4F   |-> Item("voltage", "output_voltage"),
   x2F   |-> Item("ac_current", "output_current"),
   x46   |-> Item("frequency", "output_frequency")]

Writes(cmd, reply) ==
  LET out == Lut[cmd].out
      fn  == Lut[cmd].fn
  IN  CASE fn \in {"voltage", "frequency"} -> Unsigned(out, reply)
        [] fn = "ac_current"         -> AcCurrent(out, reply)
        [] fn = "bat_current"        -> BatCurrent(out, reply)
        [] fn = "percent_load"       -> PercentLoad(out, reply)
        [] fn = "runtime"            -> Runtime(out, reply)
        [] fn = "temperature"        -> Temperature(out, reply)
        [] fn = "remaining_capacity" -> Capacity(out, reply)
        [] fn = "manufacturer_date"  -> Date(out, reply)
        [] fn = "rated_info"         -> RatedInfo(reply)
        [] fn = "status_flags"       -> StatusFlags(reply, g.remaining_capacity)
        [] fn = "ac_present"         -> AcPresent(out, reply)

Words == {"battery_voltage", "battery_config_voltage", "run_time_to_empty_s",
          "remaining_time_limit_s", "temperature", "manufacturer_date",
          "input_voltage", "input_frequency", "input_config_voltage",
          "low_voltage_transfer", "high_voltage_transfer", "config_active_power",
          "output_config_voltage", "output_voltage", "output_frequency"}
Shorts == {"battery_current", "output_current"}
Bytes == {"remaining_capacity", "percent_load"}
Flags == {"ac_present", "charging", "discharging", "fully_charged",
          "need_replacement", "below_remaining_capacity_limit",
          "battery_present", "overload", "shutdown_imminent"}

Numbers == Words \union Shorts \union Bytes

\* The engine is asked for the commands of the tables only.
ASSUME SessionsAssumption ==
  \A s \in Sessions : s.commands \subseteq DOMAIN Lut /\ s.amounts \subseteq Int

RemainingCapacityLimit == 10   \* g_power_summary.remaining_capacity_limit

----------------------------------------------------------------------------
(* snmp_get_value_by_index()                                               *)

\* Division in C, towards zero.
CDiv(a, b) == IF a < 0 THEN -((-a) \div b) ELSE a \div b

Rounded(v) == (v + 50) \div 100

\* What upsBatteryStatus would be with < for <=.
BatteryStatusBelow(v) ==
  IF v.remaining_capacity = 0 \/ v.shutdown_imminent \/ v.need_replacement THEN 4
  ELSE IF \/ v.below_remaining_capacity_limit
          \/ v.remaining_capacity < RemainingCapacityLimit THEN 3
  ELSE 2

BatteryStatus(v) ==
  IF v.remaining_capacity = 0 \/ v.shutdown_imminent \/ v.need_replacement THEN 4
  ELSE IF \/ v.below_remaining_capacity_limit
          \/ v.remaining_capacity <= RemainingCapacityLimit THEN 3
  ELSE 2

OutputSource(v) ==
  IF v.ac_present THEN 3 ELSE IF v.discharging THEN 5 ELSE 6

\* The values of the 32 objects, in the order of k_oid_table.
Values(v) ==
  <<"ESP32 UPS bridge", "esp32-ups", "APC", "SPM2K", "N/A", "esp32-ups-snmp",
    "ESP32-UPS", "line1",
    BatteryStatus(v),
    IF v.ac_present THEN 0 ELSE v.run_time_to_empty_s,
    v.run_time_to_empty_s \div 60,
    v.remaining_capacity,
    v.battery_voltage \div 10,
    CDiv(v.battery_current, 10),
    IF v.temperature >= 2731 THEN (v.temperature - 2731) \div 10 ELSE 0,
    0,
    1,
    v.input_frequency \div 10,
    Rounded(v.input_voltage),
    OutputSource(v),
    v.output_frequency \div 10,
    1,
    Rounded(v.output_voltage),
    CDiv(v.output_current, 10),
    (v.config_active_power * v.percent_load) \div 100,
    v.percent_load,
    Rounded(v.input_config_voltage),
    Rounded(v.output_config_voltage),
    v.config_active_power,
    v.remaining_time_limit_s \div 60,
    Rounded(v.low_voltage_transfer),
    Rounded(v.high_voltage_transfer)>>

\* The answer to a GET of oid.
Agent == INSTANCE SnmpOid WITH Table <- k_oid_table
Served(oid) == Values(g)[Agent!LookupExact(oid)]

----------------------------------------------------------------------------
(* The UPS.                                                                *)

Abs(a) == IF a < 0 THEN -a ELSE a

\* The text that says an amount.
Says(amount) ==
  [neg |-> amount < 0, whole |-> Abs(amount) \div 100,
   frac |-> <<(Abs(amount) \div 10) % 10, Abs(amount) % 10>>, clean |-> TRUE]

\* Whether the field can hold the amount: a reply that says more is refused.  The
\* sign of what is cut off to nothing does not count.
Holds(field, amount) ==
  CASE field \in Shorts -> amount \in S16Min .. S16Max
    [] field = "percent_load" -> amount >= 0 /\ amount <= 10000
    [] field = "remaining_capacity" -> amount > -10 /\ amount < 10010
    [] field = "temperature" -> amount > -27320 /\ amount < 50010
    [] field = "run_time_to_empty_s" ->
         amount > -100 /\ amount \div 100 <= Int32Max \div 60
    [] field = "config_active_power" ->
         amount > -100 /\ amount \div 100 <= U16Max
    [] OTHER -> amount \in 0 .. U16Max

Init ==
  /\ session \in Sessions
  /\ g = [f \in Numbers \union Flags |->
            IF f \in Flags THEN FALSE ELSE 0]
  /\ todo = <<>>
  /\ before = g
  /\ said = [f \in Numbers |-> 0]
  /\ raised = {}
  /\ mains = FALSE
  /\ drawn = FALSE
  /\ replies = 0

\* A callback of uart_engine_step() begins, with what it makes of the reply.
Callback(cmd, reply) ==
  /\ todo = <<>>
  /\ replies < session.replies
  /\ todo' = Writes(cmd, reply)
  /\ before' = g
  /\ replies' = replies + 1
  /\ UNCHANGED <<session, g>>

SaysAmount(cmd) ==
  /\ Lut[cmd].out \in Numbers \ {"manufacturer_date"}
  /\ \E amount \in session.amounts :
       LET heard == Holds(Lut[cmd].out, amount)
       IN  /\ Callback(cmd, Says(amount))
           /\ said' = IF heard THEN [said EXCEPT ![Lut[cmd].out] = amount] ELSE said
           /\ drawn' = IF heard /\ Lut[cmd].fn = "bat_current" /\ amount # 0
                       THEN amount < 0 ELSE drawn
  /\ UNCHANGED <<raised, mains>>

SaysRubbish(cmd) ==
  /\ Lut[cmd].fn # "rated_info"
  /\ Callback(cmd, Garbage)
  /\ UNCHANGED <<said, raised, mains, drawn>>

\* The ratings, one field of the list possibly unreadable, or the list cut off.
SaysRatings(cmd) ==
  /\ Lut[cmd].fn = "rated_info"
  /\ \E power, volts \in session.amounts, broken \in 0 .. 6, length \in 5 .. 6 :
       LET csv == [i \in 1 .. length |->
                     IF i = broken THEN Garbage
                     ELSE IF i = 1 THEN Says(power) ELSE Says(volts)]
           heard == /\ length = 6 /\ broken \in {0, 4, 5}
                    /\ Holds("config_active_power", power)
                    /\ Holds("input_config_voltage", volts)
       IN  /\ Callback(cmd, csv)
           /\ said' = IF heard
                      THEN [said EXCEPT !["config_active_power"] = power,
                                        !["input_config_voltage"] = volts,
                                        !["output_config_voltage"] = volts,
                                        !["battery_config_voltage"] = volts]
                      ELSE said
  /\ UNCHANGED <<raised, mains, drawn>>

SaysDate(cmd) ==
  /\ Lut[cmd].fn = "manufacturer_date"
  /\ \E year \in {0, 99}, month \in {0, 1, 12, 13}, day \in {0, 1, 31, 32} :
       Callback(cmd, [year |-> year, month |-> month, day |-> day, clean |-> TRUE])
  /\ UNCHANGED <<said, raised, mains, drawn>>

SaysFlags(cmd) ==
  /\ Lut[cmd].fn = "status_flags"
  /\ \E flags \in session.flags :
       /\ Callback(cmd, [clean |-> TRUE, flags |-> flags])
       /\ raised' = flags
       /\ mains' = ("on_line" \in flags /\ "on_battery" \notin flags)
       /\ drawn' = ("on_battery" \in flags)
  /\ UNCHANGED said

SaysMains(cmd) ==
  /\ Lut[cmd].fn = "ac_present"
  /\ \E present \in BOOLEAN :
       /\ Callback(cmd, [clean |-> TRUE, present |-> present])
       /\ mains' = present
  /\ UNCHANGED <<said, raised, drawn>>

\* The parser makes one more assignment.
AssignNext ==
  /\ todo # <<>>
  /\ g' = [g EXCEPT ![Head(todo)[1]] = Head(todo)[2]]
  /\ todo' = Tail(todo)
  /\ UNCHANGED <<session, before, said, raised, mains, drawn, replies>>

Reply(cmd) == \/ SaysAmount(cmd) \/ SaysRubbish(cmd) \/ SaysRatings(cmd)
              \/ SaysDate(cmd) \/ SaysFlags(cmd) \/ SaysMains(cmd)

Next == AssignNext \/ \E cmd \in session.commands : Reply(cmd)

Spec == Init /\ [][Next]_vars

----------------------------------------------------------------------------
\* What a field can hold: the casts of the parsers lose nothing.
FitsField(field, value) ==
  CASE field \in Words  -> value \in 0 .. U16Max
    [] field \in Shorts -> value \in S16Min .. S16Max
    [] field \in Bytes  -> value \in 0 .. 255
    [] field \in Flags  -> value \in BOOLEAN
    [] OTHER -> FALSE

TypeOK ==
  /\ DOMAIN g = Numbers \union Flags
  /\ \A f \in DOMAIN g : FitsField(f, g[f])
  /\ \A i \in 1 .. Len(todo) : FitsField(todo[i][1], todo[i][2])

\* The fields once the running parser is through.
After ==
  [f \in DOMAIN g |->
     IF \E i \in 1 .. Len(todo) : todo[i][1] = f
     THEN todo[CHOOSE i \in 1 .. Len(todo) : todo[i][1] = f][2] ELSE g[f]]

AtRest == todo = <<>>

\* A measurement a manager gets by its OID is the last one the UPS gave, in the
\* object's unit and off by less than one unit, whatever became of it on the way:
\* hundredths, tenths of a kelvin, seconds and back.
Unit == [x42 |-> <<Scalar(2, 5), 10>>,  x9FD4 |-> <<Scalar(2, 6), 10>>,
         x66 |-> <<Scalar(2, 4), 100>>, x5C |-> <<Line(4, 4, 5), 100>>,
         x4C |-> <<Line(3, 3, 3), 100>>, x9FD3 |-> <<Line(3, 3, 2), 10>>,
         x4F |-> <<Line(4, 4, 2), 100>>, x46 |-> <<Scalar(4, 2), 10>>,
         x2F |-> <<Line(4, 4, 3), 10>>, x6C |-> <<Scalar(9, 9), 100>>,
         x75 |-> <<Scalar(9, 10), 100>>]

Near(oid, amount, unit) == Abs(Served(oid) * unit - amount) < unit

MeasuresTrue ==
  AtRest =>
    /\ \A cmd \in DOMAIN Unit : Near(Unit[cmd][1], said[Lut[cmd].out], Unit[cmd][2])
    /\ Near(Scalar(2, 7), IF said.temperature < 0 THEN 0 ELSE said.temperature, 100)
    /\ \/ Near(Scalar(2, 3), said.run_time_to_empty_s, 100)
       \/ said.run_time_to_empty_s > 109200 /\ Served(Scalar(2, 3)) = 1092

\* The ratings a manager gets come from one list of the UPS, and the output power
\* is the share of the rated power that the load is said to be.
RatingsTrue ==
  AtRest =>
    /\ Near(Scalar(9, 6), said.config_active_power, 100)
    /\ Near(Scalar(9, 1), said.input_config_voltage, 100)
    /\ Near(Scalar(9, 3), said.output_config_voltage, 100)
    /\ Near(Line(4, 4, 4),
            CDiv(said.config_active_power, 100) * (said.percent_load \div 100), 100)

\* Between two callbacks the battery status and the output source are what the
\* last reports say: depleted (4) for a flag or less than 1 % left, low (3) below
\* 11 %; the mains (3), the battery (5) or neither (6).
StatusTrue ==
  AtRest =>
    /\ Served(Scalar(2, 1)) =
         IF said.remaining_capacity < 100 \/ raised \cap {"low", "replace"} # {} THEN 4
         ELSE IF said.remaining_capacity < 1100 THEN 3 ELSE 2
    /\ Served(Scalar(4, 1)) = IF mains THEN 3 ELSE IF drawn THEN 5 ELSE 6

\* No order of replies leaves the battery both charging and discharging.
ChargeOrDischarge == ~(After.charging /\ After.discharging)

\* What a manager is told while a parser runs lies between what it would have
\* been told before and what it will be told afterwards, but in two cases: the
\* battery seems well while a low battery turns into one to replace, and the
\* source is anyone's guess while the mains go.
TornOnlyOnExchange ==
  LET old == before
      new == After
  IN  /\ \/ BatteryStatus(g) \in BatteryStatus(old) .. BatteryStatus(new)
         \/ BatteryStatus(g) \in BatteryStatus(new) .. BatteryStatus(old)
         \/ /\ old.shutdown_imminent /\ ~old.need_replacement
            /\ new.need_replacement /\ ~new.shutdown_imminent
      /\ \/ OutputSource(g) \in {OutputSource(old), OutputSource(new)}
         \/ old.ac_present /\ ~new.ac_present
==============================================================================
