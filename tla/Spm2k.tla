-------------------------------- MODULE Spm2k --------------------------------
(***************************************************************************)
(* The SPM2K sub-adapter's parsers (spm2k.c): what each makes of a reply   *)
(* and which telemetry fields it assigns, in which order.                  *)
(*                                                                         *)
(* A reply is what its text says, not its characters: a number with a sign *)
(* and decimals, fields separated by commas, the bits of a hexadecimal     *)
(* byte, a date.  `clean' is FALSE for a text that is none of the kind, or *)
(* without its line end, too long or not printable.                        *)
(***************************************************************************)
EXTENDS Integers, Sequences

Int32Max == 2147483647
U16Max == 65535
S16Max == 32767
S16Min == -32768

Number == [neg : BOOLEAN, whole : Nat, frac : Seq(0 .. 9), clean : BOOLEAN]

\* A reply that no parser accepts.
Garbage == [neg |-> FALSE, whole |-> 0, frac |-> <<>>, clean |-> FALSE]

----------------------------------------------------------------------------
(* spm2k_parse_scaled_int(): decimals beyond the scale are cut off, missing *)
(* ones are zero.                                                          *)

Decimal(text, i) == IF i <= Len(text.frac) THEN text.frac[i] ELSE 0

\* What the decimals would be if those beyond the scale were kept.
FractionUncut(text, scale) == 10 * Decimal(text, 1) + Decimal(text, 2)

\* The decimals as a number, for a scale of 1, 10 or 100.
Fraction(text, scale) ==
  (10 * Decimal(text, 1) + Decimal(text, 2)) \div (100 \div scale)

Magnitude(text, scale) == text.whole * scale + Fraction(text, scale)
Scaled(text, scale) ==
  IF text.neg THEN -Magnitude(text, scale) ELSE Magnitude(text, scale)

Parses(text, scale, min, max) ==
  /\ text.clean
  /\ text.whole <= Int32Max \div scale
  /\ Scaled(text, scale) >= min
  /\ Scaled(text, scale) <= max

----------------------------------------------------------------------------
(* The process functions: <<>> when the reply is refused, else what is     *)
(* assigned, one <<field, value>> after the other.                         *)

Assign(field, value) == <<<<field, value>>>>
When(accepted, writes) == IF accepted THEN writes ELSE <<>>

\* spm2k_process_voltage() and spm2k_process_frequency()
Unsigned(out, text) ==
  When(Parses(text, 100, 0, U16Max), Assign(out, Scaled(text, 100)))

\* spm2k_process_ac_current()
AcCurrent(out, text) ==
  When(Parses(text, 100, S16Min, S16Max), Assign(out, Scaled(text, 100)))

\* What spm2k_process_bat_current() would be without the flag it clears.
BatCurrentSetsOnly(out, text) ==
  When(Parses(text, 100, S16Min, S16Max),
    Assign(out, Scaled(text, 100)) \o
      IF Scaled(text, 100) < 0 THEN Assign("discharging", TRUE)
      ELSE IF Scaled(text, 100) > 0 THEN Assign("charging", TRUE)
      ELSE <<>>)

\* spm2k_process_bat_current()
BatCurrent(out, text) ==
  When(Parses(text, 100, S16Min, S16Max),
    Assign(out, Scaled(text, 100)) \o
      IF Scaled(text, 100) < 0
      THEN <<<<"charging", FALSE>>, <<"discharging", TRUE>>>>
      ELSE IF Scaled(text, 100) > 0
      THEN <<<<"charging", TRUE>>, <<"discharging", FALSE>>>>
      ELSE <<>>)

\* spm2k_process_percent_load()
PercentLoad(out, text) ==
  When(Parses(text, 100, 0, 10000), Assign(out, Scaled(text, 100) \div 100))

\* spm2k_process_runtime_minutes_to_seconds(): what precedes the colon.
Seconds(text) == 60 * Scaled(text, 1)
RuntimeUnclamped(out, text) ==
  When(Parses(text, 1, 0, Int32Max \div 60), Assign(out, Seconds(text)))
Runtime(out, text) ==
  When(Parses(text, 1, 0, Int32Max \div 60),
    Assign(out, IF Seconds(text) > U16Max THEN U16Max ELSE Seconds(text)))

\* spm2k_process_temperature_c_to_kelvin(); its two limits cannot be reached.
Temperature(out, text) ==
  When(Parses(text, 10, -2731, 5000), Assign(out, Scaled(text, 10) + 2731))

\* spm2k_process_remaining_capacity()
Capacity(out, text) ==
  When(Parses(text, 10, 0, 1000),
    <<<<out, Scaled(text, 10) \div 10>>,
      <<"fully_charged", Scaled(text, 10) \div 10 >= 100>>>>)

\* spm2k_process_status_flags(): bits 3 to 7 of the byte.
ReplaceFlag(reply) == Assign("need_replacement", "replace" \in reply.flags)
LowFlags(reply) ==
  Assign("below_remaining_capacity_limit", "low" \in reply.flags) \o
  Assign("shutdown_imminent", "low" \in reply.flags)
PowerFlags(reply, capacity) ==
  LET fed == "on_line" \in reply.flags /\ "on_battery" \notin reply.flags
  IN  << <<"ac_present", fed>>,
         <<"charging", fed /\ capacity < 100>>,
         <<"discharging", "on_battery" \in reply.flags>>,
         <<"overload", "overload" \in reply.flags>> >>

\* What it would be with the replacement flag assigned first.
StatusReplaceFirst(reply, capacity) ==
  When(reply.clean,
    ReplaceFlag(reply) \o PowerFlags(reply, capacity) \o LowFlags(reply)
      \o Assign("battery_present", TRUE))

StatusFlags(reply, capacity) ==
  When(reply.clean,
    PowerFlags(reply, capacity) \o LowFlags(reply) \o ReplaceFlag(reply)
      \o Assign("battery_present", TRUE))

\* spm2k_process_ac_present(): FF or 00.
AcPresent(out, reply) == When(reply.clean, Assign(out, reply.present))

\* What it would be if it assigned each field as it is parsed.
RatedInfoPiecemeal(csv) ==
  When(Len(csv) >= 1 /\ Parses(csv[1], 1, 0, U16Max),
    Assign("config_active_power", Scaled(csv[1], 1)) \o
    When(Len(csv) >= 2 /\ Parses(csv[2], 100, 0, U16Max),
      Assign("input_config_voltage", Scaled(csv[2], 100)) \o
      When(Len(csv) >= 3 /\ Parses(csv[3], 100, 0, U16Max),
        Assign("output_config_voltage", Scaled(csv[3], 100)))))

\* spm2k_process_rated_info(): fields 0, 1, 2 and 5 of the list, all or none.
RatedInfo(csv) ==
  When(/\ Len(csv) >= 6
       /\ Parses(csv[1], 1, 0, U16Max)
       /\ \A i \in {2, 3, 6} : Parses(csv[i], 100, 0, U16Max),
    << <<"config_active_power", Scaled(csv[1], 1)>>,
       <<"input_config_voltage", Scaled(csv[2], 100)>>,
       <<"output_config_voltage", Scaled(csv[3], 100)>>,
       <<"battery_config_voltage", Scaled(csv[6], 100)>> >>)

\* spm2k_pack_date_mmddyy(): years since 1980, month and day in one word.
Date(out, date) ==
  When(date.clean /\ date.month \in 1 .. 12 /\ date.day \in 1 .. 31,
    Assign(out, 512 * (20 + date.year) + 32 * date.month + date.day))
==============================================================================
