-------------------------- MODULE UpsTelemetryProofs --------------------------
(***************************************************************************)
(* What managers are told is what the UPS said, for every amount and every *)
(* set of flags a UPS may report and any number of replies in any order.   *)
(***************************************************************************)
EXTENDS UpsTelemetry, TLAPS, SequenceTheorems

----------------------------------------------------------------------------
(* The parsers on the text of an amount.                                    *)

LEMMA AbsType ==
  ASSUME NEW a \in Int
  PROVE  Abs(a) \in Nat
BY DEF Abs

\* spm2k_parse_scaled_int() cuts the amount to the decimals of the scale, towards
\* zero.
LEMMA ScaledSays ==
  ASSUME NEW a \in Int
  PROVE  /\ Scaled(Says(a), 100) = a
         /\ Scaled(Says(a), 10) = CDiv(a, 10)
         /\ Scaled(Says(a), 1) = CDiv(a, 100)
<1> DEFINE n == Abs(a)
           d == (n \div 10) % 10
           e == n % 10
<1>1. n \in Nat
  BY AbsType
<1>2. /\ Decimal(Says(a), 1) = d
      /\ Decimal(Says(a), 2) = e
  BY DEF Decimal, Says
<1>3. Says(a).whole = n \div 100 /\ Says(a).neg = (a < 0)
  BY DEF Says
<1> HIDE DEF n
<1>4. d \in 0 .. 9 /\ e \in 0 .. 9 /\ 100 * (n \div 100) + 10 * d + e = n
  BY <1>1
<1>5. n \div 10 = 10 * (n \div 100) + d
  BY <1>1
<1> HIDE DEF d, e
<1>6. Magnitude(Says(a), 100) = n
  <2>1. 100 \div 100 = 1
    OBVIOUS
  <2>2. Fraction(Says(a), 100) = 10 * d + e
    BY <2>1, <1>2, <1>4 DEF Fraction
  <2> QED BY <1>1, <1>3, <1>4, <2>2 DEF Magnitude
<1>7. Magnitude(Says(a), 10) = n \div 10
  <2>1. 100 \div 10 = 10
    OBVIOUS
  <2>2. Fraction(Says(a), 10) = d
    BY <2>1, <1>2, <1>4 DEF Fraction
  <2> QED BY <1>1, <1>3, <1>5, <2>2 DEF Magnitude
<1>8. Magnitude(Says(a), 1) = n \div 100
  <2>1. 100 \div 1 = 100
    OBVIOUS
  <2>2. Fraction(Says(a), 1) = 0
    BY <2>1, <1>2, <1>4 DEF Fraction
  <2> QED BY <1>1, <1>3, <2>2 DEF Magnitude
<1>9. CASE a < 0
  <2>1. n = -a
    BY <1>9 DEF n, Abs
  <2>2. Says(a).neg
    BY <1>3, <1>9
  <2> QED BY <1>6, <1>7, <1>8, <1>9, <2>1, <2>2 DEF Scaled, CDiv
<1>10. CASE ~(a < 0)
  <2>1. n = a
    BY <1>10 DEF n, Abs
  <2>2. ~Says(a).neg
    BY <1>3, <1>10
  <2> QED BY <1>6, <1>7, <1>8, <1>10, <2>1, <2>2 DEF Scaled, CDiv
<1> QED BY <1>9, <1>10

LEMMA LargestInt32 ==
  /\ Int32Max \div 100 \in Nat /\ Int32Max \div 100 > 100000
  /\ Int32Max \div 10 \in Nat /\ Int32Max \div 10 > 100000
  /\ Int32Max \div 1 \in Nat /\ Int32Max \div 1 > 100000
  /\ Int32Max \div 60 \in Nat /\ Int32Max \div 60 > 100000
  /\ Int32Max \div 60 < Int32Max \div 1
BY SMT DEF Int32Max

LEMMA Widths ==
  /\ U16Max \in Int /\ 65534 < U16Max /\ U16Max < 65536
  /\ S16Min \in Int /\ -32769 < S16Min /\ S16Min < -32767
  /\ S16Max \in Int /\ 32766 < S16Max /\ S16Max < 32768
BY SMT DEF U16Max, S16Min, S16Max

\* A text that says an amount is refused for the amount only.
LEMMA ParsesSays ==
  ASSUME NEW a \in Int, NEW lo \in Int, NEW hi \in Int,
         -100000 < lo, hi < 100000
  PROVE  /\ Parses(Says(a), 100, lo, hi) <=> lo <= a /\ a <= hi
         /\ Parses(Says(a), 10, lo, hi) <=> lo <= CDiv(a, 10) /\ CDiv(a, 10) <= hi
         /\ Parses(Says(a), 1, lo, hi) <=> lo <= CDiv(a, 100) /\ CDiv(a, 100) <= hi
<1>1. Says(a).clean /\ Says(a).whole = Abs(a) \div 100
  BY DEF Says
<1>2. ASSUME NEW scale
      PROVE  Parses(Says(a), scale, lo, hi) <=>
               /\ Abs(a) \div 100 <= Int32Max \div scale
               /\ Scaled(Says(a), scale) >= lo
               /\ Scaled(Says(a), scale) <= hi
  BY <1>1 DEF Parses
<1>3. Parses(Says(a), 100, lo, hi) <=> lo <= a /\ a <= hi
  <2>1. lo <= a /\ a <= hi => Abs(a) \div 100 <= Int32Max \div 100
    BY LargestInt32 DEF Abs
  <2> QED BY <1>2, <2>1, ScaledSays
<1>4. Parses(Says(a), 10, lo, hi) <=> lo <= CDiv(a, 10) /\ CDiv(a, 10) <= hi
  <2>1. lo <= CDiv(a, 10) /\ CDiv(a, 10) <= hi => Abs(a) \div 100 <= Int32Max \div 10
    BY LargestInt32 DEF Abs, CDiv
  <2>2. CDiv(a, 10) \in Int
    BY DEF CDiv
  <2> QED BY <1>2, <2>1, <2>2, ScaledSays
<1>5. Parses(Says(a), 1, lo, hi) <=> lo <= CDiv(a, 100) /\ CDiv(a, 100) <= hi
  <2>1. lo <= CDiv(a, 100) /\ CDiv(a, 100) <= hi => Abs(a) \div 100 <= Int32Max \div 1
    BY LargestInt32 DEF Abs, CDiv
  <2>2. CDiv(a, 100) \in Int
    BY DEF CDiv
  <2> QED BY <1>2, <2>1, <2>2, ScaledSays
<1> QED BY <1>3, <1>4, <1>5

LEMMA ParsesMinutes ==
  ASSUME NEW a \in Int
  PROVE  Parses(Says(a), 1, 0, Int32Max \div 60) <=>
           a >= -99 /\ a \div 100 <= Int32Max \div 60
<1>1. Says(a).clean /\ Says(a).whole = Abs(a) \div 100
  BY DEF Says
<1>2. CDiv(a, 100) >= 0 <=> a >= -99
  BY DEF CDiv
<1>3. a >= -99 => (CDiv(a, 100) <= Int32Max \div 60 <=> a \div 100 <= Int32Max \div 60)
  BY LargestInt32 DEF CDiv
<1>4. a >= -99 /\ a \div 100 <= Int32Max \div 60 => Abs(a) \div 100 <= Int32Max \div 1
  BY LargestInt32 DEF Abs
<1> QED BY <1>1, <1>2, <1>3, <1>4, ScaledSays DEF Parses

LEMMA GarbageRefused ==
  ASSUME NEW scale, NEW lo, NEW hi
  PROVE  ~Parses(Garbage, scale, lo, hi)
BY DEF Parses, Garbage

----------------------------------------------------------------------------
(* Assignments one after the other.                                         *)

Fields == Numbers \union Flags

\* The fields h once all of w is assigned.
Applied(h, w) ==
  [f \in DOMAIN h |->
     IF \E i \in 1 .. Len(w) : w[i][1] = f
     THEN w[CHOOSE i \in 1 .. Len(w) : w[i][1] = f][2] ELSE h[f]]

\* No field is assigned twice.
Once(w) == \A i, j \in 1 .. Len(w) : w[i][1] = w[j][1] => i = j

Assignments == Seq(Fields \X (Int \union BOOLEAN))

LEMMA AppliedTo ==
  ASSUME NEW h, NEW w, Once(w), NEW f \in DOMAIN h, NEW i \in 1 .. Len(w), w[i][1] = f
  PROVE  Applied(h, w)[f] = w[i][2]
<1> DEFINE k == CHOOSE n \in 1 .. Len(w) : w[n][1] = f
<1>1. k \in 1 .. Len(w) /\ w[k][1] = f
  OBVIOUS
<1>2. k = i
  BY <1>1 DEF Once
<1>3. Applied(h, w)[f] = w[k][2]
  BY DEF Applied
<1> QED BY <1>2, <1>3

LEMMA AppliedElse ==
  ASSUME NEW h, NEW w, NEW f \in DOMAIN h, \A i \in 1 .. Len(w) : w[i][1] # f
  PROVE  Applied(h, w)[f] = h[f]
BY DEF Applied

LEMMA AppliedNone ==
  ASSUME NEW h, NEW f \in DOMAIN h
  PROVE  Applied(h, <<>>)[f] = h[f]
BY DEF Applied

\* What comes of all the assignments is settled before the first of them.
LEMMA AppliedNext ==
  ASSUME NEW h, NEW w \in Assignments, w # <<>>, Once(w), DOMAIN h = Fields,
         NEW f \in Fields
  PROVE  /\ Once(Tail(w))
         /\ Applied([h EXCEPT ![Head(w)[1]] = Head(w)[2]], Tail(w))[f] = Applied(h, w)[f]
<1> DEFINE v == Tail(w)
           n == [h EXCEPT ![Head(w)[1]] = Head(w)[2]]
<1>1. /\ Len(w) \in Nat \ {0} /\ Head(w) = w[1]
      /\ v \in Assignments
      /\ Len(v) = Len(w) - 1
      /\ \A i \in 1 .. Len(v) : v[i] = w[i + 1]
  BY HeadTailProperties, EmptySeq DEF Assignments
<1>2. Once(v)
  BY <1>1 DEF Once
<1>3. DOMAIN n = Fields
  OBVIOUS
<1> HIDE DEF v, n
<1>4. CASE \E i \in 1 .. Len(v) : v[i][1] = f
  <2>1. PICK i \in 1 .. Len(v) : v[i][1] = f
    BY <1>4
  <2>2. Applied(n, v)[f] = v[i][2]
    BY <1>2, <1>3, <2>1, AppliedTo
  <2>3. i + 1 \in 1 .. Len(w) /\ w[i + 1][1] = f /\ w[i + 1] = v[i]
    BY <1>1, <2>1
  <2>4. Applied(h, w)[f] = w[i + 1][2]
    BY <2>3, AppliedTo
  <2> QED BY <1>2, <2>2, <2>3, <2>4 DEF v, n
<1>5. CASE ~\E i \in 1 .. Len(v) : v[i][1] = f
  <2>1. Applied(n, v)[f] = n[f]
    BY <1>3, <1>5, AppliedElse, Zenon
  <2>2. CASE w[1][1] = f
    <3>1. 1 \in 1 .. Len(w)
      BY <1>1
    <3>2. Applied(h, w)[f] = w[1][2]
      BY <2>2, <3>1, AppliedTo
    <3>3. n[f] = w[1][2]
      BY <2>2, <1>1 DEF n
    <3> QED BY <1>2, <2>1, <3>2, <3>3 DEF v, n
  <2>3. CASE w[1][1] # f
    <3>1. ASSUME NEW i \in 1 .. Len(w)
          PROVE  w[i][1] # f
      <4>1. CASE i = 1
        BY <4>1, <2>3
      <4>2. CASE i # 1
        <5>1. i - 1 \in 1 .. Len(v) /\ w[i] = v[i - 1]
          BY <1>1, <4>2
        <5> QED BY <5>1, <1>5
      <4> QED BY <4>1, <4>2
    <3>2. Applied(h, w)[f] = h[f]
      BY <3>1, AppliedElse, Zenon
    <3>3. n[f] = h[f]
      BY <2>3, <1>1 DEF n
    <3> QED BY <1>2, <2>1, <3>2, <3>3 DEF v, n
  <2> QED BY <2>2, <2>3
<1> QED BY <1>4, <1>5

----------------------------------------------------------------------------
(* What the parsers assign.                                                 *)

Measured == Numbers \ {"manufacturer_date"}

\* A field as the parsers store an amount in it.
Conversion(field, a) ==
  CASE field = "percent_load" -> a \div 100
    [] field = "remaining_capacity" -> CDiv(a, 10) \div 10
    [] field = "temperature" -> CDiv(a, 10) + 2731
    [] field = "run_time_to_empty_s" ->
         IF 60 * CDiv(a, 100) > U16Max THEN U16Max ELSE 60 * CDiv(a, 100)
    [] field = "config_active_power" -> CDiv(a, 100)
    [] OTHER -> a

\* The fields that hold an amount as it is said.
Plain == Numbers \ {"manufacturer_date", "percent_load", "remaining_capacity",
                    "temperature", "run_time_to_empty_s", "config_active_power"}

LEMMA Items ==
  ASSUME NEW cmd \in DOMAIN Lut
  PROVE  LET fn == Lut[cmd].fn
             out == Lut[cmd].out
         IN  \/ fn \in {"voltage", "frequency"} /\ out \in Plain \ Shorts
             \/ fn = "ac_current" /\ out = "output_current"
             \/ fn = "bat_current" /\ out = "battery_current"
             \/ fn = "percent_load" /\ out = "percent_load"
             \/ fn = "runtime" /\ out = "run_time_to_empty_s"
             \/ fn = "temperature" /\ out = "temperature"
             \/ fn = "remaining_capacity" /\ out = "remaining_capacity"
             \/ fn = "manufacturer_date" /\ out = "manufacturer_date"
             \/ fn = "rated_info" /\ out = "none"
             \/ fn = "status_flags" /\ out = "none"
             \/ fn = "ac_present" /\ out = "ac_present"
BY DEF Lut, Item, Plain, Numbers, Words, Shorts, Bytes

LEMMA PlainFields ==
  ASSUME NEW f \in Plain \ Shorts, NEW a \in Int
  PROVE  /\ Holds(f, a) <=> a \in 0 .. U16Max
         /\ Conversion(f, a) = a
         /\ FitsField(f, a) <=> a \in 0 .. U16Max
<1>1. /\ f \in Words /\ f \notin Shorts /\ f \notin Bytes /\ f \notin Flags
      /\ f # "percent_load" /\ f # "remaining_capacity" /\ f # "temperature"
      /\ f # "run_time_to_empty_s" /\ f # "config_active_power"
  BY DEF Plain, Numbers, Words, Shorts, Bytes, Flags
<1>2. Holds(f, a) <=> a \in 0 .. U16Max
  BY <1>1 DEF Holds
<1>3. Conversion(f, a) = a
  BY <1>1 DEF Conversion
<1>4. FitsField(f, a) <=> a \in 0 .. U16Max
  BY <1>1 DEF FitsField
<1> QED BY <1>2, <1>3, <1>4

LEMMA ShortFields ==
  ASSUME NEW f \in Shorts, NEW a \in Int
  PROVE  /\ Holds(f, a) <=> a \in S16Min .. S16Max
         /\ Conversion(f, a) = a
         /\ FitsField(f, a) <=> a \in S16Min .. S16Max
<1>1. /\ f \in Shorts /\ f \notin Words /\ f \notin Bytes /\ f \notin Flags
      /\ f # "percent_load" /\ f # "remaining_capacity" /\ f # "temperature"
      /\ f # "run_time_to_empty_s" /\ f # "config_active_power"
  BY DEF Words, Shorts, Bytes, Flags
<1>2. Holds(f, a) <=> a \in S16Min .. S16Max
  BY <1>1 DEF Holds
<1>3. Conversion(f, a) = a
  BY <1>1 DEF Conversion
<1>4. FitsField(f, a) <=> a \in S16Min .. S16Max
  BY <1>1 DEF FitsField
<1> QED BY <1>2, <1>3, <1>4

LEMMA JoinedNone ==
  ASSUME NEW p
  PROVE  <<p>> \o <<>> = <<p>>
<1>1. <<p>> \in Seq({p})
  OBVIOUS
<1> QED BY <1>1, ConcatEmptySeq

LEMMA JoinedThree ==
  ASSUME NEW p, NEW q, NEW r
  PROVE  <<p>> \o <<q, r>> = <<p, q, r>>
<1> DEFINE S == {p, q, r}
           s == <<p>>
           t == <<q, r>>
           u == <<p, q, r>>
<1>1. s \in Seq(S) /\ t \in Seq(S) /\ u \in Seq(S)
  OBVIOUS
<1>2. Len(s) = 1 /\ Len(t) = 2 /\ Len(u) = 3
  OBVIOUS
<1>3. s[1] = p /\ t[1] = q /\ t[2] = r /\ u[1] = p /\ u[2] = q /\ u[3] = r
  OBVIOUS
<1> HIDE DEF s, t, u, S
<1>4. /\ s \o t \in Seq(S) /\ Len(s \o t) = Len(s) + Len(t)
      /\ \A i \in 1 .. Len(s) + Len(t) :
           (s \o t)[i] = IF i <= Len(s) THEN s[i] ELSE t[i - Len(s)]
  BY <1>1, ConcatProperties, Zenon
<1>5. ASSUME NEW i \in 1 .. 3 PROVE (s \o t)[i] = u[i]
  <2>1. i = 1 \/ i = 2 \/ i = 3
    OBVIOUS
  <2> QED BY <2>1, <1>2, <1>3, <1>4
<1>6. s \o t = u
  BY <1>1, <1>2, <1>4, <1>5, SeqEqual
<1> QED BY <1>6 DEF s, t, u

\* What is assigned for an amount that is accepted.
Assigned(cmd, a, w) ==
  LET out == Lut[cmd].out
      v   == Conversion(out, a)
  IN  \/ /\ Lut[cmd].fn \notin {"bat_current", "remaining_capacity"}
         /\ w = <<<<out, v>>>>
      \/ /\ Lut[cmd].fn = "remaining_capacity"
         /\ w = << <<out, v>>, <<"fully_charged", v >= 100>> >>
      \/ /\ Lut[cmd].fn = "bat_current" /\ a = 0
         /\ w = <<<<out, v>>>>
      \/ /\ Lut[cmd].fn = "bat_current" /\ a < 0
         /\ w = << <<out, v>>, <<"charging", FALSE>>, <<"discharging", TRUE>> >>
      \/ /\ Lut[cmd].fn = "bat_current" /\ a > 0
         /\ w = << <<out, v>>, <<"charging", TRUE>>, <<"discharging", FALSE>> >>

\* Every parser but the one of the ratings refuses exactly the amounts its field
\* cannot hold, and stores the others converted, within the field's width.
LEMMA AmountWrites ==
  ASSUME NEW cmd \in DOMAIN Lut, Lut[cmd].out \in Measured, NEW a \in Int
  PROVE  LET out == Lut[cmd].out
         IN  /\ ~Holds(out, a) => Writes(cmd, Says(a)) = <<>>
             /\ Holds(out, a) => /\ FitsField(out, Conversion(out, a))
                                 /\ Assigned(cmd, a, Writes(cmd, Says(a)))
<1> DEFINE fn == Lut[cmd].fn
           out == Lut[cmd].out
           v == Conversion(out, a)
<1>1. CASE fn \in {"voltage", "frequency"} /\ out \in Plain \ Shorts
  <2>1. Writes(cmd, Says(a)) = Unsigned(out, Says(a))
    BY <1>1 DEF Writes
  <2>2. Parses(Says(a), 100, 0, U16Max) <=> a \in 0 .. U16Max
    BY ParsesSays, Widths
  <2>3. /\ Holds(out, a) <=> a \in 0 .. U16Max
        /\ v = a
        /\ FitsField(out, v) <=> a \in 0 .. U16Max
    BY <1>1, PlainFields
  <2> QED BY <1>1, <2>1, <2>2, <2>3, ScaledSays DEF Unsigned, When, Assign, Assigned
<1>2. CASE fn = "ac_current" /\ out = "output_current"
  <2>1. Writes(cmd, Says(a)) = AcCurrent(out, Says(a))
    BY <1>2 DEF Writes
  <2>2. Parses(Says(a), 100, S16Min, S16Max) <=> a \in S16Min .. S16Max
    BY ParsesSays, Widths
  <2>3. /\ Holds(out, a) <=> a \in S16Min .. S16Max
        /\ v = a
        /\ FitsField(out, v) <=> a \in S16Min .. S16Max
    BY <1>2, ShortFields DEF Shorts
  <2> QED BY <1>2, <2>1, <2>2, <2>3, ScaledSays DEF AcCurrent, When, Assign, Assigned
<1>3. CASE fn = "bat_current" /\ out = "battery_current"
  <2>1. Writes(cmd, Says(a)) = BatCurrent(out, Says(a))
    BY <1>3 DEF Writes
  <2>2. Parses(Says(a), 100, S16Min, S16Max) <=> a \in S16Min .. S16Max
    BY ParsesSays, Widths
  <2>3. /\ Holds(out, a) <=> a \in S16Min .. S16Max
        /\ v = a
        /\ FitsField(out, v) <=> a \in S16Min .. S16Max
    BY <1>3, ShortFields DEF Shorts
  <2>4. CASE Holds(out, a)
    <3>1. CASE a = 0
      <4>1. ~(Scaled(Says(a), 100) < 0) /\ ~(Scaled(Says(a), 100) > 0)
        BY <3>1, ScaledSays
      <4>2. Parses(Says(a), 100, S16Min, S16Max) /\ Scaled(Says(a), 100) = a
        BY <2>2, <2>3, <2>4, ScaledSays
      <4>3. BatCurrent(out, Says(a)) = <<<<out, a>>>> \o <<>>
        BY <4>1, <4>2, Zenon DEF BatCurrent, When, Assign
      <4>4. <<<<out, a>>>> \o <<>> = <<<<out, a>>>>
        BY JoinedNone
      <4> QED BY <1>3, <2>1, <2>3, <2>4, <3>1, <4>3, <4>4 DEF Assigned
    <3>2. CASE a < 0
      <4>1. BatCurrent(out, Says(a)) =
              <<<<out, a>>>> \o << <<"charging", FALSE>>, <<"discharging", TRUE>> >>
        BY <2>2, <2>3, <2>4, <3>2, ScaledSays DEF BatCurrent, When, Assign
      <4> QED BY <1>3, <2>1, <2>3, <2>4, <3>2, <4>1, JoinedThree DEF Assigned
    <3>3. CASE a > 0
      <4>1. BatCurrent(out, Says(a)) =
              <<<<out, a>>>> \o << <<"charging", TRUE>>, <<"discharging", FALSE>> >>
        BY <2>2, <2>3, <2>4, <3>3, ScaledSays DEF BatCurrent, When, Assign
      <4> QED BY <1>3, <2>1, <2>3, <2>4, <3>3, <4>1, JoinedThree DEF Assigned
    <3> QED BY <3>1, <3>2, <3>3
  <2>5. CASE ~Holds(out, a)
    BY <2>1, <2>2, <2>3, <2>5 DEF BatCurrent, When
  <2> QED BY <2>4, <2>5
<1>4. CASE fn = "percent_load" /\ out = "percent_load"
  <2>1. Writes(cmd, Says(a)) = PercentLoad(out, Says(a))
    BY <1>4 DEF Writes
  <2>2. Parses(Says(a), 100, 0, 10000) <=> 0 <= a /\ a <= 10000
    BY ParsesSays
  <2>3. Holds(out, a) <=> a >= 0 /\ a <= 10000
    BY <1>4 DEF Holds, Shorts
  <2>4. v = a \div 100
    BY <1>4 DEF Conversion
  <2>5. a >= 0 /\ a <= 10000 => FitsField(out, v)
    BY <1>4, <2>4 DEF FitsField, Words, Shorts, Bytes, Flags
  <2> QED BY <1>4, <2>1, <2>2, <2>3, <2>4, <2>5, ScaledSays
          DEF PercentLoad, When, Assign, Assigned
<1>5. CASE fn = "runtime" /\ out = "run_time_to_empty_s"
  <2>1. Writes(cmd, Says(a)) = Runtime(out, Says(a))
    BY <1>5 DEF Writes
  <2>2. Parses(Says(a), 1, 0, Int32Max \div 60) <=>
          a >= -99 /\ a \div 100 <= Int32Max \div 60
    BY ParsesMinutes
  <2>3. Holds(out, a) <=> a > -100 /\ a \div 100 <= Int32Max \div 60
    BY <1>5 DEF Holds, Shorts
  <2>4. v = IF 60 * CDiv(a, 100) > U16Max THEN U16Max ELSE 60 * CDiv(a, 100)
    BY <1>5 DEF Conversion
  <2>5. a > -100 => v \in 0 .. U16Max
    BY <2>4, Widths DEF CDiv
  <2>6. a > -100 => FitsField(out, v)
    BY <1>5, <2>5 DEF FitsField, Words, Shorts, Bytes, Flags
  <2>7. a > -100 <=> a >= -99
    OBVIOUS
  <2> QED BY <1>5, <2>1, <2>2, <2>3, <2>4, <2>6, <2>7, ScaledSays
          DEF Runtime, Seconds, When, Assign, Assigned
<1>6. CASE fn = "temperature" /\ out = "temperature"
  <2>1. Writes(cmd, Says(a)) = Temperature(out, Says(a))
    BY <1>6 DEF Writes
  <2>2. Parses(Says(a), 10, -2731, 5000) <=> -2731 <= CDiv(a, 10) /\ CDiv(a, 10) <= 5000
    BY ParsesSays
  <2>3. Holds(out, a) <=> a > -27320 /\ a < 50010
    BY <1>6 DEF Holds, Shorts
  <2>4. v = CDiv(a, 10) + 2731
    BY <1>6 DEF Conversion
  <2>5. -2731 <= CDiv(a, 10) /\ CDiv(a, 10) <= 5000 <=> a > -27320 /\ a < 50010
    BY DEF CDiv
  <2>6. a > -27320 /\ a < 50010 => v \in 0 .. U16Max
    BY <2>4, <2>5, Widths DEF CDiv
  <2>7. a > -27320 /\ a < 50010 => FitsField(out, v)
    BY <1>6, <2>6 DEF FitsField, Words, Shorts, Bytes, Flags
  <2> QED BY <1>6, <2>1, <2>2, <2>3, <2>4, <2>5, <2>7, ScaledSays
          DEF Temperature, When, Assign, Assigned
<1>7. CASE fn = "remaining_capacity" /\ out = "remaining_capacity"
  <2>1. Writes(cmd, Says(a)) = Capacity(out, Says(a))
    BY <1>7 DEF Writes
  <2>2. Parses(Says(a), 10, 0, 1000) <=> 0 <= CDiv(a, 10) /\ CDiv(a, 10) <= 1000
    BY ParsesSays
  <2>3. Holds(out, a) <=> a > -10 /\ a < 10010
    BY <1>7 DEF Holds, Shorts
  <2>4. v = CDiv(a, 10) \div 10
    BY <1>7 DEF Conversion
  <2>5. 0 <= CDiv(a, 10) /\ CDiv(a, 10) <= 1000 <=> a > -10 /\ a < 10010
    BY DEF CDiv
  <2>6. a > -10 /\ a < 10010 => v >= 0 /\ v <= 100 /\ v \in Int
    BY <2>4, <2>5 DEF CDiv
  <2>7. a > -10 /\ a < 10010 => FitsField(out, v)
    BY <1>7, <2>6 DEF FitsField, Words, Shorts, Bytes, Flags
  <2> QED BY <1>7, <2>1, <2>2, <2>3, <2>4, <2>5, <2>7, ScaledSays
          DEF Capacity, When, Assigned
<1>8. out \notin {"manufacturer_date", "none", "ac_present"}
  BY DEF Measured, Numbers, Words, Shorts, Bytes
<1> QED BY <1>1, <1>2, <1>3, <1>4, <1>5, <1>6, <1>7, <1>8, Items

----------------------------------------------------------------------------
(* Lists of assignments.                                                    *)

Order ==
  {<<"ac_present", "discharging">>,
   <<"below_remaining_capacity_limit", "shutdown_imminent">>,
   <<"below_remaining_capacity_limit", "need_replacement">>,
   <<"shutdown_imminent", "need_replacement">>}

\* The order in which the flags that a manager sees together are assigned.
InOrder(w) ==
  \A i, j \in 1 .. Len(w) : <<w[i][1], w[j][1]>> \in Order => i < j

\* What a parser may assign: every field once, in order, what the field can hold.
Proper(w) ==
  /\ w \in Assignments
  /\ Once(w)
  /\ \A i \in 1 .. Len(w) : FitsField(w[i][1], w[i][2])
  /\ InOrder(w)

LEMMA FitsType ==
  ASSUME NEW f, NEW v, FitsField(f, v)
  PROVE  f \in Fields /\ v \in Int \union BOOLEAN /\ <<f, v>> \in Fields \X (Int \union BOOLEAN)
<1>1. CASE f \in Words
  <2>1. FitsField(f, v) <=> v \in 0 .. U16Max
    BY <1>1 DEF FitsField, Words, Shorts, Bytes, Flags
  <2> QED BY <1>1, <2>1, Widths DEF Fields, Numbers
<1>2. CASE f \in Shorts
  <2>1. FitsField(f, v) <=> v \in S16Min .. S16Max
    BY <1>2 DEF FitsField, Words, Shorts, Bytes, Flags
  <2> QED BY <1>2, <2>1, Widths DEF Fields, Numbers
<1>3. CASE f \in Bytes
  <2>1. FitsField(f, v) <=> v \in 0 .. 255
    BY <1>3 DEF FitsField, Words, Shorts, Bytes, Flags
  <2> QED BY <1>3, <2>1 DEF Fields, Numbers
<1>4. CASE f \in Flags
  <2>1. FitsField(f, v) <=> v \in BOOLEAN
    BY <1>4 DEF FitsField, Words, Shorts, Bytes, Flags
  <2> QED BY <1>4, <2>1 DEF Fields
<1>5. CASE f \notin Words /\ f \notin Shorts /\ f \notin Bytes /\ f \notin Flags
  BY <1>5 DEF FitsField
<1> QED BY <1>1, <1>2, <1>3, <1>4, <1>5

LEMMA FlagFits ==
  ASSUME NEW f \in Flags, NEW b
  PROVE  FitsField(f, b) <=> b \in BOOLEAN
BY DEF FitsField, Words, Shorts, Bytes, Flags

LEMMA ProperNone == Proper(<<>>)
BY DEF Proper, Assignments, Once, InOrder

LEMMA ProperOne ==
  ASSUME NEW f, NEW v, FitsField(f, v)
  PROVE  Proper(<<<<f, v>>>>)
<1> DEFINE p == <<f, v>>
           S == Fields \X (Int \union BOOLEAN)
<1>1. p \in S /\ p[1] = f /\ p[2] = v
  BY FitsType
<1> HIDE DEF p, S
<1> DEFINE w == <<p>>
<1>2. w \in Seq(S) /\ Len(w) = 1 /\ w[1] = p
  BY <1>1
<1> HIDE DEF w
<1>3. Once(w)
  BY <1>2 DEF Once
<1>4. InOrder(w)
  BY <1>1, <1>2 DEF InOrder, Order
<1>5. Proper(w)
  BY <1>1, <1>2, <1>3, <1>4 DEF Proper, Assignments, S
<1> QED BY <1>5 DEF w, p

LEMMA ProperTwo ==
  ASSUME NEW f, NEW v, NEW h, NEW u, FitsField(f, v), FitsField(h, u),
         f # h, <<f, h>> \notin Order, <<h, f>> \notin Order
  PROVE  Proper(<< <<f, v>>, <<h, u>> >>)
<1> DEFINE p == <<f, v>>
           q == <<h, u>>
           S == Fields \X (Int \union BOOLEAN)
<1>1. p \in S /\ p[1] = f /\ p[2] = v /\ q \in S /\ q[1] = h /\ q[2] = u
  BY FitsType
<1> HIDE DEF p, q, S
<1> DEFINE w == <<p, q>>
<1>2. w \in Seq(S) /\ Len(w) = 2 /\ w[1] = p /\ w[2] = q
  BY <1>1
<1> HIDE DEF w
<1>3. \A i \in 1 .. Len(w) : i = 1 \/ i = 2
  BY <1>2
<1>4. Once(w)
  BY <1>1, <1>2, <1>3 DEF Once
<1>5. InOrder(w)
  BY <1>1, <1>2, <1>3 DEF InOrder, Order
<1>6. Proper(w)
  BY <1>1, <1>2, <1>3, <1>4, <1>5 DEF Proper, Assignments, S
<1> QED BY <1>6 DEF w, p, q

LEMMA WordFits ==
  ASSUME NEW f \in Words, NEW a
  PROVE  FitsField(f, a) <=> a \in 0 .. U16Max
BY DEF FitsField, Words, Shorts, Bytes, Flags

LEMMA ProperCurrent ==
  ASSUME NEW a, FitsField("battery_current", a), NEW b1 \in BOOLEAN, NEW b2 \in BOOLEAN
  PROVE  Proper(<< <<"battery_current", a>>,
                   <<"charging", b1>>,
                   <<"discharging", b2>> >>)
<1> DEFINE p1 == <<"battery_current", a>>
           p2 == <<"charging", b1>>
           p3 == <<"discharging", b2>>
           S == Fields \X (Int \union BOOLEAN)
<1>1. /\ FitsField("battery_current", a) /\ p1 \in S /\ p1[1] = "battery_current" /\ p1[2] = a
      /\ FitsField("charging", b1) /\ p2 \in S /\ p2[1] = "charging" /\ p2[2] = b1
      /\ FitsField("discharging", b2) /\ p3 \in S /\ p3[1] = "discharging" /\ p3[2] = b2
  BY FitsType, FlagFits DEF Flags
<1> HIDE DEF p1, p2, p3, S
<1> DEFINE w == <<p1, p2, p3>>
<1>2. w \in Seq(S) /\ Len(w) = 3
  BY <1>1
<1>3. /\ w[1] = p1 /\ w[2] = p2 /\ w[3] = p3
  OBVIOUS
<1> HIDE DEF w
<1>4. \A i \in 1 .. Len(w) : i = 1 \/ i = 2 \/ i = 3
  BY <1>2
<1>5. Once(w)
  BY <1>1, <1>2, <1>3, <1>4 DEF Once
<1>6. InOrder(w)
  BY <1>1, <1>2, <1>3, <1>4 DEF InOrder, Order
<1>7. \A i \in 1 .. Len(w) : FitsField(w[i][1], w[i][2])
  BY <1>1, <1>3, <1>4
<1>8. Proper(w)
  BY <1>2, <1>5, <1>6, <1>7 DEF Proper, Assignments, S
<1> QED BY <1>8 DEF w, p1, p2, p3

LEMMA ProperRatings ==
  ASSUME NEW a1, NEW a2, NEW a3, NEW a4,
         {a1, a2, a3, a4} \subseteq 0 .. U16Max
  PROVE  Proper(<< <<"config_active_power", a1>>,
                   <<"input_config_voltage", a2>>,
                   <<"output_config_voltage", a3>>,
                   <<"battery_config_voltage", a4>> >>)
<1> DEFINE p1 == <<"config_active_power", a1>>
           p2 == <<"input_config_voltage", a2>>
           p3 == <<"output_config_voltage", a3>>
           p4 == <<"battery_config_voltage", a4>>
           S == Fields \X (Int \union BOOLEAN)
<1>1. /\ FitsField("config_active_power", a1) /\ p1 \in S /\ p1[1] = "config_active_power" /\ p1[2] = a1
      /\ FitsField("input_config_voltage", a2) /\ p2 \in S /\ p2[1] = "input_config_voltage" /\ p2[2] = a2
      /\ FitsField("output_config_voltage", a3) /\ p3 \in S /\ p3[1] = "output_config_voltage" /\ p3[2] = a3
      /\ FitsField("battery_config_voltage", a4) /\ p4 \in S /\ p4[1] = "battery_config_voltage" /\ p4[2] = a4
  BY FitsType, WordFits DEF Words
<1> HIDE DEF p1, p2, p3, p4, S
<1> DEFINE w == <<p1, p2, p3, p4>>
<1>2. w \in Seq(S) /\ Len(w) = 4
  BY <1>1
<1>3. /\ w[1] = p1 /\ w[2] = p2 /\ w[3] = p3 /\ w[4] = p4
  OBVIOUS
<1> HIDE DEF w
<1>4. \A i \in 1 .. Len(w) : i = 1 \/ i = 2 \/ i = 3 \/ i = 4
  BY <1>2
<1>5. Once(w)
  BY <1>1, <1>2, <1>3, <1>4 DEF Once
<1>6. InOrder(w)
  BY <1>1, <1>2, <1>3, <1>4 DEF InOrder, Order
<1>7. \A i \in 1 .. Len(w) : FitsField(w[i][1], w[i][2])
  BY <1>1, <1>3, <1>4
<1>8. Proper(w)
  BY <1>2, <1>5, <1>6, <1>7 DEF Proper, Assignments, S
<1> QED BY <1>8 DEF w, p1, p2, p3, p4

LEMMA ProperStatus ==
  ASSUME NEW b1, NEW b2, NEW b3, NEW b4, NEW b5, NEW b6, NEW b7, NEW b8,
         {b1, b2, b3, b4, b5, b6, b7, b8} \subseteq BOOLEAN
  PROVE  Proper(<< <<"ac_present", b1>>,
                   <<"charging", b2>>,
                   <<"discharging", b3>>,
                   <<"overload", b4>>,
                   <<"below_remaining_capacity_limit", b5>>,
                   <<"shutdown_imminent", b6>>,
                   <<"need_replacement", b7>>,
                   <<"battery_present", b8>> >>)
<1> DEFINE p1 == <<"ac_present", b1>>
           p2 == <<"charging", b2>>
           p3 == <<"discharging", b3>>
           p4 == <<"overload", b4>>
           p5 == <<"below_remaining_capacity_limit", b5>>
           p6 == <<"shutdown_imminent", b6>>
           p7 == <<"need_replacement", b7>>
           p8 == <<"battery_present", b8>>
           S == Fields \X (Int \union BOOLEAN)
<1>1. /\ FitsField("ac_present", b1) /\ p1 \in S /\ p1[1] = "ac_present" /\ p1[2] = b1
      /\ FitsField("charging", b2) /\ p2 \in S /\ p2[1] = "charging" /\ p2[2] = b2
      /\ FitsField("discharging", b3) /\ p3 \in S /\ p3[1] = "discharging" /\ p3[2] = b3
      /\ FitsField("overload", b4) /\ p4 \in S /\ p4[1] = "overload" /\ p4[2] = b4
      /\ FitsField("below_remaining_capacity_limit", b5) /\ p5 \in S /\ p5[1] = "below_remaining_capacity_limit" /\ p5[2] = b5
      /\ FitsField("shutdown_imminent", b6) /\ p6 \in S /\ p6[1] = "shutdown_imminent" /\ p6[2] = b6
      /\ FitsField("need_replacement", b7) /\ p7 \in S /\ p7[1] = "need_replacement" /\ p7[2] = b7
      /\ FitsField("battery_present", b8) /\ p8 \in S /\ p8[1] = "battery_present" /\ p8[2] = b8
  BY FitsType, FlagFits DEF Flags
<1> HIDE DEF p1, p2, p3, p4, p5, p6, p7, p8, S
<1> DEFINE w == <<p1, p2, p3, p4, p5, p6, p7, p8>>
<1>2. w \in Seq(S) /\ Len(w) = 8
  BY <1>1
<1>3. /\ w[1] = p1 /\ w[2] = p2 /\ w[3] = p3 /\ w[4] = p4
      /\ w[5] = p5 /\ w[6] = p6 /\ w[7] = p7 /\ w[8] = p8
  OBVIOUS
<1> HIDE DEF w
<1>4. \A i \in 1 .. Len(w) : i = 1 \/ i = 2 \/ i = 3 \/ i = 4 \/ i = 5 \/ i = 6 \/ i = 7 \/ i = 8
  BY <1>2
<1>5. Once(w)
  BY <1>1, <1>2, <1>3, <1>4 DEF Once
<1>6. InOrder(w)
  BY <1>1, <1>2, <1>3, <1>4 DEF InOrder, Order
<1>7. \A i \in 1 .. Len(w) : FitsField(w[i][1], w[i][2])
  BY <1>1, <1>3, <1>4
<1>8. Proper(w)
  BY <1>2, <1>5, <1>6, <1>7 DEF Proper, Assignments, S
<1> QED BY <1>8 DEF w, p1, p2, p3, p4, p5, p6, p7, p8

----------------------------------------------------------------------------
(* What the other replies make the parsers assign.                          *)

LEMMA GarbageWrites ==
  ASSUME NEW cmd \in DOMAIN Lut, Lut[cmd].fn # "rated_info"
  PROVE  Writes(cmd, Garbage) = <<>>
<1> DEFINE fn == Lut[cmd].fn
           out == Lut[cmd].out
<1>1. \A scale, lo, hi : ~Parses(Garbage, scale, lo, hi)
  BY GarbageRefused
<1>2. Garbage.clean = FALSE
  BY DEF Garbage
<1>3. CASE fn \in {"voltage", "frequency"}
  BY <1>1, <1>3 DEF Writes, Unsigned, When
<1>4. CASE fn = "ac_current"
  BY <1>1, <1>4 DEF Writes, AcCurrent, When
<1>5. CASE fn = "bat_current"
  BY <1>1, <1>5 DEF Writes, BatCurrent, When
<1>6. CASE fn = "percent_load"
  BY <1>1, <1>6 DEF Writes, PercentLoad, When
<1>7. CASE fn = "runtime"
  BY <1>1, <1>7 DEF Writes, Runtime, When
<1>8. CASE fn = "temperature"
  BY <1>1, <1>8 DEF Writes, Temperature, When
<1>9. CASE fn = "remaining_capacity"
  BY <1>1, <1>9 DEF Writes, Capacity, When
<1>10. CASE fn = "manufacturer_date"
  BY <1>2, <1>10 DEF Writes, Date, When
<1>11. CASE fn = "status_flags"
  BY <1>2, <1>11 DEF Writes, StatusFlags, When
<1>12. CASE fn = "ac_present"
  BY <1>2, <1>12 DEF Writes, AcPresent, When
<1> QED BY <1>3, <1>4, <1>5, <1>6, <1>7, <1>8, <1>9, <1>10, <1>11, <1>12, Items

LEMMA MainsWrites ==
  ASSUME NEW cmd \in DOMAIN Lut, Lut[cmd].fn = "ac_present", NEW b \in BOOLEAN
  PROVE  /\ Writes(cmd, [clean |-> TRUE, present |-> b]) = <<<<"ac_present", b>>>>
         /\ Proper(<<<<"ac_present", b>>>>)
<1>1. Lut[cmd].out = "ac_present"
  BY Items
<1>2. Writes(cmd, [clean |-> TRUE, present |-> b])
        = AcPresent("ac_present", [clean |-> TRUE, present |-> b])
  BY <1>1 DEF Writes
<1>3. FitsField("ac_present", b)
  BY FlagFits DEF Flags
<1> QED BY <1>2, <1>3, ProperOne DEF AcPresent, When, Assign

LEMMA DateWrites ==
  ASSUME NEW cmd \in DOMAIN Lut, Lut[cmd].fn = "manufacturer_date",
         NEW year \in Nat, year <= 99, NEW month \in Nat, NEW day \in Nat
  PROVE  LET w == Writes(cmd, [year |-> year, month |-> month, day |-> day, clean |-> TRUE])
         IN  \/ w = <<>>
             \/ \E v \in 0 .. U16Max : w = <<<<"manufacturer_date", v>>>>
<1> DEFINE date == [year |-> year, month |-> month, day |-> day, clean |-> TRUE]
           v == 512 * (20 + year) + 32 * month + day
<1>1. Lut[cmd].out = "manufacturer_date"
  BY Items
<1>2. Writes(cmd, date) = Date("manufacturer_date", date)
  BY <1>1 DEF Writes
<1>3. Date("manufacturer_date", date) =
        When(month \in 1 .. 12 /\ day \in 1 .. 31, <<<<"manufacturer_date", v>>>>)
  BY DEF Date, Assign
<1>4. CASE month \in 1 .. 12 /\ day \in 1 .. 31
  <2>1. v \in 0 .. U16Max
    BY <1>4, Widths
  <2>2. Writes(cmd, date) = <<<<"manufacturer_date", v>>>>
    BY <1>2, <1>3, <1>4 DEF When
  <2> HIDE DEF v, date
  <2>3. \E u \in 0 .. U16Max : Writes(cmd, date) = <<<<"manufacturer_date", u>>>>
    BY <2>1, <2>2
  <2> QED BY <2>3 DEF date
<1>5. CASE ~(month \in 1 .. 12 /\ day \in 1 .. 31)
  BY <1>2, <1>3, <1>5 DEF When
<1> QED BY <1>4, <1>5

\* One element more.
LEMMA JoinedOne ==
  ASSUME NEW S, NEW s \in Seq(S), NEW e \in S
  PROVE  /\ s \o <<e>> \in Seq(S) /\ Len(s \o <<e>>) = Len(s) + 1
         /\ \A i \in 1 .. Len(s) : (s \o <<e>>)[i] = s[i]
         /\ (s \o <<e>>)[Len(s) + 1] = e
<1> DEFINE t == <<e>>
<1>1. t \in Seq(S) /\ Len(t) = 1 /\ t[1] = e
  OBVIOUS
<1> HIDE DEF t
<1>2. /\ s \o t \in Seq(S) /\ Len(s \o t) = Len(s) + Len(t)
      /\ \A i \in 1 .. Len(s) + Len(t) :
           (s \o t)[i] = IF i <= Len(s) THEN s[i] ELSE t[i - Len(s)]
  BY <1>1, ConcatProperties, Zenon
<1>3. Len(s) \in Nat
  OBVIOUS
<1>4. /\ s \o t \in Seq(S) /\ Len(s \o t) = Len(s) + 1
      /\ \A i \in 1 .. Len(s) : (s \o t)[i] = s[i]
      /\ (s \o t)[Len(s) + 1] = e
  BY <1>1, <1>2, <1>3
<1> QED BY <1>4 DEF t

LEMMA JoinedTwo ==
  ASSUME NEW p, NEW q
  PROVE  <<p>> \o <<q>> = <<p, q>>
<1> DEFINE S == {p, q}
           s == <<p>>
           u == <<p, q>>
<1>1. /\ s \in Seq(S) /\ q \in S /\ Len(s) = 1 /\ s[1] = p
      /\ u \in Seq(S) /\ Len(u) = 2 /\ u[1] = p /\ u[2] = q
  OBVIOUS
<1> HIDE DEF S, s, u
<1>2. /\ s \o <<q>> \in Seq(S) /\ Len(s \o <<q>>) = Len(s) + 1
      /\ \A i \in 1 .. Len(s) : (s \o <<q>>)[i] = s[i]
      /\ (s \o <<q>>)[Len(s) + 1] = q
  BY <1>1, JoinedOne
<1> DEFINE r == s \o <<q>>
<1>3. r \in Seq(S) /\ Len(r) = 2 /\ r[1] = p /\ r[2] = q
  BY <1>1, <1>2
<1> HIDE DEF r
<1>4. r = u
  BY <1>1, <1>3, SeqEqual
<1> QED BY <1>4 DEF r, s, u

LEMMA JoinedFlags ==
  ASSUME NEW p1, NEW p2, NEW p3, NEW p4, NEW p5, NEW p6, NEW p7, NEW p8
  PROVE  <<p1, p2, p3, p4>> \o (<<p5>> \o <<p6>>) \o <<p7>> \o <<p8>>
           = <<p1, p2, p3, p4, p5, p6, p7, p8>>
<1> DEFINE S == {p1, p2, p3, p4, p5, p6, p7, p8}
           a == <<p1, p2, p3, p4>>
           b == <<p5, p6>>
           u == <<p1, p2, p3, p4, p5, p6, p7, p8>>
<1>1. /\ a \in Seq(S) /\ Len(a) = 4
      /\ a[1] = p1 /\ a[2] = p2 /\ a[3] = p3 /\ a[4] = p4
  OBVIOUS
<1>2. b \in Seq(S) /\ Len(b) = 2 /\ b[1] = p5 /\ b[2] = p6
  OBVIOUS
<1>3. /\ u \in Seq(S) /\ Len(u) = 8
      /\ u[1] = p1 /\ u[2] = p2 /\ u[3] = p3 /\ u[4] = p4
      /\ u[5] = p5 /\ u[6] = p6 /\ u[7] = p7 /\ u[8] = p8
  OBVIOUS
<1>4. p7 \in S /\ p8 \in S
  OBVIOUS
<1>5. <<p5>> \o <<p6>> = b
  BY JoinedTwo
<1> HIDE DEF S, a, b, u
<1> DEFINE ab == a \o b
<1>6. /\ ab \in Seq(S) /\ Len(ab) = 6
      /\ ab[1] = p1 /\ ab[2] = p2 /\ ab[3] = p3 /\ ab[4] = p4 /\ ab[5] = p5 /\ ab[6] = p6
  <2>1. a \in Seq(S) /\ b \in Seq(S)
    BY <1>1, <1>2
  <2>2. /\ ab \in Seq(S) /\ Len(ab) = Len(a) + Len(b)
        /\ \A i \in 1 .. Len(a) + Len(b) :
             ab[i] = IF i <= Len(a) THEN a[i] ELSE b[i - Len(a)]
    BY <2>1, ConcatProperties, Zenon
  <2> QED BY <2>2, <1>1, <1>2
<1> HIDE DEF ab
<1> DEFINE abc == ab \o <<p7>>
<1>7. /\ abc \in Seq(S) /\ Len(abc) = 7
      /\ abc[1] = p1 /\ abc[2] = p2 /\ abc[3] = p3 /\ abc[4] = p4 /\ abc[5] = p5
      /\ abc[6] = p6 /\ abc[7] = p7
  <2>1. /\ abc \in Seq(S) /\ Len(abc) = Len(ab) + 1
        /\ \A i \in 1 .. Len(ab) : abc[i] = ab[i]
        /\ abc[Len(ab) + 1] = p7
    <3>1. ab \in Seq(S) /\ p7 \in S
      BY <1>4, <1>6
    <3> QED BY <3>1, JoinedOne
  <2> HIDE DEF abc
  <2> QED BY <2>1, <1>6
<1> HIDE DEF abc
<1> DEFINE all == abc \o <<p8>>
<1>8. /\ all \in Seq(S) /\ Len(all) = 8
      /\ all[1] = p1 /\ all[2] = p2 /\ all[3] = p3 /\ all[4] = p4 /\ all[5] = p5
      /\ all[6] = p6 /\ all[7] = p7 /\ all[8] = p8
  <2>1. /\ all \in Seq(S) /\ Len(all) = Len(abc) + 1
        /\ \A i \in 1 .. Len(abc) : all[i] = abc[i]
        /\ all[Len(abc) + 1] = p8
    <3>1. abc \in Seq(S) /\ p8 \in S
      BY <1>4, <1>7
    <3> QED BY <3>1, JoinedOne
  <2> HIDE DEF all
  <2> QED BY <2>1, <1>7
<1> HIDE DEF all
<1>9. ASSUME NEW i \in 1 .. 8 PROVE all[i] = u[i]
  <2>1. i = 1 \/ i = 2 \/ i = 3 \/ i = 4 \/ i = 5 \/ i = 6 \/ i = 7 \/ i = 8
    OBVIOUS
  <2> QED BY <2>1, <1>3, <1>8
<1>10. all = u
  <2>1. Len(all) = Len(u) /\ \A i \in 1 .. Len(all) : all[i] = u[i]
    BY <1>3, <1>8, <1>9
  <2> QED BY <1>3, <1>8, <2>1, SeqEqual
<1> QED BY <1>5, <1>10 DEF all, abc, ab, a, b, u

LEMMA FlagWrites ==
  ASSUME NEW cmd \in DOMAIN Lut, Lut[cmd].fn = "status_flags", NEW flags
  PROVE  LET fed == "on_line" \in flags /\ "on_battery" \notin flags
         IN  Writes(cmd, [clean |-> TRUE, flags |-> flags]) =
               << <<"ac_present", fed>>,
                  <<"charging", fed /\ g.remaining_capacity < 100>>,
                  <<"discharging", "on_battery" \in flags>>,
                  <<"overload", "overload" \in flags>>,
                  <<"below_remaining_capacity_limit", "low" \in flags>>,
                  <<"shutdown_imminent", "low" \in flags>>,
                  <<"need_replacement", "replace" \in flags>>,
                  <<"battery_present", TRUE>> >>
<1> DEFINE reply == [clean |-> TRUE, flags |-> flags]
           fed == "on_line" \in flags /\ "on_battery" \notin flags
           p1 == <<"ac_present", fed>>
           p2 == <<"charging", fed /\ g.remaining_capacity < 100>>
           p3 == <<"discharging", "on_battery" \in flags>>
           p4 == <<"overload", "overload" \in flags>>
           p5 == <<"below_remaining_capacity_limit", "low" \in flags>>
           p6 == <<"shutdown_imminent", "low" \in flags>>
           p7 == <<"need_replacement", "replace" \in flags>>
           p8 == <<"battery_present", TRUE>>
<1>1. reply.clean = TRUE /\ reply.flags = flags
  OBVIOUS
<1>2. Writes(cmd, reply) = StatusFlags(reply, g.remaining_capacity)
  BY DEF Writes
<1> HIDE DEF reply
<1>3. PowerFlags(reply, g.remaining_capacity) = <<p1, p2, p3, p4>>
  BY <1>1 DEF PowerFlags
<1>4. LowFlags(reply) = <<p5>> \o <<p6>>
  BY <1>1 DEF LowFlags, Assign
<1>5. ReplaceFlag(reply) = <<p7>> /\ Assign("battery_present", TRUE) = <<p8>>
  BY <1>1 DEF ReplaceFlag, Assign
<1> HIDE DEF p1, p2, p3, p4, p5, p6, p7, p8
<1>6. StatusFlags(reply, g.remaining_capacity) =
        <<p1, p2, p3, p4>> \o (<<p5>> \o <<p6>>) \o <<p7>> \o <<p8>>
  BY <1>1, <1>3, <1>4, <1>5 DEF StatusFlags, When
<1>7. Writes(cmd, reply) = <<p1, p2, p3, p4, p5, p6, p7, p8>>
  <2>1. <<p1, p2, p3, p4>> \o (<<p5>> \o <<p6>>) \o <<p7>> \o <<p8>>
          = <<p1, p2, p3, p4, p5, p6, p7, p8>>
    BY JoinedFlags, SMT
  <2> QED BY <1>2, <1>6, <2>1, Zenon
<1> QED BY <1>7 DEF p1, p2, p3, p4, p5, p6, p7, p8, reply

\* The list of ratings is stored whole or not at all.
LEMMA RatingWrites ==
  ASSUME NEW cmd \in DOMAIN Lut, Lut[cmd].fn = "rated_info",
         NEW power \in Int, NEW volts \in Int, NEW broken \in 0 .. 6, NEW length \in 5 .. 6
  PROVE  LET csv == [i \in 1 .. length |->
                       IF i = broken THEN Garbage
                       ELSE IF i = 1 THEN Says(power) ELSE Says(volts)]
             heard == /\ length = 6 /\ broken \in {0, 4, 5}
                      /\ Holds("config_active_power", power)
                      /\ Holds("input_config_voltage", volts)
         IN  /\ ~heard => Writes(cmd, csv) = <<>>
             /\ heard => /\ Writes(cmd, csv) =
                              << <<"config_active_power", CDiv(power, 100)>>,
                                 <<"input_config_voltage", volts>>,
                                 <<"output_config_voltage", volts>>,
                                 <<"battery_config_voltage", volts>> >>
                         /\ CDiv(power, 100) \in 0 .. U16Max
                         /\ volts \in 0 .. U16Max
<1> DEFINE csv == [i \in 1 .. length |->
                     IF i = broken THEN Garbage
                     ELSE IF i = 1 THEN Says(power) ELSE Says(volts)]
<1>1. Writes(cmd, csv) = RatedInfo(csv)
  BY DEF Writes
<1>2. Holds("config_active_power", power) <=> CDiv(power, 100) \in 0 .. U16Max
  <2>1. Holds("config_active_power", power) <=> power > -100 /\ power \div 100 <= U16Max
    BY DEF Holds, Shorts
  <2> QED BY <2>1, Widths DEF CDiv
<1>3. Holds("input_config_voltage", volts) <=> volts \in 0 .. U16Max
  BY DEF Holds, Shorts
<1>4. Parses(Says(power), 1, 0, U16Max) <=> CDiv(power, 100) \in 0 .. U16Max
  <2>1. CDiv(power, 100) \in Int
    BY DEF CDiv
  <2> QED BY <2>1, ParsesSays, Widths
<1>5. Parses(Says(volts), 100, 0, U16Max) <=> volts \in 0 .. U16Max
  BY ParsesSays, Widths
<1>6. \A scale, lo, hi : ~Parses(Garbage, scale, lo, hi)
  BY GarbageRefused
<1>7. Len(csv) = length
  OBVIOUS
<1>8. \A i \in 1 .. length :
        csv[i] = IF i = broken THEN Garbage
                 ELSE IF i = 1 THEN Says(power) ELSE Says(volts)
  OBVIOUS
<1> HIDE DEF csv
<1> DEFINE whole == /\ Len(csv) >= 6
                    /\ Parses(csv[1], 1, 0, U16Max)
                    /\ \A i \in {2, 3, 6} : Parses(csv[i], 100, 0, U16Max)
           list == << <<"config_active_power", Scaled(csv[1], 1)>>,
                      <<"input_config_voltage", Scaled(csv[2], 100)>>,
                      <<"output_config_voltage", Scaled(csv[3], 100)>>,
                      <<"battery_config_voltage", Scaled(csv[6], 100)>> >>
<1>9. RatedInfo(csv) = When(whole, list)
  BY DEF RatedInfo
<1>10. CASE length = 6 /\ broken \in {0, 4, 5}
  <2>1. /\ csv[1] = Says(power) /\ csv[2] = Says(volts) /\ csv[3] = Says(volts)
        /\ csv[6] = Says(volts)
    BY <1>8, <1>10
  <2>2. whole <=> CDiv(power, 100) \in 0 .. U16Max /\ volts \in 0 .. U16Max
    BY <2>1, <1>4, <1>5, <1>7, <1>10
  <2>3. list = << <<"config_active_power", CDiv(power, 100)>>,
                  <<"input_config_voltage", volts>>,
                  <<"output_config_voltage", volts>>,
                  <<"battery_config_voltage", volts>> >>
    BY <2>1, ScaledSays
  <2> HIDE DEF whole, list
  <2> QED BY <1>1, <1>2, <1>3, <1>9, <1>10, <2>2, <2>3 DEF When, csv
<1>11. CASE ~(length = 6 /\ broken \in {0, 4, 5})
  <2>1. ~whole
    <3>1. CASE length = 5
      BY <3>1, <1>7
    <3>2. CASE length = 6 /\ broken = 1
      <4>1. csv[1] = Garbage
        BY <1>8, <3>2
      <4> QED BY <4>1, <1>6
    <3>3. CASE length = 6 /\ broken \in {2, 3, 6}
      <4>1. csv[broken] = Garbage
        BY <1>8, <3>3
      <4> QED BY <4>1, <1>6, <3>3
    <3> QED BY <3>1, <3>2, <3>3, <1>11
  <2> HIDE DEF whole, list
  <2> QED BY <1>1, <1>9, <1>11, <2>1 DEF When, csv
<1> QED BY <1>10, <1>11

----------------------------------------------------------------------------
(* What the fields become.                                                  *)

LEMMA SaysAssigned ==
  ASSUME NEW cmd \in DOMAIN Lut, Lut[cmd].out \in Measured, NEW a \in Int, NEW w,
         FitsField(Lut[cmd].out, Conversion(Lut[cmd].out, a)), Assigned(cmd, a, w),
         NEW h, DOMAIN h = Fields
  PROVE  /\ Proper(w)
         /\ Applied(h, w)[Lut[cmd].out] = Conversion(Lut[cmd].out, a)
         /\ \A f \in Fields \ {Lut[cmd].out, "charging", "discharging", "fully_charged"} :
              /\ Applied(h, w)[f] = h[f]
              /\ \A i \in 1 .. Len(w) : w[i][1] # f
         /\ Lut[cmd].fn = "bat_current" /\ a < 0 =>
              ~Applied(h, w)["charging"] /\ Applied(h, w)["discharging"]
         /\ Lut[cmd].fn = "bat_current" /\ a > 0 =>
              Applied(h, w)["charging"] /\ ~Applied(h, w)["discharging"]
         /\ ~(Lut[cmd].fn = "bat_current" /\ a # 0) =>
              /\ Applied(h, w)["charging"] = h["charging"]
              /\ Applied(h, w)["discharging"] = h["discharging"]
<1> DEFINE fn == Lut[cmd].fn
           out == Lut[cmd].out
           v == Conversion(out, a)
<1>1. out \in Numbers /\ out \in Fields /\ out \notin Flags
  BY DEF Measured, Numbers, Fields, Words, Shorts, Bytes, Flags
<1>2. "charging" \in Flags /\ "discharging" \in Flags /\ "fully_charged" \in Flags
  BY DEF Flags
<1>3. Flags \subseteq Fields
  BY DEF Fields
<1>4. CASE w = <<<<out, v>>>> /\ ~(fn = "bat_current" /\ a # 0)
  <2>1. Proper(w)
    BY <1>4, ProperOne
  <2>2. Len(w) = 1 /\ w[1][1] = out /\ w[1][2] = v
    BY <1>4
  <2>3. Applied(h, w)[out] = v
    BY <1>1, <2>1, <2>2, AppliedTo DEF Proper
  <2>4. ASSUME NEW f \in Fields \ {out}
        PROVE  Applied(h, w)[f] = h[f] /\ \A i \in 1 .. Len(w) : w[i][1] # f
    BY <2>2, AppliedElse
  <2> QED BY <1>1, <1>2, <1>3, <1>4, <2>1, <2>3, <2>4
<1>5. CASE /\ fn = "remaining_capacity"
           /\ w = << <<out, v>>, <<"fully_charged", v >= 100>> >>
  <2>1. Proper(w)
    <3>1. FitsField("fully_charged", v >= 100)
      <4>1. (v >= 100) \in BOOLEAN
        OBVIOUS
      <4> QED BY <4>1, <1>2, FlagFits, Zenon
    <3>2. <<out, "fully_charged">> \notin Order /\ <<"fully_charged", out>> \notin Order
      BY DEF Order
    <3> QED BY <1>1, <1>2, <1>5, <3>1, <3>2, ProperTwo
  <2>2. /\ Len(w) = 2 /\ w[1][1] = out /\ w[1][2] = v
        /\ w[2][1] = "fully_charged"
    BY <1>5
  <2>3. Applied(h, w)[out] = v
    BY <1>1, <2>1, <2>2, AppliedTo DEF Proper
  <2>4. ASSUME NEW f \in Fields \ {out, "fully_charged"}
        PROVE  Applied(h, w)[f] = h[f] /\ \A i \in 1 .. Len(w) : w[i][1] # f
    <3>1. \A i \in 1 .. Len(w) : i = 1 \/ i = 2
      BY <2>2
    <3> QED BY <2>2, <3>1, AppliedElse
  <2> QED BY <1>1, <1>2, <1>3, <1>5, <2>1, <2>3, <2>4
<1>6. ASSUME NEW b1 \in BOOLEAN, NEW b2 \in BOOLEAN, fn = "bat_current",
             w = << <<out, v>>, <<"charging", b1>>, <<"discharging", b2>> >>
      PROVE  /\ Proper(w)
             /\ Applied(h, w)[out] = v
             /\ \A f \in Fields \ {out, "charging", "discharging", "fully_charged"} :
                  /\ Applied(h, w)[f] = h[f]
                  /\ \A i \in 1 .. Len(w) : w[i][1] # f
             /\ Applied(h, w)["charging"] = b1
             /\ Applied(h, w)["discharging"] = b2
  <2>1. Proper(w)
    <3>1. out = "battery_current"
      BY <1>6, Items
    <3> QED BY <1>6, <3>1, ProperCurrent
  <2>2. Len(w) = 3
    BY <1>6
  <2>3. /\ w[1][1] = out /\ w[1][2] = v /\ w[2][1] = "charging" /\ w[2][2] = b1
        /\ w[3][1] = "discharging" /\ w[3][2] = b2
    BY <1>6
  <2>4. Applied(h, w)[out] = v
    BY <1>1, <2>1, <2>2, <2>3, AppliedTo DEF Proper
  <2>5. Applied(h, w)["charging"] = b1
    BY <1>2, <1>3, <2>1, <2>2, <2>3, AppliedTo DEF Proper
  <2>6. Applied(h, w)["discharging"] = b2
    BY <1>2, <1>3, <2>1, <2>2, <2>3, AppliedTo DEF Proper
  <2>7. ASSUME NEW f \in Fields \ {out, "charging", "discharging"}
        PROVE  Applied(h, w)[f] = h[f] /\ \A i \in 1 .. Len(w) : w[i][1] # f
    <3>1. \A i \in 1 .. Len(w) : i = 1 \/ i = 2 \/ i = 3
      BY <2>2
    <3> QED BY <2>3, <3>1, AppliedElse
  <2> QED BY <2>1, <2>4, <2>5, <2>6, <2>7
<1>7. CASE /\ fn = "bat_current" /\ a < 0
           /\ w = << <<out, v>>, <<"charging", FALSE>>, <<"discharging", TRUE>> >>
  <2>1. /\ Proper(w)
        /\ Applied(h, w)[out] = v
        /\ \A f \in Fields \ {out, "charging", "discharging", "fully_charged"} :
             /\ Applied(h, w)[f] = h[f]
             /\ \A i \in 1 .. Len(w) : w[i][1] # f
        /\ Applied(h, w)["charging"] = FALSE
        /\ Applied(h, w)["discharging"] = TRUE
    BY <1>7, <1>6, Zenon
  <2>2. ~(a > 0) /\ a # 0
    BY <1>7
  <2> QED BY <1>7, <2>1, <2>2, Zenon
<1>8. CASE /\ fn = "bat_current" /\ a > 0
           /\ w = << <<out, v>>, <<"charging", TRUE>>, <<"discharging", FALSE>> >>
  <2>1. /\ Proper(w)
        /\ Applied(h, w)[out] = v
        /\ \A f \in Fields \ {out, "charging", "discharging", "fully_charged"} :
             /\ Applied(h, w)[f] = h[f]
             /\ \A i \in 1 .. Len(w) : w[i][1] # f
        /\ Applied(h, w)["charging"] = TRUE
        /\ Applied(h, w)["discharging"] = FALSE
    BY <1>8, <1>6, Zenon
  <2>2. ~(a < 0) /\ a # 0
    BY <1>8
  <2> QED BY <1>8, <2>1, <2>2, Zenon
<1> QED BY <1>4, <1>5, <1>7, <1>8 DEF Assigned

LEMMA AmountAssigned ==
  ASSUME NEW cmd \in DOMAIN Lut, Lut[cmd].out \in Measured, NEW a \in Int, NEW w,
         FitsField(Lut[cmd].out, Conversion(Lut[cmd].out, a)), Assigned(cmd, a, w),
         NEW h, DOMAIN h = Fields
  PROVE  /\ Applied(h, w)[Lut[cmd].out] = Conversion(Lut[cmd].out, a)
         /\ \A f \in Fields \ {Lut[cmd].out, "charging", "discharging", "fully_charged"} :
              Applied(h, w)[f] = h[f]
BY SaysAssigned

LEMMA StatusAssigned ==
  ASSUME NEW b1, NEW b2, NEW b3, NEW b4, NEW b5, NEW b6, NEW b7, NEW b8,
         {b1, b2, b3, b4, b5, b6, b7, b8} \subseteq BOOLEAN,
         NEW h, DOMAIN h = Fields
  PROVE  LET w == << <<"ac_present", b1>>,
                    <<"charging", b2>>,
                    <<"discharging", b3>>,
                    <<"overload", b4>>,
                    <<"below_remaining_capacity_limit", b5>>,
                    <<"shutdown_imminent", b6>>,
                    <<"need_replacement", b7>>,
                    <<"battery_present", b8>> >>
         IN  /\ Proper(w)
             /\ Applied(h, w)["ac_present"] = b1
             /\ Applied(h, w)["charging"] = b2
             /\ Applied(h, w)["discharging"] = b3
             /\ Applied(h, w)["below_remaining_capacity_limit"] = b5
             /\ Applied(h, w)["shutdown_imminent"] = b6
             /\ Applied(h, w)["need_replacement"] = b7
             /\ \A f \in Numbers : /\ Applied(h, w)[f] = h[f]
                                 /\ \A i \in 1 .. Len(w) : w[i][1] # f
<1> DEFINE w == << <<"ac_present", b1>>,
                  <<"charging", b2>>,
                  <<"discharging", b3>>,
                  <<"overload", b4>>,
                  <<"below_remaining_capacity_limit", b5>>,
                  <<"shutdown_imminent", b6>>,
                  <<"need_replacement", b7>>,
                  <<"battery_present", b8>> >>
<1>1. Proper(w)
  BY ProperStatus
<1>2. Len(w) = 8
  OBVIOUS
<1>3. /\ w[1][1] = "ac_present" /\ w[1][2] = b1
      /\ w[2][1] = "charging" /\ w[2][2] = b2
      /\ w[3][1] = "discharging" /\ w[3][2] = b3
      /\ w[4][1] = "overload" /\ w[4][2] = b4
      /\ w[5][1] = "below_remaining_capacity_limit" /\ w[5][2] = b5
      /\ w[6][1] = "shutdown_imminent" /\ w[6][2] = b6
      /\ w[7][1] = "need_replacement" /\ w[7][2] = b7
      /\ w[8][1] = "battery_present" /\ w[8][2] = b8
  OBVIOUS
<1>4. \A i \in 1 .. Len(w) : i = 1 \/ i = 2 \/ i = 3 \/ i = 4 \/ i = 5 \/ i = 6 \/ i = 7 \/ i = 8
  BY <1>2
<1>5. /\ 1 \in 1 .. Len(w) /\ 2 \in 1 .. Len(w) /\ 3 \in 1 .. Len(w)
      /\ 5 \in 1 .. Len(w) /\ 6 \in 1 .. Len(w) /\ 7 \in 1 .. Len(w)
  BY <1>2
<1>6. Flags \subseteq Fields /\ Numbers \subseteq Fields
  BY DEF Fields
<1> HIDE DEF w
<1>7. Once(w)
  BY <1>1 DEF Proper
<1>8. Applied(h, w)["ac_present"] = b1
  <2>1. "ac_present" \in DOMAIN h
    BY <1>6 DEF Flags
  <2> QED BY <2>1, <1>3, <1>5, <1>7, AppliedTo
<1>9. Applied(h, w)["charging"] = b2
  <2>1. "charging" \in DOMAIN h
    BY <1>6 DEF Flags
  <2> QED BY <2>1, <1>3, <1>5, <1>7, AppliedTo
<1>10. Applied(h, w)["discharging"] = b3
  <2>1. "discharging" \in DOMAIN h
    BY <1>6 DEF Flags
  <2> QED BY <2>1, <1>3, <1>5, <1>7, AppliedTo
<1>11. Applied(h, w)["below_remaining_capacity_limit"] = b5
  <2>1. "below_remaining_capacity_limit" \in DOMAIN h
    BY <1>6 DEF Flags
  <2> QED BY <2>1, <1>3, <1>5, <1>7, AppliedTo
<1>12. Applied(h, w)["shutdown_imminent"] = b6
  <2>1. "shutdown_imminent" \in DOMAIN h
    BY <1>6 DEF Flags
  <2> QED BY <2>1, <1>3, <1>5, <1>7, AppliedTo
<1>13. Applied(h, w)["need_replacement"] = b7
  <2>1. "need_replacement" \in DOMAIN h
    BY <1>6 DEF Flags
  <2> QED BY <2>1, <1>3, <1>5, <1>7, AppliedTo
<1>14. ASSUME NEW f \in Numbers
      PROVE  Applied(h, w)[f] = h[f] /\ \A i \in 1 .. Len(w) : w[i][1] # f
  <2>1. \A i \in 1 .. Len(w) : w[i][1] \in Flags
    BY <1>3, <1>4 DEF Flags
  <2>2. f \notin Flags
    BY DEF Numbers, Words, Shorts, Bytes, Flags
  <2>3. \A i \in 1 .. Len(w) : w[i][1] # f
    BY <2>1, <2>2
  <2> QED BY <2>3, <1>6, AppliedElse
<1> QED BY <1>1, <1>8, <1>9, <1>10, <1>11, <1>12, <1>13, <1>14 DEF w

LEMMA RatingsAssigned ==
  ASSUME NEW a1, NEW a2, NEW a3, NEW a4,
         {a1, a2, a3, a4} \subseteq 0 .. U16Max, NEW h, DOMAIN h = Fields
  PROVE  LET w == << <<"config_active_power", a1>>,
                    <<"input_config_voltage", a2>>,
                    <<"output_config_voltage", a3>>,
                    <<"battery_config_voltage", a4>> >>
         IN  /\ Proper(w)
             /\ Applied(h, w)["config_active_power"] = a1
             /\ Applied(h, w)["input_config_voltage"] = a2
             /\ Applied(h, w)["output_config_voltage"] = a3
             /\ Applied(h, w)["battery_config_voltage"] = a4
             /\ \A f \in Fields \ {"config_active_power", "input_config_voltage",
                                  "output_config_voltage", "battery_config_voltage"} :
                  /\ Applied(h, w)[f] = h[f]
                  /\ \A i \in 1 .. Len(w) : w[i][1] # f
<1> DEFINE w == << <<"config_active_power", a1>>,
                   <<"input_config_voltage", a2>>,
                   <<"output_config_voltage", a3>>,
                   <<"battery_config_voltage", a4>> >>
<1>1. Proper(w)
  BY ProperRatings
<1>2. Len(w) = 4
  OBVIOUS
<1>3. /\ w[1][1] = "config_active_power" /\ w[1][2] = a1
      /\ w[2][1] = "input_config_voltage" /\ w[2][2] = a2
      /\ w[3][1] = "output_config_voltage" /\ w[3][2] = a3
      /\ w[4][1] = "battery_config_voltage" /\ w[4][2] = a4
  OBVIOUS
<1>4. \A i \in 1 .. Len(w) : i = 1 \/ i = 2 \/ i = 3 \/ i = 4
  BY <1>2
<1>5. 1 \in 1 .. Len(w) /\ 2 \in 1 .. Len(w) /\ 3 \in 1 .. Len(w) /\ 4 \in 1 .. Len(w)
  BY <1>2
<1>6. Words \subseteq Fields
  BY DEF Fields, Numbers
<1> HIDE DEF w
<1>7. Once(w)
  BY <1>1 DEF Proper
<1>8. Applied(h, w)["config_active_power"] = a1
  <2>1. "config_active_power" \in DOMAIN h
    BY <1>6 DEF Words
  <2> QED BY <2>1, <1>3, <1>5, <1>7, AppliedTo
<1>9. Applied(h, w)["input_config_voltage"] = a2
  <2>1. "input_config_voltage" \in DOMAIN h
    BY <1>6 DEF Words
  <2> QED BY <2>1, <1>3, <1>5, <1>7, AppliedTo
<1>10. Applied(h, w)["output_config_voltage"] = a3
  <2>1. "output_config_voltage" \in DOMAIN h
    BY <1>6 DEF Words
  <2> QED BY <2>1, <1>3, <1>5, <1>7, AppliedTo
<1>11. Applied(h, w)["battery_config_voltage"] = a4
  <2>1. "battery_config_voltage" \in DOMAIN h
    BY <1>6 DEF Words
  <2> QED BY <2>1, <1>3, <1>5, <1>7, AppliedTo
<1>12. ASSUME NEW f \in Fields \ {"config_active_power", "input_config_voltage",
                              "output_config_voltage", "battery_config_voltage"}
      PROVE  Applied(h, w)[f] = h[f] /\ \A i \in 1 .. Len(w) : w[i][1] # f
  <2>1. \A i \in 1 .. Len(w) : w[i][1] # f
    BY <1>3, <1>4
  <2> QED BY <2>1, AppliedElse
<1> QED BY <1>1, <1>8, <1>9, <1>10, <1>11, <1>12 DEF w

LEMMA OneAssigned ==
  ASSUME NEW f \in Fields, NEW v, FitsField(f, v), NEW h, DOMAIN h = Fields
  PROVE  LET w == <<<<f, v>>>>
         IN  /\ Proper(w)
             /\ Applied(h, w)[f] = v
             /\ \A x \in Fields \ {f} : /\ Applied(h, w)[x] = h[x]
                                        /\ \A i \in 1 .. Len(w) : w[i][1] # x
<1> DEFINE w == <<<<f, v>>>>
<1>1. Proper(w)
  BY ProperOne
<1>2. Len(w) = 1 /\ w[1][1] = f /\ w[1][2] = v
  OBVIOUS
<1> HIDE DEF w
<1>3. Applied(h, w)[f] = v
  BY <1>1, <1>2, AppliedTo DEF Proper
<1>4. ASSUME NEW x \in Fields \ {f}
      PROVE  Applied(h, w)[x] = h[x] /\ \A i \in 1 .. Len(w) : w[i][1] # x
  BY <1>2, AppliedElse
<1> QED BY <1>1, <1>3, <1>4 DEF w

----------------------------------------------------------------------------
(* The types.                                                               *)

TypeInv ==
  /\ session \in Sessions
  /\ DOMAIN g = Fields /\ \A f \in Fields : FitsField(f, g[f])
  /\ DOMAIN before = Fields /\ \A f \in Fields : FitsField(f, before[f])
  /\ Proper(todo)
  /\ said \in [Numbers -> Int]

LEMMA AllowedCommands ==
  ASSUME session \in Sessions, NEW cmd \in session.commands
  PROVE  cmd \in DOMAIN Lut /\ session.amounts \subseteq Int
BY SessionsAssumption

\* What an amount does to the fields and to the histories.
LEMMA AmountSaid ==
  ASSUME TypeInv, NEW cmd \in session.commands, SaysAmount(cmd)
  PROVE  \E a \in Int :
           LET out == Lut[cmd].out
               heard == Holds(out, a)
           IN  /\ cmd \in DOMAIN Lut /\ out \in Measured
               /\ Callback(cmd, Says(a))
               /\ ~heard => todo' = <<>> /\ said' = said /\ drawn' = drawn
               /\ heard => /\ FitsField(out, Conversion(out, a))
                           /\ Assigned(cmd, a, todo')
                           /\ said' = [said EXCEPT ![out] = a]
                           /\ Lut[cmd].fn = "bat_current" /\ a # 0 => drawn' = (a < 0)
                           /\ ~(Lut[cmd].fn = "bat_current" /\ a # 0) => drawn' = drawn
               /\ raised' = raised /\ mains' = mains
<1> DEFINE out == Lut[cmd].out
<1>1. cmd \in DOMAIN Lut /\ session.amounts \subseteq Int
  BY AllowedCommands DEF TypeInv
<1>2. out \in Measured
  BY DEF SaysAmount, Measured
<1>3. PICK a \in session.amounts :
         /\ Callback(cmd, Says(a))
         /\ said' = IF Holds(out, a) THEN [said EXCEPT ![out] = a] ELSE said
         /\ drawn' = IF Holds(out, a) /\ Lut[cmd].fn = "bat_current" /\ a # 0
                     THEN a < 0 ELSE drawn
  BY DEF SaysAmount
<1>4. a \in Int
  BY <1>1
<1>5. todo' = Writes(cmd, Says(a))
  BY <1>3 DEF Callback
<1>6. /\ ~Holds(out, a) => todo' = <<>>
      /\ Holds(out, a) => /\ FitsField(out, Conversion(out, a))
                          /\ Assigned(cmd, a, todo')
  BY <1>1, <1>2, <1>4, <1>5, AmountWrites, Zenon
<1>7. raised' = raised /\ mains' = mains
  BY DEF SaysAmount
<1> QED BY <1>1, <1>2, <1>3, <1>4, <1>6, <1>7, Zenon

LEMMA RubbishSaid ==
  ASSUME TypeInv, NEW cmd \in session.commands, SaysRubbish(cmd)
  PROVE  /\ Callback(cmd, Garbage) /\ todo' = <<>>
         /\ UNCHANGED <<said, raised, mains, drawn>>
BY AllowedCommands, GarbageWrites DEF SaysRubbish, Callback, TypeInv

LEMMA RatingsSaid ==
  ASSUME TypeInv, NEW cmd \in session.commands, SaysRatings(cmd)
  PROVE  /\ todo = <<>> /\ g' = g /\ before' = g /\ session' = session
         /\ UNCHANGED <<raised, mains, drawn>>
         /\ \/ todo' = <<>> /\ said' = said
            \/ \E power \in Int, volts \in Int :
                 /\ Holds("config_active_power", power)
                 /\ Holds("input_config_voltage", volts)
                 /\ todo' = << <<"config_active_power", CDiv(power, 100)>>,
                               <<"input_config_voltage", volts>>,
                               <<"output_config_voltage", volts>>,
                               <<"battery_config_voltage", volts>> >>
                 /\ CDiv(power, 100) \in 0 .. U16Max
                 /\ volts \in 0 .. U16Max
                 /\ said' = [said EXCEPT !["config_active_power"] = power,
                                         !["input_config_voltage"] = volts,
                                         !["output_config_voltage"] = volts,
                                         !["battery_config_voltage"] = volts]
<1>1. cmd \in DOMAIN Lut /\ session.amounts \subseteq Int
  BY AllowedCommands DEF TypeInv
<1>2. Lut[cmd].fn = "rated_info"
  BY DEF SaysRatings
<1> DEFINE List(power, volts, broken, length) ==
             [i \in 1 .. length |->
                IF i = broken THEN Garbage
                ELSE IF i = 1 THEN Says(power) ELSE Says(volts)]
           Heard(power, volts, broken, length) ==
             /\ length = 6 /\ broken \in {0, 4, 5}
             /\ Holds("config_active_power", power)
             /\ Holds("input_config_voltage", volts)
<1>3. PICK power \in session.amounts, volts \in session.amounts,
           broken \in 0 .. 6, length \in 5 .. 6 :
         /\ Callback(cmd, List(power, volts, broken, length))
         /\ said' = IF Heard(power, volts, broken, length)
                    THEN [said EXCEPT !["config_active_power"] = power,
                                      !["input_config_voltage"] = volts,
                                      !["output_config_voltage"] = volts,
                                      !["battery_config_voltage"] = volts]
                    ELSE said
  BY Zenon DEF SaysRatings
<1>4. power \in Int /\ volts \in Int
  BY <1>1
<1>5. /\ ~Heard(power, volts, broken, length) =>
           Writes(cmd, List(power, volts, broken, length)) = <<>>
      /\ Heard(power, volts, broken, length) =>
           /\ Writes(cmd, List(power, volts, broken, length)) =
                << <<"config_active_power", CDiv(power, 100)>>,
                   <<"input_config_voltage", volts>>,
                   <<"output_config_voltage", volts>>,
                   <<"battery_config_voltage", volts>> >>
           /\ CDiv(power, 100) \in 0 .. U16Max
           /\ volts \in 0 .. U16Max
  BY <1>1, <1>2, <1>4, RatingWrites, Zenon
<1> HIDE DEF List
<1>6. /\ todo = <<>> /\ g' = g /\ before' = g /\ session' = session
      /\ todo' = Writes(cmd, List(power, volts, broken, length))
  BY <1>3 DEF Callback
<1>7. UNCHANGED <<raised, mains, drawn>>
  BY DEF SaysRatings
<1> QED BY <1>3, <1>4, <1>5, <1>6, <1>7, Zenon

LEMMA DateSaid ==
  ASSUME TypeInv, NEW cmd \in session.commands, SaysDate(cmd)
  PROVE  /\ todo = <<>> /\ g' = g /\ before' = g /\ session' = session
         /\ UNCHANGED <<said, raised, mains, drawn>>
         /\ \/ todo' = <<>>
            \/ \E v \in 0 .. U16Max : todo' = <<<<"manufacturer_date", v>>>>
<1>1. cmd \in DOMAIN Lut
  BY AllowedCommands DEF TypeInv
<1>2. PICK year \in {0, 99}, month \in {0, 1, 12, 13}, day \in {0, 1, 31, 32} :
         Callback(cmd, [year |-> year, month |-> month, day |-> day, clean |-> TRUE])
  BY DEF SaysDate
<1>3. Lut[cmd].fn = "manufacturer_date" /\ UNCHANGED <<said, raised, mains, drawn>>
  BY DEF SaysDate
<1>4. year \in Nat /\ year <= 99 /\ month \in Nat /\ day \in Nat
  OBVIOUS
<1> DEFINE date == [year |-> year, month |-> month, day |-> day, clean |-> TRUE]
<1>5. \/ Writes(cmd, date) = <<>>
      \/ \E v \in 0 .. U16Max : Writes(cmd, date) = <<<<"manufacturer_date", v>>>>
  BY <1>1, <1>3, <1>4, DateWrites
<1> HIDE DEF date
<1>6. /\ todo = <<>> /\ g' = g /\ before' = g /\ session' = session
      /\ todo' = Writes(cmd, date)
  BY <1>2 DEF Callback, date
<1> QED BY <1>3, <1>5, <1>6

LEMMA FlagsSaid ==
  ASSUME TypeInv, NEW cmd \in session.commands, SaysFlags(cmd)
  PROVE  /\ todo = <<>> /\ g' = g /\ before' = g /\ session' = session /\ said' = said
         /\ mains' = ("on_line" \in raised' /\ "on_battery" \notin raised')
         /\ drawn' = ("on_battery" \in raised')
         /\ todo' = << <<"ac_present", mains'>>,
                       <<"charging", mains' /\ g.remaining_capacity < 100>>,
                       <<"discharging", drawn'>>,
                       <<"overload", "overload" \in raised'>>,
                       <<"below_remaining_capacity_limit", "low" \in raised'>>,
                       <<"shutdown_imminent", "low" \in raised'>>,
                       <<"need_replacement", "replace" \in raised'>>,
                       <<"battery_present", TRUE>> >>
<1>1. cmd \in DOMAIN Lut
  BY AllowedCommands DEF TypeInv
<1>2. Lut[cmd].fn = "status_flags" /\ said' = said
  BY DEF SaysFlags
<1>3. PICK flags \in session.flags :
         /\ Callback(cmd, [clean |-> TRUE, flags |-> flags])
         /\ raised' = flags
         /\ mains' = ("on_line" \in flags /\ "on_battery" \notin flags)
         /\ drawn' = ("on_battery" \in flags)
  BY DEF SaysFlags
<1>4. /\ todo = <<>> /\ g' = g /\ before' = g /\ session' = session
      /\ todo' = Writes(cmd, [clean |-> TRUE, flags |-> flags])
  BY <1>3 DEF Callback
<1> QED BY <1>1, <1>2, <1>3, <1>4, FlagWrites, Zenon

LEMMA MainsSaid ==
  ASSUME TypeInv, NEW cmd \in session.commands, SaysMains(cmd)
  PROVE  /\ todo = <<>> /\ g' = g /\ before' = g /\ session' = session
         /\ UNCHANGED <<said, raised, drawn>>
         /\ mains' \in BOOLEAN /\ todo' = <<<<"ac_present", mains'>>>>
<1>1. cmd \in DOMAIN Lut
  BY AllowedCommands DEF TypeInv
<1>2. PICK present \in BOOLEAN :
         Callback(cmd, [clean |-> TRUE, present |-> present]) /\ mains' = present
  BY DEF SaysMains
<1>3. Lut[cmd].fn = "ac_present" /\ UNCHANGED <<said, raised, drawn>>
  BY DEF SaysMains
<1>4. /\ todo = <<>> /\ g' = g /\ before' = g /\ session' = session
      /\ todo' = Writes(cmd, [clean |-> TRUE, present |-> present])
  BY <1>2 DEF Callback
<1> QED BY <1>1, <1>2, <1>3, <1>4, MainsWrites, Zenon

\* What a report of the flags does to the fields.
LEMMA FlagsSet ==
  ASSUME TypeInv, NEW cmd \in session.commands, SaysFlags(cmd)
  PROVE  /\ Proper(todo')
         /\ mains' \in BOOLEAN /\ drawn' \in BOOLEAN
         /\ Applied(g, todo')["ac_present"] = mains'
         /\ Applied(g, todo')["discharging"] = drawn'
         /\ Applied(g, todo')["charging"] = (mains' /\ g.remaining_capacity < 100)
         /\ Applied(g, todo')["below_remaining_capacity_limit"] = ("low" \in raised')
         /\ Applied(g, todo')["shutdown_imminent"] = ("low" \in raised')
         /\ Applied(g, todo')["need_replacement"] = ("replace" \in raised')
         /\ \A f \in Numbers : /\ Applied(g, todo')[f] = g[f]
                             /\ \A i \in 1 .. Len(todo') : todo'[i][1] # f
<1> DEFINE b1 == mains'
           b2 == mains' /\ g.remaining_capacity < 100
           b3 == drawn'
           b4 == "overload" \in raised'
           b5 == "low" \in raised'
           b7 == "replace" \in raised'
           b8 == TRUE
<1>1. todo' = << <<"ac_present", b1>>, <<"charging", b2>>, <<"discharging", b3>>,
                 <<"overload", b4>>, <<"below_remaining_capacity_limit", b5>>,
                 <<"shutdown_imminent", b5>>, <<"need_replacement", b7>>,
                 <<"battery_present", b8>> >>
  BY FlagsSaid, Zenon
<1>2. /\ mains' = ("on_line" \in raised' /\ "on_battery" \notin raised')
      /\ drawn' = ("on_battery" \in raised')
  BY FlagsSaid, Zenon
<1>3. b1 \in BOOLEAN /\ b3 \in BOOLEAN
  BY <1>2
<1>4. b2 \in BOOLEAN
  BY <1>3
<1>5. b4 \in BOOLEAN /\ b5 \in BOOLEAN /\ b7 \in BOOLEAN /\ b8 \in BOOLEAN
  OBVIOUS
<1> HIDE DEF b1, b2, b3, b4, b5, b7, b8
<1>6. {b1, b2, b3, b4, b5, b5, b7, b8} \subseteq BOOLEAN
  BY <1>3, <1>4, <1>5
<1>7. DOMAIN g = Fields
  BY DEF TypeInv
<1> DEFINE w == << <<"ac_present", b1>>, <<"charging", b2>>, <<"discharging", b3>>,
                  <<"overload", b4>>, <<"below_remaining_capacity_limit", b5>>,
                  <<"shutdown_imminent", b5>>, <<"need_replacement", b7>>,
                  <<"battery_present", b8>> >>
<1>8. /\ Proper(w)
      /\ Applied(g, w)["ac_present"] = b1
      /\ Applied(g, w)["charging"] = b2
      /\ Applied(g, w)["discharging"] = b3
      /\ Applied(g, w)["below_remaining_capacity_limit"] = b5
      /\ Applied(g, w)["shutdown_imminent"] = b5
      /\ Applied(g, w)["need_replacement"] = b7
      /\ \A f \in Numbers : /\ Applied(g, w)[f] = g[f]
                          /\ \A i \in 1 .. Len(w) : w[i][1] # f
  BY <1>6, <1>7, StatusAssigned
<1>9. todo' = w
  BY <1>1
<1> HIDE DEF w
<1> QED BY <1>3, <1>8, <1>9, Zenon DEF b1, b2, b3, b5, b7

LEMMA CallbackSets ==
  ASSUME TypeInv, todo = <<>>, g' = g, before' = g, session' = session,
         Proper(todo'), said' \in [Numbers -> Int]
  PROVE  TypeInv'
BY DEF TypeInv

LEMMA AssignmentMade ==
  ASSUME TypeInv, AssignNext
  PROVE  /\ TypeInv'
         /\ \A f \in Fields : Applied(g', todo')[f] = Applied(g, todo)[f]
<1>1. todo \in Assignments /\ todo # <<>> /\ Once(todo) /\ DOMAIN g = Fields
  BY DEF TypeInv, Proper, AssignNext
<1>2. /\ Len(todo) \in Nat \ {0} /\ Head(todo) = todo[1]
      /\ Tail(todo) \in Assignments
      /\ Len(Tail(todo)) = Len(todo) - 1
      /\ \A i \in 1 .. Len(Tail(todo)) : Tail(todo)[i] = todo[i + 1]
  BY <1>1, HeadTailProperties, EmptySeq DEF Assignments
<1>3. /\ g' = [g EXCEPT ![Head(todo)[1]] = Head(todo)[2]]
      /\ todo' = Tail(todo)
      /\ UNCHANGED <<session, before, said>>
  BY DEF AssignNext
<1>4. Once(todo')
  <2>1. "ac_present" \in Fields
    BY DEF Fields, Flags
  <2> QED BY <1>1, <1>3, <2>1, AppliedNext
<1>5. ASSUME NEW f \in Fields
      PROVE  Applied(g', todo')[f] = Applied(g, todo)[f]
  BY <1>1, <1>3, AppliedNext
<1>6. InOrder(todo')
  BY <1>2, <1>3 DEF TypeInv, Proper, InOrder
<1>7. \A i \in 1 .. Len(todo') : FitsField(todo'[i][1], todo'[i][2])
  BY <1>2, <1>3 DEF TypeInv, Proper
<1>8. DOMAIN g' = Fields /\ \A f \in Fields : FitsField(f, g'[f])
  <2>1. FitsField(Head(todo)[1], Head(todo)[2])
    BY <1>2 DEF TypeInv, Proper
  <2> QED BY <1>1, <1>3, <2>1 DEF TypeInv
<1>9. TypeInv'
  BY <1>2, <1>3, <1>4, <1>6, <1>7, <1>8 DEF TypeInv, Proper
<1> QED BY <1>5, <1>9

LEMMA TypeInit == Init => TypeInv
<1> SUFFICES ASSUME Init PROVE TypeInv
  OBVIOUS
<1>1. session \in Sessions /\ todo = <<>> /\ before = g /\ said \in [Numbers -> Int]
  BY DEF Init
<1>2. DOMAIN g = Fields
  BY DEF Init, Fields
<1>3. ASSUME NEW f \in Fields
      PROVE  FitsField(f, g[f])
  <2>1. CASE f \in Flags
    <3>1. g[f] = FALSE
      BY <2>1 DEF Init, Fields
    <3> QED BY <2>1, <3>1, FlagFits
  <2>2. CASE f \notin Flags
    <3>1. g[f] = 0
      BY <2>2 DEF Init, Fields
    <3> QED BY <2>2, <3>1, Widths DEF FitsField, Fields, Numbers
  <2> QED BY <2>1, <2>2
<1> QED BY <1>1, <1>2, <1>3, ProperNone DEF TypeInv

LEMMA TypeStep == TypeInv /\ [Next]_vars => TypeInv'
<1> SUFFICES ASSUME TypeInv, [Next]_vars
             PROVE  TypeInv'
  OBVIOUS
<1>1. CASE AssignNext
  BY <1>1, AssignmentMade
<1>2. ASSUME NEW cmd \in session.commands, SaysAmount(cmd)
      PROVE  TypeInv'
  <2>1. PICK a \in Int :
          LET out == Lut[cmd].out
              heard == Holds(out, a)
          IN  /\ cmd \in DOMAIN Lut /\ out \in Measured
              /\ Callback(cmd, Says(a))
              /\ ~heard => todo' = <<>> /\ said' = said
              /\ heard => /\ FitsField(out, Conversion(out, a))
                          /\ Assigned(cmd, a, todo')
                          /\ said' = [said EXCEPT ![out] = a]
    BY <1>2, AmountSaid
  <2>2. todo = <<>> /\ g' = g /\ before' = g /\ session' = session
    BY <2>1 DEF Callback
  <2>3. CASE Holds(Lut[cmd].out, a)
    <3>1. Proper(todo')
      BY <2>1, <2>3, SaysAssigned DEF TypeInv
    <3>2. said' \in [Numbers -> Int]
      BY <2>1, <2>3 DEF TypeInv
    <3> QED BY <2>2, <3>1, <3>2, CallbackSets
  <2>4. CASE ~Holds(Lut[cmd].out, a)
    <3>1. Proper(todo') /\ said' \in [Numbers -> Int]
      BY <2>1, <2>4, ProperNone DEF TypeInv
    <3> QED BY <2>2, <3>1, CallbackSets
  <2> QED BY <2>3, <2>4
<1>3. ASSUME NEW cmd \in session.commands, SaysRubbish(cmd)
      PROVE  TypeInv'
  <2>1. /\ todo = <<>> /\ g' = g /\ before' = g /\ session' = session
        /\ todo' = <<>> /\ said' = said
    BY <1>3, RubbishSaid DEF Callback
  <2> QED BY <2>1, ProperNone, CallbackSets DEF TypeInv
<1>4. ASSUME NEW cmd \in session.commands, SaysRatings(cmd)
      PROVE  TypeInv'
  <2>1. /\ todo = <<>> /\ g' = g /\ before' = g /\ session' = session
        /\ \/ todo' = <<>> /\ said' = said
           \/ \E power \in Int, volts \in Int :
                /\ todo' = << <<"config_active_power", CDiv(power, 100)>>,
                              <<"input_config_voltage", volts>>,
                              <<"output_config_voltage", volts>>,
                              <<"battery_config_voltage", volts>> >>
                /\ CDiv(power, 100) \in 0 .. U16Max
                /\ volts \in 0 .. U16Max
                /\ said' = [said EXCEPT !["config_active_power"] = power,
                                        !["input_config_voltage"] = volts,
                                        !["output_config_voltage"] = volts,
                                        !["battery_config_voltage"] = volts]
    BY <1>4, RatingsSaid
  <2>2. Proper(todo')
    BY <2>1, ProperNone, ProperRatings
  <2>3. said' \in [Numbers -> Int]
    BY <2>1 DEF TypeInv
  <2> QED BY <2>1, <2>2, <2>3, CallbackSets
<1>5. ASSUME NEW cmd \in session.commands, SaysDate(cmd)
      PROVE  TypeInv'
  <2>1. /\ todo = <<>> /\ g' = g /\ before' = g /\ session' = session /\ said' = said
        /\ \/ todo' = <<>>
           \/ \E v \in 0 .. U16Max : todo' = <<<<"manufacturer_date", v>>>>
    BY <1>5, DateSaid
  <2>2. \A v \in 0 .. U16Max : FitsField("manufacturer_date", v)
    BY WordFits DEF Words
  <2>3. Proper(todo')
    BY <2>1, <2>2, ProperNone, ProperOne
  <2> QED BY <2>1, <2>3, CallbackSets DEF TypeInv
<1>6. ASSUME NEW cmd \in session.commands, SaysFlags(cmd)
      PROVE  TypeInv'
  <2>1. /\ todo = <<>> /\ g' = g /\ before' = g /\ session' = session /\ said' = said
    BY <1>6, FlagsSaid
  <2>2. Proper(todo')
    BY <1>6, FlagsSet
  <2> QED BY <2>1, <2>2, CallbackSets DEF TypeInv
<1>7. ASSUME NEW cmd \in session.commands, SaysMains(cmd)
      PROVE  TypeInv'
  <2>1. /\ todo = <<>> /\ g' = g /\ before' = g /\ session' = session /\ said' = said
        /\ mains' \in BOOLEAN /\ todo' = <<<<"ac_present", mains'>>>>
    BY <1>7, MainsSaid
  <2>2. FitsField("ac_present", mains')
    BY <2>1, FlagFits DEF Flags
  <2> QED BY <2>1, <2>2, ProperOne, CallbackSets DEF TypeInv
<1>8. CASE UNCHANGED vars
  BY <1>8 DEF vars, TypeInv
<1> QED BY <1>1, <1>2, <1>3, <1>4, <1>5, <1>6, <1>7, <1>8 DEF Next, Reply

----------------------------------------------------------------------------
(* Once the running parser is through, a field holds the last amount said.  *)

\* The temperature starts at 0, which is no temperature the UPS can say.
Kept(f, value, amount) ==
  \/ value = Conversion(f, amount)
  \/ f = "temperature" /\ amount = 0 /\ value = 0

AmountInv ==
  \A f \in Measured : Holds(f, said[f]) /\ Kept(f, Applied(g, todo)[f], said[f])

LEMMA AmountInit == TypeInv /\ Init => AmountInv
<1> SUFFICES ASSUME TypeInv, Init, NEW f \in Measured
             PROVE  Holds(f, said[f]) /\ Kept(f, Applied(g, todo)[f], said[f])
  BY DEF AmountInv
<1>1. f \in Numbers /\ f \in Fields /\ f \notin Flags
  BY DEF Measured, Numbers, Fields, Words, Shorts, Bytes, Flags
<1>2. said[f] = 0
  BY <1>1 DEF Init
<1>3. g[f] = 0 /\ todo = <<>>
  BY <1>1 DEF Init
<1>4. Applied(g, todo)[f] = 0
  BY <1>1, <1>3, AppliedNone DEF TypeInv
<1>5. CDiv(0, 10) = 0 /\ CDiv(0, 100) = 0 /\ 0 \div 100 = 0 /\ 0 \div 10 = 0
  BY DEF CDiv
<1>6. Holds(f, 0)
  BY <1>5, Widths, LargestInt32 DEF Holds
<1>7. Conversion(f, 0) = 0 \/ f = "temperature"
  BY <1>5, Widths DEF Conversion
<1> QED BY <1>2, <1>4, <1>6, <1>7 DEF Kept

\* A field that no reply touches keeps its amount.
LEMMA AmountUntouched ==
  ASSUME TypeInv, AmountInv, todo = <<>>, g' = g, NEW f \in Measured,
         Applied(g, todo')[f] = g[f], said'[f] = said[f]
  PROVE  Holds(f, said'[f]) /\ Kept(f, Applied(g', todo')[f], said'[f])
<1>1. f \in DOMAIN g
  BY DEF TypeInv, Measured, Fields
<1>2. Applied(g, todo)[f] = g[f]
  BY <1>1, AppliedNone
<1> QED BY <1>2 DEF AmountInv

LEMMA AmountStep == TypeInv /\ AmountInv /\ [Next]_vars => AmountInv'
<1> SUFFICES ASSUME TypeInv, AmountInv, [Next]_vars, NEW f \in Measured
             PROVE  Holds(f, said'[f]) /\ Kept(f, Applied(g', todo')[f], said'[f])
  BY DEF AmountInv
<1>1. f \in Numbers /\ f \in Fields /\ f \notin Flags /\ f # "manufacturer_date"
  BY DEF Measured, Numbers, Fields, Words, Shorts, Bytes, Flags
<1>2. DOMAIN g = Fields
  BY DEF TypeInv
<1>3. CASE AssignNext
  <2>1. Applied(g', todo')[f] = Applied(g, todo)[f] /\ said' = said
    BY <1>1, <1>3, AssignmentMade DEF AssignNext
  <2> QED BY <2>1 DEF AmountInv
<1>4. ASSUME todo = <<>>, g' = g, todo' = <<>>, said' = said
      PROVE  Holds(f, said'[f]) /\ Kept(f, Applied(g', todo')[f], said'[f])
  BY <1>4 DEF AmountInv
<1>5. ASSUME NEW cmd \in session.commands, SaysAmount(cmd)
      PROVE  Holds(f, said'[f]) /\ Kept(f, Applied(g', todo')[f], said'[f])
  <2> DEFINE out == Lut[cmd].out
  <2>1. PICK a \in Int :
          /\ cmd \in DOMAIN Lut /\ out \in Measured
          /\ Callback(cmd, Says(a))
          /\ ~Holds(out, a) => todo' = <<>> /\ said' = said
          /\ Holds(out, a) => /\ FitsField(out, Conversion(out, a))
                              /\ Assigned(cmd, a, todo')
                              /\ said' = [said EXCEPT ![out] = a]
    BY <1>5, AmountSaid
  <2>2. todo = <<>> /\ g' = g
    BY <2>1 DEF Callback
  <2>3. CASE Holds(out, a)
    <3>1. /\ Applied(g, todo')[out] = Conversion(out, a)
          /\ \A h \in Fields \ {out, "charging", "discharging", "fully_charged"} :
               Applied(g, todo')[h] = g[h]
      <4>1. /\ cmd \in DOMAIN Lut /\ out \in Measured
            /\ FitsField(out, Conversion(out, a)) /\ Assigned(cmd, a, todo')
        BY <2>1, <2>3
      <4> QED BY <1>2, <4>1, AmountAssigned
    <3>2. CASE f = out
      <4>1. said'[f] = a
        BY <1>1, <2>1, <2>3, <3>2 DEF TypeInv
      <4> QED BY <2>2, <2>3, <3>1, <3>2, <4>1 DEF Kept
    <3>3. CASE f # out
      <4>1. said'[f] = said[f]
        BY <1>1, <2>1, <2>3, <3>3 DEF TypeInv
      <4>2. f \notin {out, "charging", "discharging", "fully_charged"}
        BY <1>1, <3>3 DEF Flags
      <4> QED BY <1>1, <2>2, <3>1, <4>1, <4>2, AmountUntouched
    <3> QED BY <3>2, <3>3
  <2>4. CASE ~Holds(out, a)
    BY <1>4, <2>1, <2>2, <2>4
  <2> QED BY <2>3, <2>4
<1>6. ASSUME NEW cmd \in session.commands, SaysRubbish(cmd)
      PROVE  Holds(f, said'[f]) /\ Kept(f, Applied(g', todo')[f], said'[f])
  <2>1. todo = <<>> /\ g' = g /\ todo' = <<>> /\ said' = said
    BY <1>6, RubbishSaid DEF Callback
  <2> QED BY <1>4, <2>1
<1>7. ASSUME NEW cmd \in session.commands, SaysRatings(cmd)
      PROVE  Holds(f, said'[f]) /\ Kept(f, Applied(g', todo')[f], said'[f])
  <2>1. todo = <<>> /\ g' = g
    BY <1>7, RatingsSaid
  <2>2. CASE todo' = <<>> /\ said' = said
    BY <1>4, <2>1, <2>2
  <2>3. CASE ~(todo' = <<>> /\ said' = said)
    <3>1. PICK power \in Int, volts \in Int :
            /\ Holds("config_active_power", power)
            /\ Holds("input_config_voltage", volts)
            /\ todo' = << <<"config_active_power", CDiv(power, 100)>>,
                          <<"input_config_voltage", volts>>,
                          <<"output_config_voltage", volts>>,
                          <<"battery_config_voltage", volts>> >>
            /\ CDiv(power, 100) \in 0 .. U16Max
            /\ volts \in 0 .. U16Max
            /\ said' = [said EXCEPT !["config_active_power"] = power,
                                    !["input_config_voltage"] = volts,
                                    !["output_config_voltage"] = volts,
                                    !["battery_config_voltage"] = volts]
      BY <1>7, <2>3, RatingsSaid
    <3>2. /\ Applied(g, todo')["config_active_power"] = CDiv(power, 100)
          /\ Applied(g, todo')["input_config_voltage"] = volts
          /\ Applied(g, todo')["output_config_voltage"] = volts
          /\ Applied(g, todo')["battery_config_voltage"] = volts
          /\ \A h \in Fields \ {"config_active_power", "input_config_voltage",
                               "output_config_voltage", "battery_config_voltage"} :
               Applied(g, todo')[h] = g[h]
      BY <1>2, <3>1, RatingsAssigned
    <3>3. CASE f = "config_active_power"
      <4>1. said'[f] = power
        BY <1>1, <3>1, <3>3 DEF TypeInv
      <4>2. Conversion(f, power) = CDiv(power, 100)
        BY <3>3 DEF Conversion
      <4> QED BY <2>1, <3>1, <3>2, <3>3, <4>1, <4>2 DEF Kept
    <3>4. CASE f \in {"input_config_voltage", "output_config_voltage",
                      "battery_config_voltage"}
      <4>1. said'[f] = volts
        BY <1>1, <3>1, <3>4 DEF TypeInv
      <4>2. Applied(g, todo')[f] = volts
        BY <3>2, <3>4
      <4>3. f \in Plain \ Shorts
        BY <3>4 DEF Plain, Numbers, Words, Shorts, Bytes
      <4>4. Holds(f, volts) /\ Conversion(f, volts) = volts
        BY <3>1, <4>3, PlainFields
      <4> QED BY <2>1, <4>1, <4>2, <4>4 DEF Kept
    <3>5. CASE f \notin {"config_active_power", "input_config_voltage",
                         "output_config_voltage", "battery_config_voltage"}
      <4>1. said'[f] = said[f]
        BY <1>1, <3>1, <3>5 DEF TypeInv
      <4> QED BY <1>1, <2>1, <3>2, <3>5, <4>1, AmountUntouched
    <3> QED BY <3>3, <3>4, <3>5
  <2> QED BY <2>2, <2>3
<1>8. ASSUME NEW cmd \in session.commands, SaysDate(cmd)
      PROVE  Holds(f, said'[f]) /\ Kept(f, Applied(g', todo')[f], said'[f])
  <2>1. todo = <<>> /\ g' = g /\ said' = said
    BY <1>8, DateSaid
  <2>2. CASE todo' = <<>>
    BY <1>4, <2>1, <2>2
  <2>3. ASSUME NEW v \in 0 .. U16Max, todo' = <<<<"manufacturer_date", v>>>>
        PROVE  Applied(g, todo')[f] = g[f]
    <3>1. "manufacturer_date" \in Fields /\ FitsField("manufacturer_date", v)
      BY WordFits DEF Words, Fields, Numbers
    <3> QED BY <1>1, <1>2, <2>3, <3>1, OneAssigned
  <2> QED BY <1>8, <2>1, <2>2, <2>3, DateSaid, AmountUntouched
<1>9. ASSUME NEW cmd \in session.commands, SaysFlags(cmd)
      PROVE  Holds(f, said'[f]) /\ Kept(f, Applied(g', todo')[f], said'[f])
  <2>1. todo = <<>> /\ g' = g /\ said' = said
    BY <1>9, FlagsSaid
  <2>2. Applied(g, todo')[f] = g[f]
    BY <1>1, <1>9, FlagsSet
  <2> QED BY <2>1, <2>2, AmountUntouched
<1>10. ASSUME NEW cmd \in session.commands, SaysMains(cmd)
      PROVE  Holds(f, said'[f]) /\ Kept(f, Applied(g', todo')[f], said'[f])
  <2>1. /\ todo = <<>> /\ g' = g /\ said' = said
        /\ mains' \in BOOLEAN /\ todo' = <<<<"ac_present", mains'>>>>
    BY <1>10, MainsSaid
  <2>2. "ac_present" \in Flags /\ "ac_present" \in Fields
    BY DEF Flags, Fields
  <2>3. FitsField("ac_present", mains')
    BY <2>1, <2>2, FlagFits
  <2>4. Applied(g, todo')[f] = g[f]
    BY <1>1, <1>2, <2>1, <2>2, <2>3, OneAssigned
  <2> QED BY <2>1, <2>4, AmountUntouched
<1>11. CASE UNCHANGED vars
  BY <1>11 DEF vars, AmountInv
<1> QED BY <1>3, <1>5, <1>6, <1>7, <1>8, <1>9, <1>10, <1>11 DEF Next, Reply

LEMMA AppliedFits ==
  ASSUME NEW h, DOMAIN h = Fields, \A f \in Fields : FitsField(f, h[f]),
         NEW w, Proper(w), NEW f \in Fields
  PROVE  FitsField(f, Applied(h, w)[f])
<1>1. CASE \E i \in 1 .. Len(w) : w[i][1] = f
  <2>1. PICK i \in 1 .. Len(w) : w[i][1] = f
    BY <1>1
  <2>2. Applied(h, w)[f] = w[i][2]
    BY <2>1, AppliedTo DEF Proper
  <2> QED BY <2>1, <2>2 DEF Proper
<1>2. CASE ~\E i \in 1 .. Len(w) : w[i][1] = f
  BY <1>2, AppliedElse
<1> QED BY <1>1, <1>2

----------------------------------------------------------------------------
(* Once the running parser is through, the flags are those last reported.   *)

FlagInv ==
  LET new == Applied(g, todo)
  IN  /\ mains \in BOOLEAN /\ drawn \in BOOLEAN
      /\ new["ac_present"] = mains
      /\ new["discharging"] = drawn
      /\ new["charging"] \in BOOLEAN /\ ~(new["charging"] /\ new["discharging"])
      /\ new["below_remaining_capacity_limit"] = ("low" \in raised)
      /\ new["shutdown_imminent"] = ("low" \in raised)
      /\ new["need_replacement"] = ("replace" \in raised)

StatusFields ==
  {"ac_present", "charging", "discharging", "below_remaining_capacity_limit",
   "shutdown_imminent", "need_replacement"}

LEMMA StatusFieldsAre == StatusFields \subseteq Flags /\ Flags \subseteq Fields
BY DEF StatusFields, Flags, Fields

LEMMA FlagInit == TypeInv /\ Init => FlagInv
<1> SUFFICES ASSUME TypeInv, Init PROVE FlagInv
  OBVIOUS
<1>1. \A f \in Flags : g[f] = FALSE
  BY DEF Init
<1>2. todo = <<>> /\ raised = {} /\ mains = FALSE /\ drawn = FALSE
  BY DEF Init
<1>3. \A f \in StatusFields : Applied(g, todo)[f] = FALSE
  BY <1>1, <1>2, StatusFieldsAre, AppliedNone DEF TypeInv
<1> HIDE DEF Init
<1>4. /\ Applied(g, todo)["ac_present"] = FALSE
      /\ Applied(g, todo)["discharging"] = FALSE
      /\ Applied(g, todo)["charging"] = FALSE
      /\ Applied(g, todo)["below_remaining_capacity_limit"] = FALSE
      /\ Applied(g, todo)["shutdown_imminent"] = FALSE
      /\ Applied(g, todo)["need_replacement"] = FALSE
  BY <1>3 DEF StatusFields
<1>5. "low" \notin raised /\ "replace" \notin raised
  BY <1>2
<1>6. mains \in BOOLEAN /\ drawn \in BOOLEAN /\ Applied(g, todo)["charging"] \in BOOLEAN
  BY <1>2, <1>4
<1>7. /\ Applied(g, todo)["ac_present"] = mains
      /\ Applied(g, todo)["discharging"] = drawn
  BY <1>2, <1>4, Zenon
<1>8. /\ Applied(g, todo)["below_remaining_capacity_limit"] = ("low" \in raised)
      /\ Applied(g, todo)["shutdown_imminent"] = ("low" \in raised)
      /\ Applied(g, todo)["need_replacement"] = ("replace" \in raised)
  <2>1. ("low" \in raised) = FALSE /\ ("replace" \in raised) = FALSE
    BY <1>5
  <2> QED BY <1>4, <2>1, Zenon
<1>9. ~(Applied(g, todo)["charging"] /\ Applied(g, todo)["discharging"])
  BY <1>4
<1> QED BY <1>6, <1>7, <1>8, <1>9, Zenon DEF FlagInv

\* A reply that leaves the status flags and their histories alone.
LEMMA FlagsUntouched ==
  ASSUME FlagInv, \A f \in StatusFields : Applied(g', todo')[f] = Applied(g, todo)[f],
         UNCHANGED <<raised, mains, drawn>>
  PROVE  FlagInv'
<1>1. /\ Applied(g', todo')["ac_present"] = Applied(g, todo)["ac_present"]
      /\ Applied(g', todo')["discharging"] = Applied(g, todo)["discharging"]
      /\ Applied(g', todo')["charging"] = Applied(g, todo)["charging"]
      /\ Applied(g', todo')["below_remaining_capacity_limit"]
           = Applied(g, todo)["below_remaining_capacity_limit"]
      /\ Applied(g', todo')["shutdown_imminent"] = Applied(g, todo)["shutdown_imminent"]
      /\ Applied(g', todo')["need_replacement"] = Applied(g, todo)["need_replacement"]
  BY DEF StatusFields
<1>2. raised' = raised /\ mains' = mains /\ drawn' = drawn
  OBVIOUS
<1> QED BY <1>1, <1>2, Zenon DEF FlagInv

LEMMA RestApplied ==
  ASSUME TypeInv, todo = <<>>, NEW f \in Fields
  PROVE  Applied(g, todo)[f] = g[f]
BY AppliedNone DEF TypeInv

LEMMA FlagStep == TypeInv /\ FlagInv /\ [Next]_vars => FlagInv'
<1> SUFFICES ASSUME TypeInv, FlagInv, [Next]_vars
             PROVE  FlagInv'
  OBVIOUS
<1>1. \A f \in StatusFields : f \in Fields /\ f \in Flags /\ f \notin Numbers
  BY StatusFieldsAre DEF Flags, Numbers, Words, Shorts, Bytes
<1>2. DOMAIN g = Fields
  BY DEF TypeInv
<1>3. ASSUME todo = <<>>, g' = g, \A f \in StatusFields : Applied(g, todo')[f] = g[f],
             UNCHANGED <<raised, mains, drawn>>
      PROVE  FlagInv'
  <2>1. \A f \in StatusFields : Applied(g', todo')[f] = Applied(g, todo)[f]
    BY <1>1, <1>3, RestApplied
  <2> QED BY <1>3, <2>1, FlagsUntouched
<1>4. CASE AssignNext
  <2>1. \A f \in StatusFields : Applied(g', todo')[f] = Applied(g, todo)[f]
    BY <1>1, <1>4, AssignmentMade
  <2>2. UNCHANGED <<raised, mains, drawn>>
    BY <1>4 DEF AssignNext
  <2> QED BY <2>1, <2>2, FlagsUntouched
<1>5. ASSUME todo = <<>>, g' = g, todo' = <<>>, UNCHANGED <<raised, mains, drawn>>
      PROVE  FlagInv'
  <2>1. \A f \in StatusFields : Applied(g, todo')[f] = g[f]
    BY <1>1, <1>5, RestApplied
  <2> QED BY <1>3, <1>5, <2>1
<1>6. ASSUME NEW cmd \in session.commands, SaysAmount(cmd)
      PROVE  FlagInv'
  <2> DEFINE out == Lut[cmd].out
             turned == Lut[cmd].fn = "bat_current"
  <2>1. PICK a \in Int :
          /\ cmd \in DOMAIN Lut /\ out \in Measured
          /\ Callback(cmd, Says(a))
          /\ ~Holds(out, a) => todo' = <<>> /\ drawn' = drawn
          /\ Holds(out, a) => /\ FitsField(out, Conversion(out, a))
                              /\ Assigned(cmd, a, todo')
                              /\ turned /\ a # 0 => drawn' = (a < 0)
                              /\ ~(turned /\ a # 0) => drawn' = drawn
          /\ raised' = raised /\ mains' = mains
    BY <1>6, AmountSaid
  <2>2. todo = <<>> /\ g' = g
    BY <2>1 DEF Callback
  <2>3. CASE Holds(out, a)
    <3>1. /\ \A f \in StatusFields \ {"charging", "discharging"} :
               Applied(g, todo')[f] = g[f]
          /\ turned /\ a < 0 =>
               ~Applied(g, todo')["charging"] /\ Applied(g, todo')["discharging"]
          /\ turned /\ a > 0 =>
               Applied(g, todo')["charging"] /\ ~Applied(g, todo')["discharging"]
          /\ ~(turned /\ a # 0) =>
               /\ Applied(g, todo')["charging"] = g["charging"]
               /\ Applied(g, todo')["discharging"] = g["discharging"]
      <4>1. /\ cmd \in DOMAIN Lut /\ out \in Measured
            /\ FitsField(out, Conversion(out, a)) /\ Assigned(cmd, a, todo')
        BY <2>1, <2>3
      <4>2. \A f \in StatusFields : f # out /\ f # "fully_charged"
        BY <1>1, <2>1 DEF Measured, StatusFields
      <4> QED BY <1>1, <1>2, <4>1, <4>2, SaysAssigned
    <3>2. CASE turned /\ a # 0
      <4>1. /\ Applied(g, todo')["charging"] = (a > 0)
            /\ Applied(g, todo')["discharging"] = (a < 0)
            /\ drawn' = (a < 0)
        <5>1. TypeInv'
          BY TypeStep
        <5>2. "charging" \in Flags /\ "discharging" \in Flags
          BY DEF Flags
        <5>3. /\ FitsField("charging", Applied(g', todo')["charging"])
              /\ FitsField("discharging", Applied(g', todo')["discharging"])
          BY <5>1, <5>2, StatusFieldsAre, AppliedFits DEF TypeInv
        <5>4. /\ Applied(g, todo')["charging"] \in BOOLEAN
              /\ Applied(g, todo')["discharging"] \in BOOLEAN
          BY <2>2, <5>2, <5>3, FlagFits
        <5> QED BY <2>1, <2>3, <3>1, <3>2, <5>4
      <4>2. /\ Applied(g', todo')["ac_present"] = Applied(g, todo)["ac_present"]
            /\ Applied(g', todo')["below_remaining_capacity_limit"]
                 = Applied(g, todo)["below_remaining_capacity_limit"]
            /\ Applied(g', todo')["shutdown_imminent"] = Applied(g, todo)["shutdown_imminent"]
            /\ Applied(g', todo')["need_replacement"] = Applied(g, todo)["need_replacement"]
        BY <1>1, <2>2, <3>1, RestApplied DEF StatusFields
      <4>3. /\ (a < 0) \in BOOLEAN /\ (a > 0) \in BOOLEAN /\ ~(a > 0 /\ a < 0)
            /\ raised' = raised /\ mains' = mains
        BY <2>1
      <4> QED BY <2>2, <4>1, <4>2, <4>3, Zenon DEF FlagInv
    <3>3. CASE ~(turned /\ a # 0)
      <4>1. \A f \in StatusFields : Applied(g, todo')[f] = g[f]
        BY <3>1, <3>3
      <4> QED BY <1>3, <2>1, <2>2, <2>3, <3>3, <4>1
    <3> QED BY <3>2, <3>3
  <2>4. CASE ~Holds(out, a)
    BY <1>5, <2>1, <2>2, <2>4
  <2> QED BY <2>3, <2>4
<1>7. ASSUME NEW cmd \in session.commands, SaysRubbish(cmd)
      PROVE  FlagInv'
  <2>1. todo = <<>> /\ g' = g /\ todo' = <<>> /\ UNCHANGED <<raised, mains, drawn>>
    BY <1>7, RubbishSaid DEF Callback
  <2> QED BY <1>5, <2>1
<1>8. ASSUME NEW cmd \in session.commands, SaysRatings(cmd)
      PROVE  FlagInv'
  <2>1. todo = <<>> /\ g' = g /\ UNCHANGED <<raised, mains, drawn>>
    BY <1>8, RatingsSaid
  <2>2. CASE todo' = <<>>
    BY <1>5, <2>1, <2>2
  <2>3. CASE todo' # <<>>
    <3>1. PICK power \in Int, volts \in Int :
            /\ todo' = << <<"config_active_power", CDiv(power, 100)>>,
                          <<"input_config_voltage", volts>>,
                          <<"output_config_voltage", volts>>,
                          <<"battery_config_voltage", volts>> >>
            /\ CDiv(power, 100) \in 0 .. U16Max
            /\ volts \in 0 .. U16Max
      BY <1>8, <2>3, RatingsSaid
    <3>2. \A f \in Fields \ {"config_active_power", "input_config_voltage",
                            "output_config_voltage", "battery_config_voltage"} :
            Applied(g, todo')[f] = g[f]
      BY <1>2, <3>1, RatingsAssigned
    <3>3. \A f \in StatusFields : Applied(g, todo')[f] = g[f]
      BY <1>1, <3>2 DEF StatusFields
    <3> QED BY <1>3, <2>1, <3>3
  <2> QED BY <2>2, <2>3
<1>9. ASSUME NEW cmd \in session.commands, SaysDate(cmd)
      PROVE  FlagInv'
  <2>1. todo = <<>> /\ g' = g /\ UNCHANGED <<raised, mains, drawn>>
    BY <1>9, DateSaid
  <2>2. CASE todo' = <<>>
    BY <1>5, <2>1, <2>2
  <2>3. ASSUME NEW v \in 0 .. U16Max, todo' = <<<<"manufacturer_date", v>>>>
        PROVE  \A f \in StatusFields : Applied(g, todo')[f] = g[f]
    <3>1. /\ "manufacturer_date" \in Fields /\ "manufacturer_date" \notin StatusFields
          /\ FitsField("manufacturer_date", v)
      BY WordFits DEF Words, Fields, Numbers, StatusFields
    <3> QED BY <1>1, <1>2, <2>3, <3>1, OneAssigned
  <2> QED BY <1>3, <1>9, <2>1, <2>2, <2>3, DateSaid
<1>10. ASSUME NEW cmd \in session.commands, SaysFlags(cmd)
       PROVE  FlagInv'
  <2>1. g' = g
    BY <1>10, FlagsSaid
  <2>2. mains' = ("on_line" \in raised' /\ "on_battery" \notin raised')
        /\ drawn' = ("on_battery" \in raised')
    BY <1>10, FlagsSaid, Zenon
  <2>3. /\ mains' \in BOOLEAN /\ drawn' \in BOOLEAN
        /\ Applied(g, todo')["ac_present"] = mains'
        /\ Applied(g, todo')["discharging"] = drawn'
        /\ Applied(g, todo')["charging"] = (mains' /\ g.remaining_capacity < 100)
        /\ Applied(g, todo')["below_remaining_capacity_limit"] = ("low" \in raised')
        /\ Applied(g, todo')["shutdown_imminent"] = ("low" \in raised')
        /\ Applied(g, todo')["need_replacement"] = ("replace" \in raised')
    BY <1>10, FlagsSet, Zenon
  <2>4. /\ Applied(g, todo')["charging"] \in BOOLEAN
        /\ ~(Applied(g, todo')["charging"] /\ Applied(g, todo')["discharging"])
    BY <2>2, <2>3
  <2> QED BY <2>1, <2>3, <2>4, Zenon DEF FlagInv
<1>11. ASSUME NEW cmd \in session.commands, SaysMains(cmd)
       PROVE  FlagInv'
  <2>1. /\ todo = <<>> /\ g' = g /\ UNCHANGED <<raised, drawn>>
        /\ mains' \in BOOLEAN /\ todo' = <<<<"ac_present", mains'>>>>
    BY <1>11, MainsSaid
  <2>2. "ac_present" \in Flags /\ "ac_present" \in Fields
    BY DEF Flags, Fields
  <2>3. FitsField("ac_present", mains')
    BY <2>1, <2>2, FlagFits
  <2>4. /\ Applied(g', todo')["ac_present"] = mains'
        /\ \A f \in StatusFields \ {"ac_present"} : Applied(g', todo')[f] = Applied(g, todo)[f]
    BY <1>1, <1>2, <2>1, <2>2, <2>3, OneAssigned, RestApplied
  <2>5. /\ Applied(g', todo')["discharging"] = Applied(g, todo)["discharging"]
        /\ Applied(g', todo')["charging"] = Applied(g, todo)["charging"]
        /\ Applied(g', todo')["below_remaining_capacity_limit"]
             = Applied(g, todo)["below_remaining_capacity_limit"]
        /\ Applied(g', todo')["shutdown_imminent"] = Applied(g, todo)["shutdown_imminent"]
        /\ Applied(g', todo')["need_replacement"] = Applied(g, todo)["need_replacement"]
    BY <2>4 DEF StatusFields
  <2>6. raised' = raised /\ drawn' = drawn /\ mains' \in BOOLEAN
    BY <2>1
  <2> QED BY <2>4, <2>5, <2>6, Zenon DEF FlagInv
<1>12. CASE UNCHANGED vars
  BY <1>12 DEF vars, FlagInv
<1> QED BY <1>4, <1>6, <1>7, <1>8, <1>9, <1>10, <1>11, <1>12 DEF Next, Reply

----------------------------------------------------------------------------
(* Between two assignments of a parser.                                     *)

Among(w, f) == \E i \in 1 .. Len(w) : w[i][1] = f

Alarms == {"below_remaining_capacity_limit", "shutdown_imminent", "need_replacement"}

\* A field not yet assigned is as before; the alarms are assigned in order, after
\* the presence of the mains the discharge; the capacity and the alarms are never
\* assigned together.
TornInv ==
  LET new == Applied(g, todo)
  IN  /\ \A f \in Fields : Among(todo, f) => g[f] = before[f]
      /\ before["below_remaining_capacity_limit"] = before["shutdown_imminent"]
      /\ \/ g["need_replacement"] = before["need_replacement"]
         \/ /\ ~Among(todo, "shutdown_imminent")
            /\ ~Among(todo, "below_remaining_capacity_limit")
      /\ \/ g["shutdown_imminent"] = before["shutdown_imminent"]
         \/ ~Among(todo, "below_remaining_capacity_limit")
      /\ \/ g["discharging"] = before["discharging"]
         \/ ~Among(todo, "ac_present")
      /\ \/ /\ before["remaining_capacity"] = new["remaining_capacity"]
            /\ g["remaining_capacity"] = new["remaining_capacity"]
         \/ \A f \in Alarms : g[f] = before[f] /\ new[f] = before[f]

LEMMA AlarmFields ==
  /\ Alarms \subseteq StatusFields /\ Alarms \subseteq Fields
  /\ "remaining_capacity" \in Fields /\ "remaining_capacity" \in Numbers
  /\ "discharging" \in Fields /\ "ac_present" \in Fields
BY StatusFieldsAre DEF Alarms, StatusFields, Numbers, Bytes, Fields

LEMMA TornStarts ==
  ASSUME TypeInv, FlagInv, todo = <<>>, g' = g, before' = g,
         \/ Applied(g, todo')["remaining_capacity"] = g["remaining_capacity"]
         \/ \A f \in Alarms : Applied(g, todo')[f] = g[f]
  PROVE  TornInv'
<1>1. g["below_remaining_capacity_limit"] = g["shutdown_imminent"]
  <2>1. Applied(g, todo)["below_remaining_capacity_limit"] = Applied(g, todo)["shutdown_imminent"]
    BY Zenon DEF FlagInv
  <2> QED BY <2>1, RestApplied, AlarmFields DEF Alarms
<1> QED BY <1>1 DEF TornInv

\* The next assignment: what was to come still comes, but for the field assigned.
LEMMA AmongNext ==
  ASSUME TypeInv, AssignNext
  PROVE  LET x == todo[1][1]
         IN  /\ x \in Fields /\ Among(todo, x) /\ ~Among(todo', x)
             /\ \A f \in Fields : Among(todo', f) => Among(todo, f)
             /\ \A f \in Fields \ {x} : g'[f] = g[f]
             /\ g'[x] = Applied(g, todo)[x]
             /\ before' = before
             /\ \A f \in Fields : Among(todo, f) => <<f, x>> \notin Order
<1>1. todo \in Assignments /\ todo # <<>> /\ Once(todo) /\ InOrder(todo) /\ DOMAIN g = Fields
  BY DEF TypeInv, Proper, AssignNext
<1>2. /\ Len(todo) \in Nat \ {0} /\ Head(todo) = todo[1]
      /\ Len(Tail(todo)) = Len(todo) - 1
      /\ \A i \in 1 .. Len(Tail(todo)) : Tail(todo)[i] = todo[i + 1]
  BY <1>1, HeadTailProperties, EmptySeq DEF Assignments
<1>3. /\ g' = [g EXCEPT ![todo[1][1]] = todo[1][2]]
      /\ todo' = Tail(todo) /\ before' = before
  BY <1>2 DEF AssignNext
<1> DEFINE x == todo[1][1]
<1>4. 1 \in 1 .. Len(todo)
  BY <1>2
<1>5. x \in Fields /\ Among(todo, x)
  BY <1>1, <1>4 DEF Assignments, Among
<1>6. ~Among(todo', x)
  BY <1>1, <1>2, <1>3 DEF Among, Once
<1>7. \A f \in Fields : Among(todo', f) => Among(todo, f)
  BY <1>2, <1>3 DEF Among
<1>8. g'[x] = Applied(g, todo)[x]
  BY <1>1, <1>3, <1>4, <1>5, AppliedTo
<1>9. \A f \in Fields : Among(todo, f) => <<f, x>> \notin Order
  BY <1>1, <1>4 DEF Among, InOrder
<1>10. \A f \in Fields \ {x} : g'[f] = g[f]
  BY <1>1, <1>3
<1> QED BY <1>3, <1>5, <1>6, <1>7, <1>8, <1>9, <1>10

LEMMA TornInit == TypeInv /\ Init => TornInv
<1> SUFFICES ASSUME TypeInv, Init PROVE TornInv
  OBVIOUS
<1>1. before = g /\ todo = <<>>
  BY DEF Init
<1>2. \A f \in Fields : Applied(g, todo)[f] = g[f]
  BY <1>1, RestApplied
<1>3. g["below_remaining_capacity_limit"] = g["shutdown_imminent"]
  BY DEF Init, Flags
<1> QED BY <1>1, <1>2, <1>3, AlarmFields DEF TornInv

LEMMA TornStep == TypeInv /\ FlagInv /\ TornInv /\ [Next]_vars => TornInv'
<1> SUFFICES ASSUME TypeInv, FlagInv, TornInv, [Next]_vars
             PROVE  TornInv'
  OBVIOUS
<1>1. DOMAIN g = Fields
  BY DEF TypeInv
<1>2. CASE AssignNext
  <2> DEFINE x == todo[1][1]
             new == Applied(g, todo)
             new2 == Applied(g', todo')
  <2>1. /\ x \in Fields /\ Among(todo, x) /\ ~Among(todo', x)
        /\ \A f \in Fields : Among(todo', f) => Among(todo, f)
        /\ \A f \in Fields \ {x} : g'[f] = g[f]
        /\ g'[x] = new[x]
        /\ before' = before
        /\ \A f \in Fields : Among(todo, f) => <<f, x>> \notin Order
    BY <1>2, AmongNext
  <2>2. \A f \in Fields : new2[f] = new[f]
    BY <1>2, AssignmentMade
  <2> HIDE DEF x, new, new2
  <2>3. /\ \A f \in Fields : Among(todo, f) => g[f] = before[f]
        /\ before["below_remaining_capacity_limit"] = before["shutdown_imminent"]
        /\ \/ g["need_replacement"] = before["need_replacement"]
           \/ /\ ~Among(todo, "shutdown_imminent")
              /\ ~Among(todo, "below_remaining_capacity_limit")
        /\ \/ g["shutdown_imminent"] = before["shutdown_imminent"]
           \/ ~Among(todo, "below_remaining_capacity_limit")
        /\ \/ g["discharging"] = before["discharging"]
           \/ ~Among(todo, "ac_present")
        /\ \/ /\ before["remaining_capacity"] = new["remaining_capacity"]
              /\ g["remaining_capacity"] = new["remaining_capacity"]
           \/ \A f \in Alarms : g[f] = before[f] /\ new[f] = before[f]
    BY DEF TornInv, new
  <2>4. \A f \in Fields : Among(todo', f) => g'[f] = before'[f]
    BY <2>1, <2>3
  <2>5. \/ g'["need_replacement"] = before'["need_replacement"]
        \/ /\ ~Among(todo', "shutdown_imminent")
           /\ ~Among(todo', "below_remaining_capacity_limit")
    BY <2>1, <2>3, AlarmFields DEF Order, Alarms
  <2>6. \/ g'["shutdown_imminent"] = before'["shutdown_imminent"]
        \/ ~Among(todo', "below_remaining_capacity_limit")
    BY <2>1, <2>3, AlarmFields DEF Order, Alarms
  <2>7. \/ g'["discharging"] = before'["discharging"]
        \/ ~Among(todo', "ac_present")
    BY <2>1, <2>3, AlarmFields DEF Order
  <2>8. \/ /\ before'["remaining_capacity"] = new2["remaining_capacity"]
           /\ g'["remaining_capacity"] = new2["remaining_capacity"]
        \/ \A f \in Alarms : g'[f] = before'[f] /\ new2[f] = before'[f]
    BY <2>1, <2>2, <2>3, AlarmFields
  <2> QED BY <2>1, <2>3, <2>4, <2>5, <2>6, <2>7, <2>8 DEF TornInv, new2
<1>3. ASSUME todo = <<>>, g' = g, before' = g, todo' = <<>>
      PROVE  TornInv'
  <2>1. Applied(g, todo')["remaining_capacity"] = g["remaining_capacity"]
    BY <1>3, RestApplied, AlarmFields
  <2> QED BY <1>3, <2>1, TornStarts
<1>4. ASSUME NEW cmd \in session.commands, SaysAmount(cmd)
      PROVE  TornInv'
  <2> DEFINE out == Lut[cmd].out
  <2>1. PICK a \in Int :
          /\ cmd \in DOMAIN Lut /\ out \in Measured
          /\ Callback(cmd, Says(a))
          /\ ~Holds(out, a) => todo' = <<>>
          /\ Holds(out, a) => /\ FitsField(out, Conversion(out, a))
                              /\ Assigned(cmd, a, todo')
    BY <1>4, AmountSaid
  <2>2. todo = <<>> /\ g' = g /\ before' = g
    BY <2>1 DEF Callback
  <2>3. CASE Holds(out, a)
    <3>1. /\ cmd \in DOMAIN Lut /\ out \in Measured
          /\ FitsField(out, Conversion(out, a)) /\ Assigned(cmd, a, todo')
      BY <2>1, <2>3
    <3>2. \A f \in Fields \ {out, "charging", "discharging", "fully_charged"} :
            Applied(g, todo')[f] = g[f]
      BY <1>1, <3>1, AmountAssigned
    <3>3. \A f \in Alarms : f \in Fields \ {out, "charging", "discharging", "fully_charged"}
      BY <2>1, AlarmFields DEF Alarms, Measured, Numbers, Words, Shorts, Bytes
    <3> QED BY <2>2, <3>2, <3>3, TornStarts
  <2>4. CASE ~Holds(out, a)
    BY <1>3, <2>1, <2>2, <2>4
  <2> QED BY <2>3, <2>4
<1>5. ASSUME NEW cmd \in session.commands, SaysRubbish(cmd)
      PROVE  TornInv'
  <2>1. todo = <<>> /\ g' = g /\ before' = g /\ todo' = <<>>
    BY <1>5, RubbishSaid DEF Callback
  <2> QED BY <1>3, <2>1
<1>6. ASSUME NEW cmd \in session.commands, SaysRatings(cmd)
      PROVE  TornInv'
  <2>1. todo = <<>> /\ g' = g /\ before' = g
    BY <1>6, RatingsSaid
  <2>2. CASE todo' = <<>>
    BY <1>3, <2>1, <2>2
  <2>3. CASE todo' # <<>>
    <3>1. PICK power \in Int, volts \in Int :
            /\ todo' = << <<"config_active_power", CDiv(power, 100)>>,
                          <<"input_config_voltage", volts>>,
                          <<"output_config_voltage", volts>>,
                          <<"battery_config_voltage", volts>> >>
            /\ CDiv(power, 100) \in 0 .. U16Max
            /\ volts \in 0 .. U16Max
      BY <1>6, <2>3, RatingsSaid
    <3>2. \A f \in Fields \ {"config_active_power", "input_config_voltage",
                            "output_config_voltage", "battery_config_voltage"} :
            Applied(g, todo')[f] = g[f]
      BY <1>1, <3>1, RatingsAssigned
    <3> QED BY <2>1, <3>2, AlarmFields, TornStarts
  <2> QED BY <2>2, <2>3
<1>7. ASSUME NEW cmd \in session.commands, SaysDate(cmd)
      PROVE  TornInv'
  <2>1. todo = <<>> /\ g' = g /\ before' = g
    BY <1>7, DateSaid
  <2>2. CASE todo' = <<>>
    BY <1>3, <2>1, <2>2
  <2>3. ASSUME NEW v \in 0 .. U16Max, todo' = <<<<"manufacturer_date", v>>>>
        PROVE  TornInv'
    <3>1. "manufacturer_date" \in Fields /\ FitsField("manufacturer_date", v)
      BY WordFits DEF Words, Fields, Numbers
    <3>2. Applied(g, todo')["remaining_capacity"] = g["remaining_capacity"]
      BY <1>1, <2>3, <3>1, AlarmFields, OneAssigned
    <3> QED BY <2>1, <3>2, TornStarts
  <2> QED BY <1>7, <2>2, <2>3, DateSaid
<1>8. ASSUME NEW cmd \in session.commands, SaysFlags(cmd)
      PROVE  TornInv'
  <2>1. todo = <<>> /\ g' = g /\ before' = g
    BY <1>8, FlagsSaid
  <2>2. Applied(g, todo')["remaining_capacity"] = g["remaining_capacity"]
    BY <1>8, AlarmFields, FlagsSet
  <2> QED BY <2>1, <2>2, TornStarts
<1>9. ASSUME NEW cmd \in session.commands, SaysMains(cmd)
      PROVE  TornInv'
  <2>1. /\ todo = <<>> /\ g' = g /\ before' = g
        /\ mains' \in BOOLEAN /\ todo' = <<<<"ac_present", mains'>>>>
    BY <1>9, MainsSaid
  <2>2. "ac_present" \in Fields /\ FitsField("ac_present", mains')
    BY <2>1, AlarmFields, FlagFits DEF Flags
  <2>3. Applied(g, todo')["remaining_capacity"] = g["remaining_capacity"]
    BY <1>1, <2>1, <2>2, AlarmFields, OneAssigned
  <2> QED BY <2>1, <2>3, TornStarts
<1>10. CASE UNCHANGED vars
  BY <1>10 DEF vars, TornInv
<1> QED BY <1>2, <1>4, <1>5, <1>6, <1>7, <1>8, <1>9, <1>10 DEF Next, Reply

----------------------------------------------------------------------------
(* What the invariants say.                                                 *)

IInv == TypeInv /\ AmountInv /\ FlagInv /\ TornInv

LEMMA IInvHolds == Spec => []IInv
<1>1. Init => IInv
  BY TypeInit, AmountInit, FlagInit, TornInit DEF IInv
<1>2. IInv /\ [Next]_vars => IInv'
  BY TypeStep, AmountStep, FlagStep, TornStep DEF IInv
<1> QED BY <1>1, <1>2, PTL DEF Spec

LEMMA AfterApplied == After = Applied(g, todo)
BY DEF After, Applied

\* The casts of the parsers lose nothing, whatever the UPS says.
THEOREM FieldsHold == Spec => []TypeOK
<1>1. TypeInv => TypeOK
  BY DEF TypeInv, TypeOK, Proper, Fields
<1> QED BY <1>1, IInvHolds, PTL DEF IInv

\* The battery current and the status byte are asked for one after the other and
\* both assign the two flags: no order of their replies leaves both set.
THEOREM NeverBoth == Spec => []ChargeOrDischarge
<1>1. FlagInv => ChargeOrDischarge
  BY AfterApplied DEF FlagInv, ChargeOrDischarge
<1> QED BY <1>1, IInvHolds, PTL DEF IInv

LEMMA BatteryStatusIs ==
  ASSUME NEW v
  PROVE  /\ v["remaining_capacity"] = 0 \/ v["shutdown_imminent"] \/ v["need_replacement"]
              => BatteryStatus(v) = 4
         /\ ~(v["remaining_capacity"] = 0 \/ v["shutdown_imminent"] \/ v["need_replacement"])
              => BatteryStatus(v) =
                   IF \/ v["below_remaining_capacity_limit"]
                      \/ v["remaining_capacity"] <= RemainingCapacityLimit THEN 3 ELSE 2
         /\ BatteryStatus(v) \in {2, 3, 4}
BY DEF BatteryStatus

\* The states a status byte passes through are no worse and no better than the
\* two it lies between, but when a low battery turns into one to replace.
LEMMA StatusBetween ==
  ASSUME NEW old, NEW cur, NEW new,
         NEW b0, NEW n0, NEW b, NEW s, NEW n, NEW b1, NEW n1,
         old["below_remaining_capacity_limit"] <=> b0,
         old["shutdown_imminent"] <=> b0, old["need_replacement"] <=> n0,
         cur["below_remaining_capacity_limit"] <=> b,
         cur["shutdown_imminent"] <=> s, cur["need_replacement"] <=> n,
         new["below_remaining_capacity_limit"] <=> b1,
         new["shutdown_imminent"] <=> b1, new["need_replacement"] <=> n1,
         cur["remaining_capacity"] = old["remaining_capacity"],
         new["remaining_capacity"] = old["remaining_capacity"],
         \/ (b <=> b0) /\ (s <=> b0) /\ (n <=> n0)
         \/ (b <=> b1) /\ (s <=> b0) /\ (n <=> n0)
         \/ (b <=> b1) /\ (s <=> b1) /\ (n <=> n0)
         \/ (b <=> b1) /\ (s <=> b1) /\ (n <=> n1),
         ~(b0 /\ ~n0 /\ n1 /\ ~b1)
  PROVE  \/ BatteryStatus(cur) \in BatteryStatus(old) .. BatteryStatus(new)
         \/ BatteryStatus(cur) \in BatteryStatus(new) .. BatteryStatus(old)
<1> DEFINE c == old["remaining_capacity"] = 0
           l == old["remaining_capacity"] <= RemainingCapacityLimit
           so == BatteryStatus(old)
           sc == BatteryStatus(cur)
           sn == BatteryStatus(new)
<1>1. /\ c \/ b0 \/ n0 => so = 4
      /\ ~(c \/ b0 \/ n0) /\ (b0 \/ l) => so = 3
      /\ ~(c \/ b0 \/ n0) /\ ~(b0 \/ l) => so = 2
      /\ so \in {2, 3, 4}
  BY BatteryStatusIs, Zenon
<1>2. /\ c \/ s \/ n => sc = 4
      /\ ~(c \/ s \/ n) /\ (b \/ l) => sc = 3
      /\ ~(c \/ s \/ n) /\ ~(b \/ l) => sc = 2
      /\ sc \in {2, 3, 4}
  BY BatteryStatusIs, Zenon
<1>3. /\ c \/ b1 \/ n1 => sn = 4
      /\ ~(c \/ b1 \/ n1) /\ (b1 \/ l) => sn = 3
      /\ ~(c \/ b1 \/ n1) /\ ~(b1 \/ l) => sn = 2
      /\ sn \in {2, 3, 4}
  BY BatteryStatusIs, Zenon
<1> HIDE DEF c, l, so, sc, sn
<1>4. \/ sc = so \/ sc = sn
      \/ (so = 2 /\ sc = 3 /\ sn = 4)
      \/ (so = 4 /\ sc = 3 /\ sn = 2)
  <2>1. CASE (b <=> b0) /\ (s <=> b0) /\ (n <=> n0)
    BY <1>1, <1>2, <2>1
  <2>2. CASE (b <=> b1) /\ (s <=> b0) /\ (n <=> n0)
    BY <1>1, <1>2, <1>3, <2>2
  <2>3. CASE (b <=> b1) /\ (s <=> b1) /\ (n <=> n0)
    BY <1>1, <1>2, <1>3, <2>3
  <2>4. CASE (b <=> b1) /\ (s <=> b1) /\ (n <=> n1)
    BY <1>2, <1>3, <2>4
  <2> QED BY <2>1, <2>2, <2>3, <2>4
<1> QED BY <1>1, <1>2, <1>3, <1>4 DEF so, sc, sn

\* An answer computed between two assignments of a parser tells the battery status
\* and the output source of before or of after, or one in between, but for the two
\* cases the property names: the lock-free sharing of the fields with the SNMP task.
THEOREM NeverTorn == Spec => []TornOnlyOnExchange
<1>1. ASSUME IInv
      PROVE  TornOnlyOnExchange
  <2> DEFINE old == before
             new == Applied(g, todo)
             low == "below_remaining_capacity_limit"
             down == "shutdown_imminent"
             replace == "need_replacement"
             left == "remaining_capacity"
  <2>1. /\ \A f \in Fields : Among(todo, f) => g[f] = old[f]
        /\ old[low] = old[down]
        /\ \/ g[replace] = old[replace]
           \/ ~Among(todo, down) /\ ~Among(todo, low)
        /\ g[down] = old[down] \/ ~Among(todo, low)
        /\ g["discharging"] = old["discharging"] \/ ~Among(todo, "ac_present")
        /\ \/ old[left] = new[left] /\ g[left] = new[left]
           \/ \A f \in Alarms : g[f] = old[f] /\ new[f] = old[f]
    BY <1>1 DEF IInv, TornInv
  <2>2. \A f \in Fields : ~Among(todo, f) => new[f] = g[f]
    BY <1>1, AppliedElse DEF IInv, TypeInv, Among
  <2>3. new[low] = new[down]
    BY <1>1, Zenon DEF IInv, FlagInv
  <2>4. After = new
    BY AfterApplied
  <2>5. low \in Fields /\ down \in Fields /\ replace \in Fields /\ left \in Fields
    BY AlarmFields DEF Alarms
  <2>6. \A f \in Fields \intersect Flags : old[f] \in BOOLEAN /\ g[f] \in BOOLEAN
    BY <1>1, FlagFits DEF IInv, TypeInv
  <2> HIDE DEF new
  <2>7. \/ BatteryStatus(g) \in BatteryStatus(old) .. BatteryStatus(new)
        \/ BatteryStatus(g) \in BatteryStatus(new) .. BatteryStatus(old)
        \/ /\ old.shutdown_imminent /\ ~old.need_replacement
           /\ new.need_replacement /\ ~new.shutdown_imminent
    <3>1. CASE \A f \in Alarms : g[f] = old[f] /\ new[f] = old[f]
      <4>1. /\ g[low] = old[low] /\ g[down] = old[down] /\ g[replace] = old[replace]
            /\ new[low] = old[low] /\ new[down] = old[down] /\ new[replace] = old[replace]
        BY <3>1 DEF Alarms
      <4>2. g[left] = old[left] \/ g[left] = new[left]
        BY <2>1, <2>2, <2>5
      <4>3. BatteryStatus(g) = BatteryStatus(old) \/ BatteryStatus(g) = BatteryStatus(new)
        BY <4>1, <4>2 DEF BatteryStatus
      <4>4. BatteryStatus(old) \in {2, 3, 4} /\ BatteryStatus(new) \in {2, 3, 4}
        BY BatteryStatusIs
      <4> HIDE DEF old
      <4> QED BY <4>3, <4>4
    <3>2. CASE old[left] = new[left] /\ g[left] = new[left]
      <4>1. CASE Among(todo, replace) /\ Among(todo, low)
        <5>1. g[replace] = old[replace] /\ g[down] = old[down] /\ g[low] = old[low]
          BY <2>1, <2>5, <4>1
        <5>2. BatteryStatus(g) = BatteryStatus(old)
          BY <3>2, <5>1 DEF BatteryStatus
        <5>3. BatteryStatus(old) \in {2, 3, 4} /\ BatteryStatus(new) \in {2, 3, 4}
          BY BatteryStatusIs
        <5> HIDE DEF old
        <5> QED BY <5>2, <5>3
      <4>2. CASE ~(Among(todo, replace) /\ Among(todo, low))
        <5> DEFINE b0 == old[low]
                   n0 == old[replace]
                   b1 == new[low]
                   n1 == new[replace]
        <5>1. \/ g[low] = b0 /\ g[down] = b0 /\ g[replace] = n0
              \/ g[low] = b1 /\ g[down] = b0 /\ g[replace] = n0
              \/ g[low] = b1 /\ g[down] = b1 /\ g[replace] = n0
              \/ g[low] = b1 /\ g[down] = b1 /\ g[replace] = n1
          BY <2>1, <2>2, <2>3, <2>5, <4>2
        <5>2. CASE ~(b0 /\ ~n0 /\ n1 /\ ~b1)
          <6> DEFINE b == g[low]
                     s == g[down]
                     n == g[replace]
          <6>1. /\ old[down] = b0 /\ new[down] = b1
                /\ g[left] = old[left] /\ new[left] = old[left]
            BY <2>1, <2>3, <3>2
          <6>2. /\ (old[low] <=> b0) /\ (old[down] <=> b0) /\ (old[replace] <=> n0)
                /\ (g[low] <=> b) /\ (g[down] <=> s) /\ (g[replace] <=> n)
                /\ (new[low] <=> b1) /\ (new[down] <=> b1) /\ (new[replace] <=> n1)
            BY <6>1, Zenon
          <6>3. \/ (b <=> b0) /\ (s <=> b0) /\ (n <=> n0)
                \/ (b <=> b1) /\ (s <=> b0) /\ (n <=> n0)
                \/ (b <=> b1) /\ (s <=> b1) /\ (n <=> n0)
                \/ (b <=> b1) /\ (s <=> b1) /\ (n <=> n1)
            BY <5>1, Zenon
          <6> HIDE DEF b0, n0, b, s, n, b1, n1
          <6>4. \/ BatteryStatus(g) \in BatteryStatus(old) .. BatteryStatus(new)
                \/ BatteryStatus(g) \in BatteryStatus(new) .. BatteryStatus(old)
            BY <5>2, <6>1, <6>2, <6>3, StatusBetween, Zenon
          <6> QED BY <6>4
        <5>3. CASE b0 /\ ~n0 /\ n1 /\ ~b1
          BY <2>1, <2>3, <5>3, Zenon
        <5> QED BY <5>2, <5>3
      <4> QED BY <4>1, <4>2
    <3> QED BY <2>1, <3>1, <3>2
  <2>8. \/ OutputSource(g) \in {OutputSource(old), OutputSource(new)}
        \/ old.ac_present /\ ~new.ac_present
    <3>1. \/ /\ g["ac_present"] = old["ac_present"]
             /\ g["discharging"] = old["discharging"]
          \/ g["ac_present"] = new["ac_present"]
      BY <2>1, <2>2, AlarmFields
    <3>2. /\ g["discharging"] = old["discharging"] \/ g["discharging"] = new["discharging"]
          /\ g["ac_present"] = old["ac_present"] \/ g["ac_present"] = new["ac_present"]
      BY <2>1, <2>2, AlarmFields
    <3> QED BY <3>1, <3>2, Zenon DEF OutputSource
  <2> QED BY <2>4, <2>7, <2>8 DEF TornOnlyOnExchange
<1> QED BY <1>1, IInvHolds, PTL

----------------------------------------------------------------------------
(* The place of an OID in k_oid_table.                                      *)

Oids == Seq(Int)

LEMMA Appended ==
  ASSUME NEW S, NEW s \in Seq(S), NEW t \in Seq(S), NEW r, r = s \o t
  PROVE  /\ r \in Seq(S) /\ Len(r) = Len(s) + Len(t)
         /\ \A i \in 1 .. Len(s) : r[i] = s[i]
         /\ \A i \in 1 .. Len(t) : r[Len(s) + i] = t[i]
<1>1. /\ s \o t \in Seq(S) /\ Len(s \o t) = Len(s) + Len(t)
      /\ \A i \in 1 .. Len(s) + Len(t) :
           (s \o t)[i] = IF i <= Len(s) THEN s[i] ELSE t[i - Len(s)]
  BY ConcatProperties, Zenon
<1>2. Len(s) \in Nat /\ Len(t) \in Nat
  OBVIOUS
<1> QED BY <1>1, <1>2

LEMMA OidShapes ==
  ASSUME NEW group \in Int, NEW table \in Int, NEW n \in Int
  PROVE  /\ System(n) \in Oids /\ Len(System(n)) = 8 /\ System(n)[7] = n
         /\ Scalar(group, n) \in Oids /\ Len(Scalar(group, n)) = 10
         /\ Scalar(group, n)[8] = group /\ Scalar(group, n)[9] = n
         /\ Line(group, table, n) \in Oids /\ Len(Line(group, table, n)) = 12
         /\ Line(group, table, n)[8] = group /\ Line(group, table, n)[9] = table
         /\ Line(group, table, n)[11] = n
<1>1. Ups \in Seq(Int) /\ Len(Ups) = 7
  BY DEF Ups
<1> DEFINE s == <<group, n, 0>>
           l == <<group, table, 1, n, 1>>
<1>2. /\ s \in Seq(Int) /\ Len(s) = 3 /\ s[1] = group /\ s[2] = n
      /\ l \in Seq(Int) /\ Len(l) = 5 /\ l[1] = group /\ l[2] = table /\ l[4] = n
  OBVIOUS
<1> HIDE DEF s, l
<1> DEFINE scalar == Ups \o s
           line == Ups \o l
<1> HIDE DEF scalar, line
<1>3. /\ scalar \in Seq(Int) /\ Len(scalar) = 7 + Len(s)
      /\ \A i \in 1 .. Len(s) : scalar[7 + i] = s[i]
  <2>1. scalar = Ups \o s
    BY DEF scalar
  <2>2. Ups \in Seq(Int) /\ s \in Seq(Int)
    BY <1>1, <1>2
  <2>3. /\ scalar \in Seq(Int) /\ Len(scalar) = Len(Ups) + Len(s)
        /\ \A i \in 1 .. Len(Ups) : scalar[i] = Ups[i]
        /\ \A i \in 1 .. Len(s) : scalar[Len(Ups) + i] = s[i]
    BY <2>1, <2>2, Appended
  <2> QED BY <1>1, <1>2, <2>3
<1>4. /\ line \in Seq(Int) /\ Len(line) = 7 + Len(l)
      /\ \A i \in 1 .. Len(l) : line[7 + i] = l[i]
  <2>1. line = Ups \o l
    BY DEF line
  <2>2. Ups \in Seq(Int) /\ l \in Seq(Int)
    BY <1>1, <1>2
  <2>3. /\ line \in Seq(Int) /\ Len(line) = Len(Ups) + Len(l)
        /\ \A i \in 1 .. Len(Ups) : line[i] = Ups[i]
        /\ \A i \in 1 .. Len(l) : line[Len(Ups) + i] = l[i]
    BY <2>1, <2>2, Appended
  <2> QED BY <1>1, <1>2, <2>3
<1>5. /\ scalar \in Seq(Int) /\ Len(scalar) = 10
      /\ scalar[8] = group /\ scalar[9] = n
  BY <1>2, <1>3
<1>6. /\ line \in Seq(Int) /\ Len(line) = 12
      /\ line[8] = group /\ line[9] = table /\ line[11] = n
  BY <1>2, <1>4
<1>7. System(n) \in Seq(Int) /\ Len(System(n)) = 8 /\ System(n)[7] = n
  BY DEF System
<1>8. Scalar(group, n) = scalar /\ Line(group, table, n) = line
  BY DEF Scalar, Line, scalar, line, s, l
<1> QED BY <1>5, <1>6, <1>7, <1>8 DEF Oids

\* What tells the OIDs of the table apart.
Code(oid) ==
  IF Len(oid) = 8 THEN oid[7]
  ELSE 1000 * oid[8] + 50 * oid[9] + (IF Len(oid) = 12 THEN oid[11] ELSE 0)

LEMMA OidCodes ==
  /\ \A n \in Int : Code(System(n)) = n
  /\ \A group, n \in Int : Code(Scalar(group, n)) = 1000 * group + 50 * n
  /\ \A group, table, n \in Int :
       Code(Line(group, table, n)) = 1000 * group + 50 * table + n
<1>1. ASSUME NEW group \in Int, NEW table \in Int, NEW n \in Int
      PROVE  /\ Code(System(n)) = n
             /\ Code(Scalar(group, n)) = 1000 * group + 50 * n
             /\ Code(Line(group, table, n)) = 1000 * group + 50 * table + n
  <2> DEFINE system == System(n)
             scalar == Scalar(group, n)
             line == Line(group, table, n)
  <2>1. /\ Len(system) = 8 /\ system[7] = n
        /\ Len(scalar) = 10 /\ scalar[8] = group /\ scalar[9] = n
        /\ Len(line) = 12 /\ line[8] = group /\ line[9] = table /\ line[11] = n
    BY OidShapes
  <2> HIDE DEF system, scalar, line
  <2>2. Code(system) = n
    BY <2>1 DEF Code
  <2>3. Code(scalar) = 1000 * group + 50 * n
    BY <2>1 DEF Code
  <2>4. Code(line) = 1000 * group + 50 * table + n
    BY <2>1 DEF Code
  <2> QED BY <2>2, <2>3, <2>4 DEF system, scalar, line
<1>2. ASSUME NEW n \in Int
      PROVE  Code(System(n)) = n
  BY <1>1
<1>3. ASSUME NEW group \in Int, NEW n \in Int
      PROVE  Code(Scalar(group, n)) = 1000 * group + 50 * n
  BY <1>1
<1>4. ASSUME NEW group \in Int, NEW table \in Int, NEW n \in Int
      PROVE  Code(Line(group, table, n)) = 1000 * group + 50 * table + n
  BY <1>1
<1> QED BY <1>2, <1>3, <1>4, Zenon

LEMMA TableIs ==
  /\ Len(k_oid_table) = 32
  /\ k_oid_table[1] = System(1) /\ k_oid_table[2] = System(5)
  /\ \A n \in 1 .. 6 : k_oid_table[2 + n] = Scalar(1, n)
  /\ \A n \in 1 .. 7 : k_oid_table[8 + n] = Scalar(2, n)
  /\ k_oid_table[16] = Scalar(3, 1) /\ k_oid_table[17] = Scalar(3, 2)
  /\ k_oid_table[18] = Line(3, 3, 2) /\ k_oid_table[19] = Line(3, 3, 3)
  /\ \A n \in 1 .. 3 : k_oid_table[19 + n] = Scalar(4, n)
  /\ \A n \in 2 .. 5 : k_oid_table[21 + n] = Line(4, 4, n)
  /\ k_oid_table[27] = Scalar(9, 1) /\ k_oid_table[28] = Scalar(9, 3)
  /\ k_oid_table[29] = Scalar(9, 6) /\ k_oid_table[30] = Scalar(9, 7)
  /\ k_oid_table[31] = Scalar(9, 9) /\ k_oid_table[32] = Scalar(9, 10)
<1> DEFINE a == <<System(1), System(5)>>
           b == [n \in 1 .. 6 |-> Scalar(1, n)]
           c == [n \in 1 .. 7 |-> Scalar(2, n)]
           d == <<Scalar(3, 1), Scalar(3, 2), Line(3, 3, 2), Line(3, 3, 3)>>
           e == <<Scalar(4, 1), Scalar(4, 2), Scalar(4, 3),
                  Line(4, 4, 2), Line(4, 4, 3), Line(4, 4, 4), Line(4, 4, 5)>>
           f == <<Scalar(9, 1), Scalar(9, 3), Scalar(9, 6), Scalar(9, 7),
                  Scalar(9, 9), Scalar(9, 10)>>
           ab == a \o b
           ac == ab \o c
           ad == ac \o d
           ae == ad \o e
           af == ae \o f
<1>1. \A group, table, n \in Int :
        System(n) \in Oids /\ Scalar(group, n) \in Oids /\ Line(group, table, n) \in Oids
  BY OidShapes
<1>2. /\ a \in Seq(Oids) /\ Len(a) = 2
      /\ a[1] = System(1) /\ a[2] = System(5)
  BY <1>1
<1>3. /\ b \in Seq(Oids) /\ Len(b) = 6 /\ \A n \in 1 .. 6 : b[n] = Scalar(1, n)
  <2>1. \A n \in 1 .. 6 : Scalar(1, n) \in Oids
    BY <1>1
  <2> QED BY <2>1
<1>4. /\ c \in Seq(Oids) /\ Len(c) = 7 /\ \A n \in 1 .. 7 : c[n] = Scalar(2, n)
  <2>1. \A n \in 1 .. 7 : Scalar(2, n) \in Oids
    BY <1>1
  <2> QED BY <2>1
<1>5. /\ d \in Seq(Oids) /\ Len(d) = 4
      /\ d[1] = Scalar(3, 1) /\ d[2] = Scalar(3, 2)
      /\ d[3] = Line(3, 3, 2) /\ d[4] = Line(3, 3, 3)
  BY <1>1
<1>6. /\ e \in Seq(Oids) /\ Len(e) = 7
      /\ e[1] = Scalar(4, 1) /\ e[2] = Scalar(4, 2) /\ e[3] = Scalar(4, 3)
      /\ e[4] = Line(4, 4, 2) /\ e[5] = Line(4, 4, 3)
      /\ e[6] = Line(4, 4, 4) /\ e[7] = Line(4, 4, 5)
  BY <1>1
<1>7. /\ f \in Seq(Oids) /\ Len(f) = 6
      /\ f[1] = Scalar(9, 1) /\ f[2] = Scalar(9, 3) /\ f[3] = Scalar(9, 6)
      /\ f[4] = Scalar(9, 7) /\ f[5] = Scalar(9, 9) /\ f[6] = Scalar(9, 10)
  BY <1>1
<1>8. k_oid_table = af
  BY DEF k_oid_table
<1> HIDE DEF a, b, c, d, e, f, ab, ac, ad, ae, af
<1>9. /\ ab \in Seq(Oids) /\ Len(ab) = 8
      /\ \A i \in 1 .. 2 : ab[i] = a[i]
      /\ \A i \in 1 .. 6 : ab[2 + i] = b[i]
  <2>1. ab = a \o b
    BY DEF ab
  <2>2. a \in Seq(Oids) /\ b \in Seq(Oids)
    BY <1>2, <1>3
  <2>3. /\ ab \in Seq(Oids) /\ Len(ab) = Len(a) + Len(b)
        /\ \A i \in 1 .. Len(a) : ab[i] = a[i]
        /\ \A i \in 1 .. Len(b) : ab[Len(a) + i] = b[i]
    BY <2>1, <2>2, Appended
  <2> QED BY <1>2, <1>3, <2>3
<1>10. /\ ac \in Seq(Oids) /\ Len(ac) = 15
       /\ \A i \in 1 .. 8 : ac[i] = ab[i]
       /\ \A i \in 1 .. 7 : ac[8 + i] = c[i]
  <2>1. ac = ab \o c
    BY DEF ac
  <2>2. ab \in Seq(Oids) /\ c \in Seq(Oids)
    BY <1>4, <1>9
  <2>3. /\ ac \in Seq(Oids) /\ Len(ac) = Len(ab) + Len(c)
        /\ \A i \in 1 .. Len(ab) : ac[i] = ab[i]
        /\ \A i \in 1 .. Len(c) : ac[Len(ab) + i] = c[i]
    BY <2>1, <2>2, Appended
  <2> QED BY <1>4, <1>9, <2>3
<1>11. /\ ad \in Seq(Oids) /\ Len(ad) = 19
       /\ \A i \in 1 .. 15 : ad[i] = ac[i]
       /\ \A i \in 1 .. 4 : ad[15 + i] = d[i]
  <2>1. ad = ac \o d
    BY DEF ad
  <2>2. ac \in Seq(Oids) /\ d \in Seq(Oids)
    BY <1>5, <1>10
  <2>3. /\ ad \in Seq(Oids) /\ Len(ad) = Len(ac) + Len(d)
        /\ \A i \in 1 .. Len(ac) : ad[i] = ac[i]
        /\ \A i \in 1 .. Len(d) : ad[Len(ac) + i] = d[i]
    BY <2>1, <2>2, Appended
  <2> QED BY <1>5, <1>10, <2>3
<1>12. /\ ae \in Seq(Oids) /\ Len(ae) = 26
       /\ \A i \in 1 .. 19 : ae[i] = ad[i]
       /\ \A i \in 1 .. 7 : ae[19 + i] = e[i]
  <2>1. ae = ad \o e
    BY DEF ae
  <2>2. ad \in Seq(Oids) /\ e \in Seq(Oids)
    BY <1>6, <1>11
  <2>3. /\ ae \in Seq(Oids) /\ Len(ae) = Len(ad) + Len(e)
        /\ \A i \in 1 .. Len(ad) : ae[i] = ad[i]
        /\ \A i \in 1 .. Len(e) : ae[Len(ad) + i] = e[i]
    BY <2>1, <2>2, Appended
  <2> QED BY <1>6, <1>11, <2>3
<1>13. /\ af \in Seq(Oids) /\ Len(af) = 32
       /\ \A i \in 1 .. 26 : af[i] = ae[i]
       /\ \A i \in 1 .. 6 : af[26 + i] = f[i]
  <2>1. af = ae \o f
    BY DEF af
  <2>2. ae \in Seq(Oids) /\ f \in Seq(Oids)
    BY <1>7, <1>12
  <2>3. /\ af \in Seq(Oids) /\ Len(af) = Len(ae) + Len(f)
        /\ \A i \in 1 .. Len(ae) : af[i] = ae[i]
        /\ \A i \in 1 .. Len(f) : af[Len(ae) + i] = f[i]
    BY <2>1, <2>2, Appended
  <2> QED BY <1>7, <1>12, <2>3
<1> QED BY <1>2, <1>3, <1>4, <1>5, <1>6, <1>7, <1>8, <1>9, <1>10, <1>11, <1>12, <1>13

Codes == [k \in 1 .. 32 |-> Code(k_oid_table[k])]

LEMMA TableCodes ==
  /\ Codes[1] = 1 /\ Codes[2] = 5
  /\ Codes[16] = 3050 /\ Codes[17] = 3100 /\ Codes[18] = 3152 /\ Codes[19] = 3153
  /\ Codes[27] = 9050 /\ Codes[28] = 9150 /\ Codes[29] = 9300 /\ Codes[30] = 9350
  /\ Codes[31] = 9450 /\ Codes[32] = 9500
  /\ \A k \in 3 .. 8 : Codes[k] = 1000 + 50 * (k - 2)
  /\ \A k \in 9 .. 15 : Codes[k] = 2000 + 50 * (k - 8)
  /\ \A k \in 20 .. 22 : Codes[k] = 4000 + 50 * (k - 19)
  /\ \A k \in 23 .. 26 : Codes[k] = 4200 + (k - 21)
<1> DEFINE c == [k \in 1 .. 32 |-> Code(k_oid_table[k])]
<1>1. /\ c[1] = 1 /\ c[2] = 5
      /\ c[16] = 3050 /\ c[17] = 3100 /\ c[18] = 3152 /\ c[19] = 3153
      /\ c[27] = 9050 /\ c[28] = 9150 /\ c[29] = 9300 /\ c[30] = 9350
      /\ c[31] = 9450 /\ c[32] = 9500
  <2>1. /\ c[1] = Code(System(1)) /\ c[2] = Code(System(5))
        /\ c[16] = Code(Scalar(3, 1)) /\ c[17] = Code(Scalar(3, 2))
        /\ c[18] = Code(Line(3, 3, 2)) /\ c[19] = Code(Line(3, 3, 3))
        /\ c[27] = Code(Scalar(9, 1)) /\ c[28] = Code(Scalar(9, 3))
        /\ c[29] = Code(Scalar(9, 6)) /\ c[30] = Code(Scalar(9, 7))
        /\ c[31] = Code(Scalar(9, 9)) /\ c[32] = Code(Scalar(9, 10))
    BY TableIs
  <2> HIDE DEF c
  <2>2. Code(System(1)) = 1 /\ Code(System(5)) = 5
    BY OidCodes
  <2>3. Code(Line(3, 3, 2)) = 3152 /\ Code(Line(3, 3, 3)) = 3153
    BY OidCodes
  <2>4. Code(Scalar(3, 1)) = 3050 /\ Code(Scalar(3, 2)) = 3100
    BY OidCodes
  <2>5. Code(Scalar(9, 1)) = 9050 /\ Code(Scalar(9, 3)) = 9150
    BY OidCodes
  <2>6. Code(Scalar(9, 6)) = 9300 /\ Code(Scalar(9, 7)) = 9350
    BY OidCodes
  <2>7. Code(Scalar(9, 9)) = 9450 /\ Code(Scalar(9, 10)) = 9500
    BY OidCodes
  <2> QED BY <2>1, <2>2, <2>3, <2>4, <2>5, <2>6, <2>7
<1>2. ASSUME NEW n \in 1 .. 6
      PROVE  c[2 + n] = 1000 + 50 * n
  <2>1. c[2 + n] = Code(Scalar(1, n))
    BY TableIs
  <2> HIDE DEF c
  <2> QED BY <2>1, OidCodes
<1>3. ASSUME NEW n \in 1 .. 7
      PROVE  c[8 + n] = 2000 + 50 * n
  <2>1. c[8 + n] = Code(Scalar(2, n))
    BY TableIs
  <2> HIDE DEF c
  <2> QED BY <2>1, OidCodes
<1>4. ASSUME NEW n \in 1 .. 3
      PROVE  c[19 + n] = 4000 + 50 * n
  <2>1. c[19 + n] = Code(Scalar(4, n))
    BY TableIs
  <2> HIDE DEF c
  <2> QED BY <2>1, OidCodes
<1>5. ASSUME NEW n \in 2 .. 5
      PROVE  c[21 + n] = 4200 + n
  <2>1. c[21 + n] = Code(Line(4, 4, n))
    BY TableIs
  <2> HIDE DEF c
  <2> QED BY <2>1, OidCodes
<1> HIDE DEF c
<1>6. /\ \A k \in 3 .. 8 : c[k] = 1000 + 50 * (k - 2)
      /\ \A k \in 9 .. 15 : c[k] = 2000 + 50 * (k - 8)
      /\ \A k \in 20 .. 22 : c[k] = 4000 + 50 * (k - 19)
      /\ \A k \in 23 .. 26 : c[k] = 4200 + (k - 21)
  <2>1. ASSUME NEW k \in 3 .. 8
        PROVE  c[k] = 1000 + 50 * (k - 2)
    <3>1. k - 2 \in 1 .. 6 /\ 2 + (k - 2) = k
      OBVIOUS
    <3> QED BY <1>2, <3>1
  <2>2. ASSUME NEW k \in 9 .. 15
        PROVE  c[k] = 2000 + 50 * (k - 8)
    <3>1. k - 8 \in 1 .. 7 /\ 8 + (k - 8) = k
      OBVIOUS
    <3> QED BY <1>3, <3>1
  <2>3. ASSUME NEW k \in 20 .. 22
        PROVE  c[k] = 4000 + 50 * (k - 19)
    <3>1. k - 19 \in 1 .. 3 /\ 19 + (k - 19) = k
      OBVIOUS
    <3> QED BY <1>4, <3>1
  <2>4. ASSUME NEW k \in 23 .. 26
        PROVE  c[k] = 4200 + (k - 21)
    <3>1. k - 21 \in 2 .. 5 /\ 21 + (k - 21) = k
      OBVIOUS
    <3> QED BY <1>5, <3>1
  <2> QED BY <2>1, <2>2, <2>3, <2>4
<1>7. Codes = c
  BY DEF c, Codes
<1> QED BY <1>1, <1>6, <1>7

LEMMA TableDistinct ==
  ASSUME NEW i \in 1 .. 32, NEW j \in 1 .. 32, k_oid_table[i] = k_oid_table[j]
  PROVE  i = j
<1>1. Codes[i] = Codes[j]
  BY DEF Codes
<1> QED BY <1>1, TableCodes

LEMMA ServedAt ==
  ASSUME NEW oid, NEW i \in 1 .. 32, k_oid_table[i] = oid
  PROVE  Served(oid) = Values(g)[i]
<1>1. {j \in Agent!Entries : k_oid_table[j] = oid} = {i}
  BY TableIs, TableDistinct DEF Agent!Entries
<1>2. Agent!FirstOf({i}) = i
  BY DEF Agent!FirstOf
<1>3. Agent!LookupExact(oid) = i
  BY <1>1, <1>2 DEF Agent!LookupExact
<1> QED BY <1>3 DEF Served

LEMMA ValuesAre ==
  ASSUME NEW v
  PROVE  /\ Values(v)[9] = BatteryStatus(v)
         /\ Values(v)[11] = v.run_time_to_empty_s \div 60
         /\ Values(v)[12] = v.remaining_capacity
         /\ Values(v)[13] = v.battery_voltage \div 10
         /\ Values(v)[14] = CDiv(v.battery_current, 10)
         /\ Values(v)[15] = (IF v.temperature >= 2731
                             THEN (v.temperature - 2731) \div 10 ELSE 0)
         /\ Values(v)[18] = v.input_frequency \div 10
         /\ Values(v)[19] = Rounded(v.input_voltage)
         /\ Values(v)[20] = OutputSource(v)
         /\ Values(v)[21] = v.output_frequency \div 10
         /\ Values(v)[23] = Rounded(v.output_voltage)
         /\ Values(v)[24] = CDiv(v.output_current, 10)
         /\ Values(v)[25] = (v.config_active_power * v.percent_load) \div 100
         /\ Values(v)[26] = v.percent_load
         /\ Values(v)[27] = Rounded(v.input_config_voltage)
         /\ Values(v)[28] = Rounded(v.output_config_voltage)
         /\ Values(v)[29] = v.config_active_power
         /\ Values(v)[31] = Rounded(v.low_voltage_transfer)
         /\ Values(v)[32] = Rounded(v.high_voltage_transfer)
BY DEF Values

\* What a GET of each measured object is answered with.
LEMMA BatteryServed ==
  /\ Served(Scalar(2, 1)) = BatteryStatus(g)
  /\ Served(Scalar(2, 3)) = g.run_time_to_empty_s \div 60
  /\ Served(Scalar(2, 4)) = g.remaining_capacity
  /\ Served(Scalar(2, 5)) = g.battery_voltage \div 10
  /\ Served(Scalar(2, 6)) = CDiv(g.battery_current, 10)
  /\ Served(Scalar(2, 7)) = IF g.temperature >= 2731
                            THEN (g.temperature - 2731) \div 10 ELSE 0
<1>1. /\ k_oid_table[9] = Scalar(2, 1) /\ k_oid_table[11] = Scalar(2, 3)
      /\ k_oid_table[12] = Scalar(2, 4) /\ k_oid_table[13] = Scalar(2, 5)
      /\ k_oid_table[14] = Scalar(2, 6) /\ k_oid_table[15] = Scalar(2, 7)
  BY TableIs
<1>2. /\ Served(Scalar(2, 1)) = Values(g)[9] /\ Served(Scalar(2, 3)) = Values(g)[11]
      /\ Served(Scalar(2, 4)) = Values(g)[12] /\ Served(Scalar(2, 5)) = Values(g)[13]
      /\ Served(Scalar(2, 6)) = Values(g)[14] /\ Served(Scalar(2, 7)) = Values(g)[15]
  BY <1>1, ServedAt
<1> QED BY <1>2, ValuesAre

LEMMA LinesServed ==
  /\ Served(Line(3, 3, 2)) = g.input_frequency \div 10
  /\ Served(Line(3, 3, 3)) = Rounded(g.input_voltage)
  /\ Served(Scalar(4, 1)) = OutputSource(g)
  /\ Served(Scalar(4, 2)) = g.output_frequency \div 10
  /\ Served(Line(4, 4, 2)) = Rounded(g.output_voltage)
  /\ Served(Line(4, 4, 3)) = CDiv(g.output_current, 10)
  /\ Served(Line(4, 4, 4)) = (g.config_active_power * g.percent_load) \div 100
  /\ Served(Line(4, 4, 5)) = g.percent_load
<1>1. /\ k_oid_table[18] = Line(3, 3, 2) /\ k_oid_table[19] = Line(3, 3, 3)
      /\ k_oid_table[20] = Scalar(4, 1) /\ k_oid_table[21] = Scalar(4, 2)
      /\ k_oid_table[23] = Line(4, 4, 2) /\ k_oid_table[24] = Line(4, 4, 3)
      /\ k_oid_table[25] = Line(4, 4, 4) /\ k_oid_table[26] = Line(4, 4, 5)
  BY TableIs
<1>2. /\ Served(Line(3, 3, 2)) = Values(g)[18] /\ Served(Line(3, 3, 3)) = Values(g)[19]
      /\ Served(Scalar(4, 1)) = Values(g)[20] /\ Served(Scalar(4, 2)) = Values(g)[21]
      /\ Served(Line(4, 4, 2)) = Values(g)[23] /\ Served(Line(4, 4, 3)) = Values(g)[24]
      /\ Served(Line(4, 4, 4)) = Values(g)[25] /\ Served(Line(4, 4, 5)) = Values(g)[26]
  BY <1>1, ServedAt
<1> QED BY <1>2, ValuesAre

LEMMA RatingsServed ==
  /\ Served(Scalar(9, 1)) = Rounded(g.input_config_voltage)
  /\ Served(Scalar(9, 3)) = Rounded(g.output_config_voltage)
  /\ Served(Scalar(9, 6)) = g.config_active_power
  /\ Served(Scalar(9, 9)) = Rounded(g.low_voltage_transfer)
  /\ Served(Scalar(9, 10)) = Rounded(g.high_voltage_transfer)
<1>1. /\ k_oid_table[27] = Scalar(9, 1) /\ k_oid_table[28] = Scalar(9, 3)
      /\ k_oid_table[29] = Scalar(9, 6)
      /\ k_oid_table[31] = Scalar(9, 9) /\ k_oid_table[32] = Scalar(9, 10)
  BY TableIs
<1>2. /\ Served(Scalar(9, 1)) = Values(g)[27] /\ Served(Scalar(9, 3)) = Values(g)[28]
      /\ Served(Scalar(9, 6)) = Values(g)[29]
      /\ Served(Scalar(9, 9)) = Values(g)[31] /\ Served(Scalar(9, 10)) = Values(g)[32]
  BY <1>1, ServedAt
<1> QED BY <1>2, ValuesAre

----------------------------------------------------------------------------
(* What a manager gets between two callbacks.                               *)

LEMMA KeptAtRest ==
  ASSUME IInv, AtRest, NEW f \in Measured
  PROVE  said[f] \in Int /\ Holds(f, said[f]) /\ Kept(f, g[f], said[f])
<1>1. f \in Numbers /\ f \in Fields
  BY DEF Measured, Fields
<1>2. said[f] \in Int
  BY <1>1 DEF IInv, TypeInv
<1>3. Applied(g, todo)[f] = g[f]
  BY <1>1, RestApplied DEF IInv, AtRest
<1> QED BY <1>2, <1>3 DEF IInv, AmountInv

\* A field that holds an amount as it is said.
LEMMA PlainAtRest ==
  ASSUME IInv, AtRest, NEW f \in Plain
  PROVE  /\ g[f] = said[f] /\ said[f] \in Int
         /\ f \notin Shorts => said[f] \in Nat
<1>1. f \in Measured /\ f # "temperature"
  BY DEF Plain, Measured
<1>2. said[f] \in Int /\ Holds(f, said[f]) /\ Kept(f, g[f], said[f])
  BY <1>1, KeptAtRest
<1>3. CASE f \in Shorts
  <2>1. Conversion(f, said[f]) = said[f]
    BY <1>2, <1>3, ShortFields
  <2> QED BY <1>1, <1>2, <1>3, <2>1 DEF Kept
<1>4. CASE f \notin Shorts
  <2>1. Conversion(f, said[f]) = said[f] /\ (Holds(f, said[f]) <=> said[f] \in 0 .. U16Max)
    BY <1>2, <1>4, PlainFields
  <2> QED BY <1>1, <1>2, <1>4, <2>1, Widths DEF Kept
<1> QED BY <1>3, <1>4

\* Each way snmp_get_value_by_index() scales a field loses less than a unit.
LEMMA NearTenth ==
  ASSUME NEW oid, NEW v \in Nat, Served(oid) = v \div 10
  PROVE  Near(oid, v, 10)
BY DEF Near, Abs

LEMMA NearRounded ==
  ASSUME NEW oid, NEW v \in Nat, Served(oid) = Rounded(v)
  PROVE  Near(oid, v, 100)
BY DEF Near, Abs, Rounded

LEMMA NearCurrent ==
  ASSUME NEW oid, NEW v \in Int, Served(oid) = CDiv(v, 10)
  PROVE  Near(oid, v, 10)
BY DEF Near, Abs, CDiv

\* The amounts a parser converts.
LEMMA NearCapacity ==
  ASSUME NEW oid, NEW a \in Int, a > -10, Served(oid) = CDiv(a, 10) \div 10
  PROVE  Near(oid, a, 100)
<1>1. CASE a < 0
  <2>1. CDiv(a, 10) = 0
    BY <1>1 DEF CDiv
  <2>2. Served(oid) = 0
    BY <2>1
  <2> QED BY <1>1, <2>2 DEF Near, Abs
<1>2. CASE a >= 0
  <2>1. Served(oid) = (a \div 10) \div 10
    BY <1>2 DEF CDiv
  <2> QED BY <1>2, <2>1 DEF Near, Abs
<1> QED BY <1>1, <1>2

LEMMA NearLoad ==
  ASSUME NEW oid, NEW a \in Nat, Served(oid) = a \div 100
  PROVE  Near(oid, a, 100)
BY DEF Near, Abs

LEMMA NearPower ==
  ASSUME NEW oid, NEW a \in Int, a > -100, Served(oid) = CDiv(a, 100)
  PROVE  Near(oid, a, 100)
BY DEF Near, Abs, CDiv

LEMMA NearTemperature ==
  ASSUME NEW oid, NEW a \in Int, a > -27320, NEW t, t = CDiv(a, 10) + 2731,
         Served(oid) = IF t >= 2731 THEN (t - 2731) \div 10 ELSE 0
  PROVE  Near(oid, IF a < 0 THEN 0 ELSE a, 100)
<1>1. CASE a < 0
  <2>1. CDiv(a, 10) <= 0 /\ CDiv(a, 10) \in Int
    BY <1>1 DEF CDiv
  <2>2. Served(oid) = 0
    BY <2>1
  <2> QED BY <1>1, <2>2 DEF Near, Abs
<1>2. CASE a >= 0
  <2>1. CDiv(a, 10) = a \div 10 /\ a \div 10 >= 0
    BY <1>2 DEF CDiv
  <2>2. Served(oid) = (a \div 10) \div 10
    BY <1>2, <2>1
  <2> QED BY <1>2, <2>2 DEF Near, Abs
<1> QED BY <1>1, <1>2

LEMMA RuntimeServed ==
  ASSUME NEW oid, NEW a \in Int, a > -100,
         Served(oid) = Conversion("run_time_to_empty_s", a) \div 60
  PROVE  Near(oid, a, 100) \/ (a > 109200 /\ Served(oid) = 1092)
<1> DEFINE c == CDiv(a, 100)
<1>1. Conversion("run_time_to_empty_s", a) = IF 60 * c > U16Max THEN U16Max ELSE 60 * c
  BY DEF Conversion
<1>2. c \in Int /\ (c >= 1 => a >= 100 * c)
  BY DEF CDiv
<1>3. CASE 60 * c > U16Max
  <2>1. c >= 1093
    BY <1>2, <1>3, Widths
  <2>2. a > 109200
    BY <1>2, <2>1
  <2>3. U16Max \div 60 = 1092
    BY DEF U16Max
  <2>4. Served(oid) = 1092
    BY <1>1, <1>3, <2>3
  <2> QED BY <2>2, <2>4
<1>4. CASE ~(60 * c > U16Max)
  <2> HIDE DEF c
  <2>1. Served(oid) = (60 * c) \div 60
    BY <1>1, <1>4
  <2>2. Served(oid) = c
    BY <1>2, <2>1
  <2> QED BY <2>2, NearPower DEF c
<1> QED BY <1>3, <1>4

\* Every measurement a manager gets by its OID is what the UPS last said, off by less
\* than a unit, for every amount: no parser, clamp or division loses more.
THEOREM MeasuresAreTold == Spec => []MeasuresTrue
<1>1. ASSUME IInv, AtRest
      PROVE  /\ \A cmd \in DOMAIN Unit :
                  Near(Unit[cmd][1], said[Lut[cmd].out], Unit[cmd][2])
             /\ Near(Scalar(2, 7), IF said.temperature < 0 THEN 0 ELSE said.temperature, 100)
             /\ \/ Near(Scalar(2, 3), said.run_time_to_empty_s, 100)
                \/ said.run_time_to_empty_s > 109200 /\ Served(Scalar(2, 3)) = 1092
  <2>1. /\ g["battery_voltage"] = said["battery_voltage"]
        /\ said["battery_voltage"] \in Nat
        /\ g["input_voltage"] = said["input_voltage"]
        /\ said["input_voltage"] \in Nat
        /\ g["input_frequency"] = said["input_frequency"]
        /\ said["input_frequency"] \in Nat
        /\ g["output_voltage"] = said["output_voltage"]
        /\ said["output_voltage"] \in Nat
        /\ g["output_frequency"] = said["output_frequency"]
        /\ said["output_frequency"] \in Nat
        /\ g["low_voltage_transfer"] = said["low_voltage_transfer"]
        /\ said["low_voltage_transfer"] \in Nat
        /\ g["high_voltage_transfer"] = said["high_voltage_transfer"]
        /\ said["high_voltage_transfer"] \in Nat
    <3>1. \A f \in Plain \ Shorts : g[f] = said[f] /\ said[f] \in Nat
      BY <1>1, PlainAtRest
    <3>2. {"battery_voltage", "input_voltage", "input_frequency", "output_voltage",
           "output_frequency", "low_voltage_transfer", "high_voltage_transfer"}
            \subseteq Plain \ Shorts
      BY DEF Plain, Numbers, Words, Shorts, Bytes
    <3> QED BY <3>1, <3>2
  <2>2. /\ g["battery_current"] = said["battery_current"] /\ said["battery_current"] \in Int
        /\ g["output_current"] = said["output_current"] /\ said["output_current"] \in Int
    <3>1. "battery_current" \in Plain /\ "output_current" \in Plain
      BY DEF Plain, Numbers, Words, Shorts, Bytes
    <3> QED BY <1>1, <3>1, PlainAtRest
  <2>3. \A f \in {"remaining_capacity", "percent_load", "temperature", "run_time_to_empty_s"} :
          said[f] \in Int /\ Holds(f, said[f]) /\ Kept(f, g[f], said[f])
    <3>1. {"remaining_capacity", "percent_load", "temperature", "run_time_to_empty_s"}
            \subseteq Measured
      BY DEF Measured, Numbers, Words, Shorts, Bytes
    <3> QED BY <1>1, <3>1, KeptAtRest
  <2>4. /\ Near(Scalar(2, 5), said["battery_voltage"], 10)
        /\ Near(Line(3, 3, 2), said["input_frequency"], 10)
        /\ Near(Scalar(4, 2), said["output_frequency"], 10)
    BY <2>1, BatteryServed, LinesServed, NearTenth
  <2>5. /\ Near(Line(3, 3, 3), said["input_voltage"], 100)
        /\ Near(Line(4, 4, 2), said["output_voltage"], 100)
        /\ Near(Scalar(9, 9), said["low_voltage_transfer"], 100)
        /\ Near(Scalar(9, 10), said["high_voltage_transfer"], 100)
    BY <2>1, LinesServed, RatingsServed, NearRounded
  <2>6. /\ Near(Scalar(2, 6), said["battery_current"], 10)
        /\ Near(Line(4, 4, 3), said["output_current"], 10)
    BY <2>2, BatteryServed, LinesServed, NearCurrent
  <2>7. Near(Scalar(2, 4), said["remaining_capacity"], 100)
    <3> DEFINE a == said["remaining_capacity"]
    <3>1. a \in Int /\ a > -10 /\ g["remaining_capacity"] = CDiv(a, 10) \div 10
      BY <2>3 DEF Holds, Kept, Conversion, Shorts
    <3> QED BY <3>1, BatteryServed, NearCapacity
  <2>8. Near(Line(4, 4, 5), said["percent_load"], 100)
    <3> DEFINE a == said["percent_load"]
    <3>1. a \in Nat /\ g["percent_load"] = a \div 100
      BY <2>3 DEF Holds, Kept, Conversion, Shorts
    <3> QED BY <3>1, LinesServed, NearLoad
  <2>9. Near(Scalar(2, 7), IF said.temperature < 0 THEN 0 ELSE said.temperature, 100)
    <3> DEFINE a == said["temperature"]
    <3>1. /\ a \in Int /\ a > -27320
          /\ g["temperature"] = CDiv(a, 10) + 2731 \/ (a = 0 /\ g["temperature"] = 0)
      BY <2>3 DEF Holds, Kept, Conversion, Shorts
    <3>2. CASE g["temperature"] = CDiv(a, 10) + 2731
      BY <3>1, <3>2, BatteryServed, NearTemperature
    <3>3. CASE a = 0 /\ g["temperature"] = 0
      <4>1. Served(Scalar(2, 7)) = 0
        BY <3>3, BatteryServed
      <4> QED BY <3>3, <4>1 DEF Near, Abs
    <3> QED BY <3>1, <3>2, <3>3
  <2>10. \/ Near(Scalar(2, 3), said.run_time_to_empty_s, 100)
         \/ said.run_time_to_empty_s > 109200 /\ Served(Scalar(2, 3)) = 1092
    <3> DEFINE a == said["run_time_to_empty_s"]
    <3>1. /\ a \in Int /\ a > -100
          /\ g["run_time_to_empty_s"] = Conversion("run_time_to_empty_s", a)
      BY <2>3 DEF Holds, Kept, Shorts
    <3> QED BY <3>1, BatteryServed, RuntimeServed
  <2>11. ASSUME NEW cmd \in DOMAIN Unit
         PROVE  Near(Unit[cmd][1], said[Lut[cmd].out], Unit[cmd][2])
    <3>1. cmd \in {"x42", "x9FD4", "x66", "x5C", "x4C", "x9FD3", "x4F", "x46", "x2F",
                   "x6C", "x75"}
      BY DEF Unit
    <3>2. /\ Lut["x42"].out = "battery_voltage" /\ Lut["x9FD4"].out = "battery_current"
          /\ Lut["x66"].out = "remaining_capacity" /\ Lut["x5C"].out = "percent_load"
          /\ Lut["x4C"].out = "input_voltage" /\ Lut["x9FD3"].out = "input_frequency"
          /\ Lut["x4F"].out = "output_voltage" /\ Lut["x46"].out = "output_frequency"
          /\ Lut["x2F"].out = "output_current" /\ Lut["x6C"].out = "low_voltage_transfer"
          /\ Lut["x75"].out = "high_voltage_transfer"
      BY DEF Lut, Item
    <3>3. /\ Unit["x42"] = <<Scalar(2, 5), 10>> /\ Unit["x9FD4"] = <<Scalar(2, 6), 10>>
          /\ Unit["x66"] = <<Scalar(2, 4), 100>> /\ Unit["x5C"] = <<Line(4, 4, 5), 100>>
          /\ Unit["x4C"] = <<Line(3, 3, 3), 100>> /\ Unit["x9FD3"] = <<Line(3, 3, 2), 10>>
          /\ Unit["x4F"] = <<Line(4, 4, 2), 100>> /\ Unit["x46"] = <<Scalar(4, 2), 10>>
          /\ Unit["x2F"] = <<Line(4, 4, 3), 10>> /\ Unit["x6C"] = <<Scalar(9, 9), 100>>
          /\ Unit["x75"] = <<Scalar(9, 10), 100>>
      BY DEF Unit
    <3> QED BY <2>4, <2>5, <2>6, <2>7, <2>8, <3>1, <3>2, <3>3
  <2> QED BY <2>9, <2>10, <2>11
<1>2. IInv => MeasuresTrue
  BY <1>1 DEF MeasuresTrue
<1> QED BY <1>2, IInvHolds, PTL

\* The ratings a manager gets are those of one list, and the output power is the
\* share of the rated power that the load is.
THEOREM RatingsAreTold == Spec => []RatingsTrue
<1>1. ASSUME IInv, AtRest
      PROVE  /\ Near(Scalar(9, 6), said.config_active_power, 100)
             /\ Near(Scalar(9, 1), said.input_config_voltage, 100)
             /\ Near(Scalar(9, 3), said.output_config_voltage, 100)
             /\ Near(Line(4, 4, 4),
                     CDiv(said.config_active_power, 100) * (said.percent_load \div 100), 100)
  <2>1. /\ Near(Scalar(9, 1), said["input_config_voltage"], 100)
        /\ Near(Scalar(9, 3), said["output_config_voltage"], 100)
    <3>1. {"input_config_voltage", "output_config_voltage"} \subseteq Plain \ Shorts
      BY DEF Plain, Numbers, Words, Shorts, Bytes
    <3>2. /\ g["input_config_voltage"] = said["input_config_voltage"]
          /\ said["input_config_voltage"] \in Nat
          /\ g["output_config_voltage"] = said["output_config_voltage"]
          /\ said["output_config_voltage"] \in Nat
      BY <1>1, <3>1, PlainAtRest
    <3> QED BY <3>2, RatingsServed, NearRounded
  <2> DEFINE power == said["config_active_power"]
             load == said["percent_load"]
             product == CDiv(power, 100) * (load \div 100)
  <2>2. /\ power \in Int /\ power > -100
        /\ g["config_active_power"] = CDiv(power, 100)
    <3>1. "config_active_power" \in Measured
      BY DEF Measured, Numbers, Words
    <3> QED BY <1>1, <3>1, KeptAtRest DEF Holds, Kept, Conversion, Shorts
  <2>3. load \in Nat /\ g["percent_load"] = load \div 100
    <3>1. "percent_load" \in Measured
      BY DEF Measured, Numbers, Words, Bytes
    <3> QED BY <1>1, <3>1, KeptAtRest DEF Holds, Kept, Conversion, Shorts
  <2>4. Near(Scalar(9, 6), power, 100)
    BY <2>2, RatingsServed, NearPower
  <2>5. product \in Nat
    <3>1. CDiv(power, 100) \in Nat /\ load \div 100 \in Nat
      BY <2>2, <2>3 DEF CDiv
    <3>2. \A m, n \in Nat : m * n \in Nat
      OBVIOUS
    <3> QED BY <3>1, <3>2, Zenon
  <2>6. Served(Line(4, 4, 4)) = product \div 100
    BY <2>2, <2>3, LinesServed
  <2> HIDE DEF product
  <2>7. Near(Line(4, 4, 4), product, 100)
    BY <2>5, <2>6, NearLoad
  <2> QED BY <2>1, <2>4, <2>7 DEF product
<1>2. IInv => RatingsTrue
  BY <1>1 DEF RatingsTrue
<1> QED BY <1>2, IInvHolds, PTL

\* The battery status and the output source are what the last reports say, whichever
\* of the two reports of the mains and of the discharge came last.
THEOREM StatusIsTold == Spec => []StatusTrue
<1>1. ASSUME IInv, AtRest
      PROVE  /\ Served(Scalar(2, 1)) =
                  IF said.remaining_capacity < 100 \/ raised \cap {"low", "replace"} # {} THEN 4
                  ELSE IF said.remaining_capacity < 1100 THEN 3 ELSE 2
             /\ Served(Scalar(4, 1)) = IF mains THEN 3 ELSE IF drawn THEN 5 ELSE 6
  <2>1. /\ g["ac_present"] = mains /\ g["discharging"] = drawn
        /\ g["below_remaining_capacity_limit"] = ("low" \in raised)
        /\ g["shutdown_imminent"] = ("low" \in raised)
        /\ g["need_replacement"] = ("replace" \in raised)
    <3>1. \A f \in StatusFields : Applied(g, todo)[f] = g[f]
      BY <1>1, RestApplied, StatusFieldsAre DEF IInv, AtRest
    <3>2. /\ Applied(g, todo)["ac_present"] = g["ac_present"]
          /\ Applied(g, todo)["discharging"] = g["discharging"]
          /\ Applied(g, todo)["below_remaining_capacity_limit"]
               = g["below_remaining_capacity_limit"]
          /\ Applied(g, todo)["shutdown_imminent"] = g["shutdown_imminent"]
          /\ Applied(g, todo)["need_replacement"] = g["need_replacement"]
      BY <3>1 DEF StatusFields
    <3> QED BY <1>1, <3>2, Zenon DEF IInv, FlagInv
  <2>2. Served(Scalar(4, 1)) = IF mains THEN 3 ELSE IF drawn THEN 5 ELSE 6
    BY <2>1, LinesServed, Zenon DEF OutputSource
  <2> DEFINE a == said["remaining_capacity"]
             left == g["remaining_capacity"]
             alarm == raised \cap {"low", "replace"} # {}
  <2>3. a \in Int /\ a > -10 /\ left = CDiv(a, 10) \div 10
    <3>1. "remaining_capacity" \in Measured
      BY DEF Measured, Numbers, Bytes
    <3> QED BY <1>1, <3>1, KeptAtRest DEF Holds, Kept, Conversion, Shorts
  <2>4. (left = 0 <=> a < 100) /\ (left <= RemainingCapacityLimit <=> a < 1100)
    <3>1. CASE a < 0
      <4>1. CDiv(a, 10) = 0
        BY <2>3, <3>1 DEF CDiv
      <4>2. left = 0
        BY <2>3, <4>1
      <4> QED BY <2>3, <3>1, <4>2 DEF RemainingCapacityLimit
    <3>2. CASE a >= 0
      <4>1. left = (a \div 10) \div 10
        BY <2>3, <3>2 DEF CDiv
      <4> QED BY <2>3, <3>2, <4>1 DEF RemainingCapacityLimit
    <3> QED BY <2>3, <3>1, <3>2
  <2>5. alarm <=> ("low" \in raised \/ "replace" \in raised)
    OBVIOUS
  <2>6. BatteryStatus(g) = IF a < 100 \/ alarm THEN 4 ELSE IF a < 1100 THEN 3 ELSE 2
    <3> HIDE DEF a, left, alarm
    <3>1. /\ left = 0 \/ g["shutdown_imminent"] \/ g["need_replacement"]
               => BatteryStatus(g) = 4
          /\ ~(left = 0 \/ g["shutdown_imminent"] \/ g["need_replacement"])
               => BatteryStatus(g) =
                    IF \/ g["below_remaining_capacity_limit"]
                       \/ left <= RemainingCapacityLimit THEN 3 ELSE 2
      BY BatteryStatusIs, Zenon DEF left
    <3>2. /\ g["shutdown_imminent"] \/ g["need_replacement"] <=> alarm
          /\ g["below_remaining_capacity_limit"] => alarm
      BY <2>1, <2>5
    <3> QED BY <2>4, <3>1, <3>2
  <2>7. Served(Scalar(2, 1)) = BatteryStatus(g)
    BY BatteryServed, Zenon
  <2> QED BY <2>2, <2>6, <2>7
<1>2. IInv => StatusTrue
  BY <1>1 DEF StatusTrue
<1> QED BY <1>2, IInvHolds, PTL
==============================================================================
