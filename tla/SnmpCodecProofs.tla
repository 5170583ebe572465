---------------------------- MODULE SnmpCodecProofs ----------------------------
(***************************************************************************)
(* Theorems about the decoder and encoder of the SNMP agent, for datagrams *)
(* of any community, identifier, OID and length, and any values.           *)
(***************************************************************************)
EXTENDS SnmpCodec, SequenceTheorems, WellFoundedInduction, TLAPS

----------------------------------------------------------------------------
(* Numbers.                                                                *)

Less == {p \in Nat \X Nat : p[1] < p[2]}

\* Induction over the numbers of a set.
LEMMA Induction ==
  ASSUME NEW S, 0 \in S, \A n \in Nat : n \in S => n + 1 \in S
  PROVE  \A n \in Nat : n \in S
<1> DEFINE T == {n \in Nat : n \notin S}
<1>1. SUFFICES ASSUME T # {} PROVE FALSE
  OBVIOUS
<1>2. IsWellFoundedOn(Less, Nat)
  BY NatLessThanWellFounded DEF OpToRel, Less
<1>3. PICK x \in T : \A y \in T : ~ (<<y, x>> \in Less)
  <2>1. T \subseteq Nat
    OBVIOUS
  <2> HIDE DEF T
  <2> QED BY <1>1, <1>2, <2>1, WFMin
<1>4. x \in Nat /\ x # 0
  OBVIOUS
<1>5. x - 1 \in T
  <2>1. x - 1 \in Nat
    BY <1>4
  <2>2. x - 1 \in S => (x - 1) + 1 \in S
    BY <2>1
  <2>3. (x - 1) + 1 = x
    BY <1>4
  <2> QED BY <2>1, <2>2, <2>3
<1>6. <<x - 1, x>> \in Less
  BY <1>4, <1>5 DEF Less
<1> QED BY <1>3, <1>5, <1>6

\* The concatenation of a sequence of sequences, as a recursion over its prefixes.
LEMMA Flattens ==
  ASSUME NEW T, NEW parts \in Seq(Seq(T)), Len(parts) > 0
  PROVE  \E f \in [1 .. Len(parts) -> Seq(T)] :
           /\ FlattenSeq(parts) = f[Len(parts)]
           /\ f[1] = parts[1]
           /\ \A i \in 2 .. Len(parts) : f[i] = f[i - 1] \o parts[i]
<1> DEFINE N == Len(parts)
           Good(f, n) == \A i \in 1 .. n : f[i] = IF i = 1 THEN parts[i] ELSE f[i - 1] \o parts[i]
           S == {n \in Nat : n <= N => \E f \in [1 .. n -> Seq(T)] : Good(f, n)}
<1>1. 0 \in S
  <2>1. [i \in 1 .. 0 |-> <<>>] \in [1 .. 0 -> Seq(T)]
    OBVIOUS
  <2>2. Good([i \in 1 .. 0 |-> <<>>], 0)
    OBVIOUS
  <2> QED BY <2>1, <2>2
<1>2. ASSUME NEW n \in Nat, n \in S PROVE n + 1 \in S
  <2> SUFFICES ASSUME n + 1 <= N PROVE \E f \in [1 .. n + 1 -> Seq(T)] : Good(f, n + 1)
    <3> HIDE DEF Good
    <3> QED OBVIOUS
  <2>1. PICK f \in [1 .. n -> Seq(T)] : Good(f, n)
    <3>1. n <= N
      BY LenProperties
    <3> HIDE DEF Good
    <3> QED BY <1>2, <3>1
  <2>2. parts[n + 1] \in Seq(T)
    BY ElementOfSeq
  <2> DEFINE e == IF n = 0 THEN parts[n + 1] ELSE f[n] \o parts[n + 1]
             g == [i \in 1 .. n + 1 |-> IF i = n + 1 THEN e ELSE f[i]]
  <2>3. e \in Seq(T)
    <3>1. CASE n = 0
      BY <2>2, <3>1
    <3>2. CASE n # 0
      <4>1. f[n] \in Seq(T)
        BY <3>2
      <4> QED BY <2>2, <3>2, <4>1, ConcatProperties
    <3> QED BY <3>1, <3>2
  <2>4. g \in [1 .. n + 1 -> Seq(T)]
    BY <2>3
  <2>5. ASSUME NEW i \in 1 .. n + 1
        PROVE  g[i] = IF i = 1 THEN parts[i] ELSE g[i - 1] \o parts[i]
    <3>1. CASE i = n + 1
      <4>1. g[i] = e
        BY <3>1
      <4>2. n # 0 => g[i - 1] = f[n]
        BY <3>1
      <4> QED BY <3>1, <4>1, <4>2
    <3>2. CASE i # n + 1
      <4>1. i \in 1 .. n /\ g[i] = f[i] /\ (i # 1 => g[i - 1] = f[i - 1])
        BY <3>2
      <4> QED BY <2>1, <4>1
    <3> QED BY <3>1, <3>2
  <2> QED BY <2>4, <2>5
<1>3. N \in Nat
  BY LenProperties
<1>4. N \in S
  <2> HIDE DEF S
  <2> QED BY <1>1, <1>2, <1>3, Induction
<1>5. PICK f \in [1 .. N -> Seq(T)] : Good(f, N)
  BY <1>3, <1>4
<1> DEFINE F == CHOOSE g : g = [i \in 1 .. N |-> IF i = 1 THEN parts[i] ELSE g[i - 1] \o parts[i]]
<1>6. F = [i \in 1 .. N |-> IF i = 1 THEN parts[i] ELSE F[i - 1] \o parts[i]]
  <2>1. f = [i \in 1 .. N |-> IF i = 1 THEN parts[i] ELSE f[i - 1] \o parts[i]]
    BY <1>5
  <2> QED BY <2>1, Zenon
<1>7. FlattenSeq(parts) = F[N]
  <2>1. Len(parts) # 0
    BY <1>3
  <2> QED BY <2>1, Zenon DEF FlattenSeq
<1> HIDE DEF F
<1>8. ASSUME NEW i \in 1 .. N
      PROVE  F[i] = IF i = 1 THEN parts[i] ELSE F[i - 1] \o parts[i]
  BY <1>6
<1> DEFINE R == {n \in Nat : n + 1 <= N => F[n + 1] \in Seq(T)}
<1>9. 0 \in R
  <2>1. F[1] = parts[1] /\ parts[1] \in Seq(T)
    BY <1>3, <1>8, ElementOfSeq
  <2> QED BY <2>1
<1>10. ASSUME NEW n \in Nat, n \in R PROVE n + 1 \in R
  <2> SUFFICES ASSUME n + 2 <= N PROVE F[n + 2] \in Seq(T)
    BY DEF R
  <2>1. F[n + 2] = F[n + 1] \o parts[n + 2]
    <3>1. n + 2 \in 1 .. N /\ n + 2 # 1 /\ (n + 2) - 1 = n + 1
      BY <1>3
    <3> QED BY <3>1, <1>8
  <2>2. F[n + 1] \in Seq(T) /\ parts[n + 2] \in Seq(T)
    BY <1>10, <1>3, ElementOfSeq
  <2> QED BY <2>1, <2>2, ConcatProperties
<1>11. \A n \in Nat : n \in R
  <2> HIDE DEF R
  <2> QED BY <1>9, <1>10, Induction
<1>12. ASSUME NEW i \in 1 .. N PROVE F[i] \in Seq(T)
  <2>1. i - 1 \in Nat /\ (i - 1) + 1 = i /\ i <= N
    BY <1>3
  <2> HIDE DEF N
  <2>2. i - 1 \in R
    BY <1>11, <2>1
  <2> QED BY <2>1, <2>2
<1>13. F \in [1 .. N -> Seq(T)]
  BY <1>6, <1>12
<1>14. F[1] = parts[1]
  BY <1>3, <1>8
<1>15. ASSUME NEW i \in 2 .. N PROVE F[i] = F[i - 1] \o parts[i]
  <2>1. i \in 1 .. N /\ i # 1
    BY <1>3
  <2> QED BY <2>1, <1>8
<1> QED BY <1>7, <1>13, <1>14, <1>15

----------------------------------------------------------------------------
(* The bytes of an OID.                                                    *)

LEMMA Powers128 ==
  /\ 128 ^ 0 = 1 /\ 128 ^ 1 = 128 /\ 128 ^ 2 = 16384
  /\ 128 ^ 3 = 2097152 /\ 128 ^ 4 = 268435456
BY SMT

Power128 == {1, 128, 16384, 2097152, 268435456}

LEMMA PowerOf128 ==
  ASSUME NEW m \in 0 .. 4
  PROVE  /\ 128 ^ m \in Power128
         /\ m > 0 => 128 ^ m # 1
<1>1. CASE m = 0
  BY SMT, <1>1, Powers128 DEF Power128
<1>2. CASE m = 1
  BY SMT, <1>2, Powers128 DEF Power128
<1>3. CASE m = 2
  BY SMT, <1>3, Powers128 DEF Power128
<1>4. CASE m = 3
  BY SMT, <1>4, Powers128 DEF Power128
<1>5. CASE m = 4
  BY SMT, <1>5, Powers128 DEF Power128
<1> QED BY <1>1, <1>2, <1>3, <1>4, <1>5

LEMMA DigitsAre ==
  ASSUME NEW n \in Nat
  PROVE  Digits(n) \in 1 .. 5 /\ (n < 128 <=> Digits(n) = 1)
<1> DEFINE Fits(k) == (k < 5 => n < 128 ^ k) /\ (k > 1 => n >= 128 ^ (k - 1))
<1>1. \E k \in 1 .. 5 : Fits(k)
  <2>1. /\ Fits(1) <=> n < 128
        /\ Fits(2) <=> n >= 128 /\ n < 16384
        /\ Fits(3) <=> n >= 16384 /\ n < 2097152
        /\ Fits(4) <=> n >= 2097152 /\ n < 268435456
        /\ Fits(5) <=> n >= 268435456
    <3>1. 2 - 1 = 1 /\ 3 - 1 = 2 /\ 4 - 1 = 3 /\ 5 - 1 = 4
      OBVIOUS
    <3> QED BY SMT, <3>1, Powers128
  <2> HIDE DEF Fits
  <2> QED BY SMT, <2>1
<1>2. Digits(n) \in 1 .. 5 /\ Fits(Digits(n))
  <2>1. Digits(n) = CHOOSE k \in 1 .. 5 : Fits(k)
    BY DEF Digits
  <2> HIDE DEF Fits
  <2> QED BY <1>1, <2>1
<1>3. n < 128 => Digits(n) = 1
  <2> SUFFICES ASSUME n < 128, Digits(n) # 1 PROVE FALSE
    OBVIOUS
  <2>1. Digits(n) - 1 \in 1 .. 4 /\ n >= 128 ^ (Digits(n) - 1)
    BY <1>2
  <2> DEFINE p == 128 ^ (Digits(n) - 1)
  <2>2. p \in Power128 /\ p # 1 /\ n >= p
    <3>1. Digits(n) - 1 \in 0 .. 4 /\ Digits(n) - 1 > 0
      BY <2>1
    <3>2. p \in Power128 /\ p # 1
      BY Zenon, <3>1, PowerOf128
    <3> QED BY Zenon, <2>1, <3>2
  <2> HIDE DEF p
  <2> QED BY SMT, <2>2 DEF Power128
<1>4. Digits(n) = 1 => n < 128
  BY SMT, <1>2, Powers128
<1> QED BY <1>2, <1>3, <1>4

LEMMA SubIdBytes ==
  ASSUME NEW n \in Nat
  PROVE  /\ BerSubId(n) \in Seq(Byte)
         /\ Len(BerSubId(n)) \in 1 .. 5
         /\ n < 128 => Len(BerSubId(n)) = 1 /\ BerSubId(n)[1] = n
         /\ n >= 128 => BerSubId(n)[1] >= 128
<1> DEFINE D == Digits(n)
           e(i) == ((n \div 128 ^ (D - i)) % 128) + (IF i < D THEN 128 ELSE 0)
<1>1. D \in 1 .. 5 /\ (n < 128 <=> D = 1)
  BY DigitsAre
<1>2. ASSUME NEW i \in 1 .. D
      PROVE  e(i) \in Byte /\ (i < D => e(i) >= 128)
  <2>1. \A m \in 0 .. 4 : n \div 128 ^ m \in Int
    <3> SUFFICES ASSUME NEW m \in 0 .. 4 PROVE n \div 128 ^ m \in Int
      OBVIOUS
    <3> DEFINE p == 128 ^ m
    <3>1. p \in Power128
      BY Zenon, PowerOf128
    <3> HIDE DEF p
    <3>2. n \div p \in Int
      BY SMT, <3>1 DEF Power128
    <3> QED BY <3>2 DEF p
  <2> DEFINE q == n \div 128 ^ (D - i)
  <2>2. q \in Int
    <3>1. D - i \in 0 .. 4
      BY <1>1
    <3> QED BY <2>1, <3>1
  <2>3. e(i) = (q % 128) + (IF i < D THEN 128 ELSE 0)
    OBVIOUS
  <2> HIDE DEF q, e, D
  <2>4. q % 128 \in 0 .. 127
    BY <2>2
  <2> QED BY <2>3, <2>4 DEF Byte
<1>3. BerSubId(n) = [i \in 1 .. D |-> e(i)]
  BY DEF BerSubId
<1>4. n < 128 => e(1) = n
  <2> SUFFICES ASSUME n < 128 PROVE e(1) = n
    OBVIOUS
  <2>1. D - 1 = 0 /\ ~(1 < D)
    BY <1>1
  <2>2. e(1) = ((n \div 1) % 128) + 0
    BY SMT, <2>1, Powers128
  <2> HIDE DEF e, D
  <2> QED BY <2>2
<1> HIDE DEF e, D
<1> QED BY <1>1, <1>2, <1>3, <1>4

\* The encoding of the first m sub-identifiers of an OID, the first k of which are
\* small.
Starts(s, m, o, k) ==
  /\ Len(s) >= m
  /\ m <= k => Len(s) = m
  /\ \A j \in 1 .. m : j <= k => s[j] = o[j]
  /\ m > k => /\ Len(s) > k
              /\ o[k + 1] < 128 => s[k + 1] = o[k + 1]
              /\ o[k + 1] >= 128 => s[k + 1] >= 128

\* A sub-identifier's bytes.
IsSubId(p, n) ==
  /\ p \in Seq(Byte) /\ Len(p) \in 1 .. 5
  /\ n < 128 => Len(p) = 1 /\ p[1] = n
  /\ n >= 128 => p[1] >= 128

LEMMA StartsStep ==
  ASSUME NEW o \in Seq(Nat), NEW k \in 0 .. Len(o), \A j \in 1 .. k : o[j] < 128,
         NEW m \in 0 .. Len(o) - 1, NEW s \in Seq(Byte), Starts(s, m, o, k),
         NEW p, IsSubId(p, o[m + 1])
  PROVE  Starts(s \o p, m + 1, o, k)
<1> DEFINE h == s \o p
<1>1. /\ Len(o) \in Nat /\ k \in Nat /\ k <= Len(o) /\ m \in Nat /\ m + 1 <= Len(o)
      /\ Len(s) \in Nat /\ Len(p) \in Nat /\ Len(p) >= 1 /\ p \in Seq(Byte)
  BY LenProperties DEF IsSubId
<1>2. /\ Len(h) = Len(s) + Len(p)
      /\ \A i \in 1 .. Len(s) : h[i] = s[i]
      /\ h[Len(s) + 1] = p[1]
  BY <1>1, ConcatProperties
<1> HIDE DEF h
<1>3. \A j \in 1 .. m : j <= k => h[j] = o[j]
  BY <1>1, <1>2 DEF Starts
<1>4. ASSUME m < k PROVE Starts(h, m + 1, o, k)
  <2>1. Len(s) = m /\ o[m + 1] < 128
    BY <1>1, <1>4 DEF Starts
  <2>2. Len(p) = 1 /\ p[1] = o[m + 1]
    BY <2>1 DEF IsSubId
  <2>3. Len(h) = m + 1 /\ h[m + 1] = o[m + 1]
    BY <1>1, <1>2, <2>1, <2>2
  <2>4. \A j \in 1 .. m + 1 : j <= k => h[j] = o[j]
    <3> SUFFICES ASSUME NEW j \in 1 .. m + 1, j <= k PROVE h[j] = o[j]
      OBVIOUS
    <3>1. j \in 1 .. m \/ j = m + 1
      BY <1>1
    <3> QED BY Zenon, <1>3, <2>3, <3>1
  <2>5. m + 1 <= k
    BY <1>1, <1>4
  <2>6. Len(h) >= m + 1 /\ ~(m + 1 > k)
    BY <1>1, <2>3, <2>5
  <2> QED BY Zenon, <2>3, <2>4, <2>6 DEF Starts
<1>5. ASSUME m = k PROVE Starts(h, m + 1, o, k)
  <2>1. Len(s) = k
    BY <1>1, <1>5 DEF Starts
  <2>2. /\ o[k + 1] < 128 => p[1] = o[k + 1]
        /\ o[k + 1] >= 128 => p[1] >= 128
    BY <1>5 DEF IsSubId
  <2>3. h[k + 1] = p[1] /\ Len(h) > k /\ Len(h) >= m + 1
    BY <1>1, <1>2, <1>5, <2>1
  <2>4. \A j \in 1 .. m + 1 : j <= k => h[j] = o[j]
    BY <1>1, <1>3, <1>5
  <2> QED BY <1>1, <1>5, <2>2, <2>3, <2>4 DEF Starts
<1>6. ASSUME m > k PROVE Starts(h, m + 1, o, k)
  <2>1. /\ Len(s) > k /\ Len(s) >= m
        /\ o[k + 1] < 128 => s[k + 1] = o[k + 1]
        /\ o[k + 1] >= 128 => s[k + 1] >= 128
    BY <1>6 DEF Starts
  <2>2. h[k + 1] = s[k + 1] /\ Len(h) > k /\ Len(h) >= m + 1
    <3>1. k + 1 \in 1 .. Len(s)
      BY <1>1, <2>1
    <3>2. h[k + 1] = s[k + 1]
      BY <1>2, <3>1
    <3> QED BY <1>1, <1>2, <2>1, <3>2
  <2>3. \A j \in 1 .. m + 1 : j <= k => h[j] = o[j]
    BY <1>1, <1>3, <1>6
  <2> QED BY <1>1, <1>6, <2>1, <2>2, <2>3 DEF Starts
<1>7. m < k \/ m = k \/ m > k
  BY <1>1
<1> QED BY <1>4, <1>5, <1>6, <1>7 DEF h

\* An OID's encoding begins with its sub-identifiers as long as these are small; the
\* first byte of a large one has its top bit set.
LEMMA BerSmall ==
  ASSUME NEW o \in Seq(Nat), NEW k \in 0 .. Len(o), \A j \in 1 .. k : o[j] < 128
  PROVE  Ber(o) \in Seq(Byte) /\ Starts(Ber(o), Len(o), o, k)
<1> DEFINE parts == [i \in 1 .. Len(o) |-> BerSubId(o[i])]
<1>1. Len(o) \in Nat /\ (\A i \in 1 .. Len(o) : o[i] \in Nat)
  BY ElementOfSeq, LenProperties
<1>2. \A i \in 1 .. Len(o) : IsSubId(parts[i], o[i])
  BY <1>1, SubIdBytes DEF IsSubId
<1>3. parts \in Seq(Seq(Byte)) /\ Len(parts) = Len(o)
  BY <1>1, <1>2 DEF IsSubId
<1>4. Ber(o) = FlattenSeq(parts)
  BY DEF Ber
<1>5. CASE Len(o) = 0
  <2>1. FlattenSeq(parts) = parts
    BY <1>3, <1>5 DEF FlattenSeq
  <2>2. parts = <<>>
    BY <1>3, <1>5, EmptySeq
  <2>3. Starts(<<>>, 0, o, k)
    BY <1>5 DEF Starts
  <2> HIDE DEF parts
  <2>4. Ber(o) = <<>> /\ <<>> \in Seq(Byte)
    BY <1>4, <2>1, <2>2, EmptySeq
  <2> QED BY <1>5, <2>3, <2>4
<1>6. CASE Len(o) # 0
  <2> DEFINE N == Len(parts)
  <2>1. N \in Nat /\ N = Len(o) /\ N > 0
    BY <1>1, <1>3, <1>6
  <2> HIDE DEF parts
  <2>2. PICK f \in [1 .. N -> Seq(Byte)] :
          /\ FlattenSeq(parts) = f[N]
          /\ f[1] = parts[1]
          /\ \A i \in 2 .. N : f[i] = f[i - 1] \o parts[i]
    <3>1. Len(parts) > 0
      BY <2>1
    <3> HIDE DEF N
    <3> QED BY <1>3, <3>1, Flattens DEF N
  <2> HIDE DEF N
  <2> DEFINE S == {n \in Nat : n + 1 <= N => Starts(f[n + 1], n + 1, o, k)}
  <2>3. 0 \in S
    <3>1. Starts(<<>>, 0, o, k)
      BY DEF Starts
    <3>2. IsSubId(parts[1], o[1])
      BY <1>2, <2>1
    <3>3. Starts(<<>> \o parts[1], 1, o, k)
      <4>1. 0 \in 0 .. Len(o) - 1 /\ <<>> \in Seq(Byte) /\ 0 + 1 = 1
        BY <2>1, EmptySeq
      <4>2. IsSubId(parts[1], o[0 + 1])
        BY <3>2, <4>1
      <4>3. Starts(<<>> \o parts[1], 0 + 1, o, k)
        BY <3>1, <4>1, <4>2, StartsStep
      <4> QED BY <4>1, <4>3
    <3>4. <<>> \o parts[1] = f[1]
      BY <2>2, <3>2, ConcatEmptySeq DEF IsSubId
    <3> QED BY <3>3, <3>4
  <2>4. ASSUME NEW n \in Nat, n \in S PROVE n + 1 \in S
    <3> SUFFICES ASSUME n + 2 <= N PROVE Starts(f[n + 2], n + 2, o, k)
      <4>1. (n + 1) + 1 = n + 2 /\ n + 1 \in Nat
        OBVIOUS
      <4> QED BY <4>1
    <3> DEFINE m == n + 1
    <3>1. m \in 1 .. N /\ m + 1 \in 2 .. N /\ (m + 1) - 1 = m /\ m + 1 = n + 2
          /\ m \in 0 .. Len(o) - 1 /\ m + 1 \in 1 .. Len(o)
      BY <2>1
    <3>2. Starts(f[m], m, o, k)
      BY <2>4, <3>1
    <3> HIDE DEF m
    <3>3. f[m] \in Seq(Byte) /\ f[m + 1] = f[m] \o parts[m + 1]
      BY <2>2, <3>1
    <3>4. IsSubId(parts[m + 1], o[m + 1])
      BY <1>2, <3>1
    <3>5. Starts(f[m] \o parts[m + 1], m + 1, o, k)
      BY <3>1, <3>2, <3>3, <3>4, StartsStep
    <3> QED BY <3>1, <3>3, <3>5
  <2>5. \A n \in Nat : n \in S
    <3> HIDE DEF S
    <3> QED BY <2>3, <2>4, Induction
  <2>6. Starts(f[N], N, o, k)
    <3>1. N - 1 \in Nat /\ (N - 1) + 1 = N
      BY <2>1
    <3> QED BY <2>5, <3>1
  <2>7. f[N] \in Seq(Byte)
    BY <2>1, <2>2
  <2> QED BY <1>4, <2>1, <2>2, <2>6, <2>7
<1> QED BY <1>5, <1>6

----------------------------------------------------------------------------
(* The order of the MIB and the order of the bytes.                        *)

LEMMA Bytes256 == \A b \in Byte : b \in Nat /\ b < 256
BY DEF Byte

\* Small sub-identifiers are their own encoding: all those of the table are.
SmallOid == {t \in Seq(0 .. 127) : Len(t) \in 1 .. 12}

LEMMA SmallOids ==
  ASSUME NEW t \in SmallOid
  PROVE  /\ t \in Seq(Nat) /\ t \in Seq(Byte) /\ Len(t) \in 1 .. 12
         /\ \A i \in 1 .. Len(t) : t[i] \in Nat /\ t[i] < 128
<1> DEFINE D == 0 .. 127
<1>1. t \in Seq(D) /\ Len(t) \in 1 .. 12
  BY DEF SmallOid
<1>2. D \subseteq Nat /\ D \subseteq Byte /\ \A x \in D : x \in Nat /\ x < 128
  BY DEF Byte
<1> HIDE DEF D
<1>3. \A i \in 1 .. Len(t) : t[i] \in D
  BY <1>1, ElementOfSeq
<1> QED BY <1>1, <1>2, <1>3, SeqMonotonic

LEMMA BeforeIs ==
  ASSUME NEW a \in Seq(Nat), NEW b \in Seq(Nat)
  PROVE  Before(a, b) <=>
           \E i \in 1 .. Len(b) :
             /\ i - 1 <= Len(a) /\ \A j \in 1 .. i - 1 : a[j] = b[j]
             /\ Len(a) >= i => a[i] < b[i]
<1>1. Len(a) \in Nat /\ Len(b) \in Nat
  BY LenProperties
<1>2. ASSUME NEW i \in 1 .. Len(b)
      PROVE  IsPrefix(SubSeq(b, 1, i - 1), a) <=>
               i - 1 <= Len(a) /\ \A j \in 1 .. i - 1 : a[j] = b[j]
  <2> DEFINE s == SubSeq(b, 1, i - 1)
             p == SubSeq(a, 1, Len(s))
  <2>1. i - 1 \in Nat /\ \A j \in 1 .. i - 1 : b[j] \in Nat
    BY <1>1, ElementOfSeq
  <2>2. s \in Seq(Nat) /\ Len(s) = i - 1 /\ \A j \in 1 .. i - 1 : s[j] = b[j]
    <3>1. 1 \in Int /\ i - 1 \in Int
      BY <2>1
    <3> QED BY <2>1, <3>1, SubSeqProperties
  <2>3. SubSeq(s, 1, Len(s)) = s
    BY <2>2, SubSeqFull
  <2>4. ASSUME i - 1 <= Len(a)
        PROVE  p \in Seq(Nat) /\ Len(p) = i - 1 /\ \A j \in 1 .. i - 1 : p[j] = a[j]
    <3>1. \A j \in 1 .. i - 1 : a[j] \in Nat
      BY <1>1, <2>1, <2>4, ElementOfSeq
    <3>2. 1 \in Int /\ i - 1 \in Int
      BY <2>1
    <3> HIDE DEF s
    <3> QED BY <2>1, <2>2, <3>1, <3>2, SubSeqProperties
  <2> HIDE DEF s, p
  <2>5. IsPrefix(s, a) <=> i - 1 <= Len(a) /\ s = p
    BY <2>2, <2>3 DEF IsPrefix, p
  <2>6. i - 1 <= Len(a) => (s = p <=> \A j \in 1 .. i - 1 : a[j] = b[j])
    <3>1. (\A j \in 1 .. i - 1 : s[j] = p[j]) /\ i - 1 <= Len(a) => s = p
      BY <2>1, <2>2, <2>4, SeqEqual
    <3> QED BY <2>2, <2>4, <3>1
  <2> QED BY <2>5, <2>6 DEF s
<1> QED BY <1>1, <1>2 DEF Before

\* Bytes compare as the numbers do if those of one side are small.
LEMMA PrecedesAgrees ==
  ASSUME NEW o \in Seq(Nat), NEW t \in SmallOid
  PROVE  Agent!Precedes(Ber(o), t) <=> Before(o, t)
<1> DEFINE B == Ber(o)
<1>1. /\ t \in Seq(Nat) /\ Len(t) \in Nat /\ Len(o) \in Nat
      /\ \A i \in 1 .. Len(t) : t[i] \in Nat /\ t[i] < 128
      /\ \A i \in 1 .. Len(o) : o[i] \in Nat
  <2>1. t \in Seq(Nat)
    BY SmallOids
  <2>2. \A i \in 1 .. Len(t) : t[i] \in Nat /\ t[i] < 128
    BY SmallOids
  <2>3. Len(t) \in Nat /\ Len(o) \in Nat
    BY <2>1, LenProperties
  <2>4. \A i \in 1 .. Len(o) : o[i] \in Nat
    BY ElementOfSeq
  <2> QED BY <2>1, <2>2, <2>3, <2>4
<1>2. ASSUME NEW k \in 0 .. Len(o), \A j \in 1 .. k : o[j] < 128
      PROVE  B \in Seq(Byte) /\ Len(B) \in Nat /\ Starts(B, Len(o), o, k)
  BY <1>2, BerSmall, LenProperties
<1> HIDE DEF B
<1>3. ASSUME Before(o, t) PROVE Agent!Precedes(B, t)
  <2>1. PICK i \in 1 .. Len(t) :
          /\ i - 1 <= Len(o) /\ \A j \in 1 .. i - 1 : o[j] = t[j]
          /\ Len(o) >= i => o[i] < t[i]
    BY <1>1, <1>3, BeforeIs
  <2> DEFINE k == i - 1
  <2>2. k \in 0 .. Len(o) /\ k \in Nat /\ \A j \in 1 .. k : o[j] < 128
    <3>1. k \in 0 .. Len(o) /\ k \in Nat /\ 1 .. k \subseteq 1 .. Len(t)
      BY <1>1, <2>1
    <3>2. \A j \in 1 .. k : o[j] = t[j] /\ t[j] < 128
      BY <1>1, <2>1, <3>1
    <3> HIDE DEF k
    <3> QED BY <3>1, <3>2
  <2>3. Len(B) \in Nat /\ Starts(B, Len(o), o, k)
    BY <1>2, <2>2
  <2>4. \A j \in 1 .. k : j <= Len(B) /\ B[j] = t[j]
    <3>1. k <= Len(o) /\ k \in Nat /\ Len(o) \in Nat
      BY <1>1, <2>2
    <3>2. Len(B) >= Len(o) /\ \A j \in 1 .. Len(o) : j <= k => B[j] = o[j]
      BY <2>3 DEF Starts
    <3>3. \A j \in 1 .. k : o[j] = t[j]
      BY <2>1
    <3> HIDE DEF k
    <3> QED BY <2>3, <3>1, <3>2, <3>3
  <2>5. ASSUME i <= Len(B) PROVE B[i] < t[i]
    <3>1. Len(o) > k
      BY <1>1, <2>2, <2>3, <2>5 DEF Starts
    <3>2. o[k + 1] < t[k + 1] /\ t[k + 1] < 128 /\ k + 1 = i /\ o[i] \in Nat /\ t[i] \in Nat
      BY <1>1, <2>1, <3>1
    <3>3. o[k + 1] < 128
      <4> HIDE DEF k
      <4>1. o[k + 1] \in Nat /\ t[k + 1] \in Nat
        BY <3>2
      <4> QED BY <3>2, <4>1
    <3>4. B[k + 1] = o[k + 1]
      BY <2>3, <3>1, <3>3 DEF Starts
    <3> QED BY <3>2, <3>4
  <2> QED BY <2>1, <2>4, <2>5 DEF Agent!Precedes
<1>4. ASSUME Agent!Precedes(B, t) PROVE Before(o, t)
  <2>1. PICK i \in 1 .. Len(t) :
          /\ \A j \in 1 .. i - 1 : j <= Len(B) /\ B[j] = t[j]
          /\ i <= Len(B) => B[i] < t[i]
    BY <1>4 DEF Agent!Precedes
  <2> DEFINE S == {n \in Nat : n <= i - 1 => n <= Len(o) /\ \A j \in 1 .. n : o[j] = t[j]}
  <2>2. 0 \in S
    BY <1>1
  <2>3. ASSUME NEW n \in Nat, n \in S PROVE n + 1 \in S
    <3> SUFFICES ASSUME n + 1 <= i - 1
                 PROVE  n + 1 <= Len(o) /\ \A j \in 1 .. n + 1 : o[j] = t[j]
      OBVIOUS
    <3>1. n <= Len(o) /\ (\A j \in 1 .. n : o[j] = t[j]) /\ n + 1 \in 1 .. Len(t)
      BY <1>1, <2>3
    <3> HIDE DEF S
    <3>2. n \in 0 .. Len(o) /\ \A j \in 1 .. n : o[j] < 128
      <4>1. n \in 0 .. Len(o) /\ 1 .. n \subseteq 1 .. Len(t)
        BY <1>1, <3>1
      <4>2. \A j \in 1 .. n : o[j] = t[j] /\ t[j] < 128
        BY <1>1, <3>1, <4>1
      <4> QED BY <4>1, <4>2
    <3>3. Len(B) \in Nat /\ Starts(B, Len(o), o, n)
      BY <1>2, <3>2
    <3>4. n + 1 <= Len(B) /\ B[n + 1] = t[n + 1] /\ t[n + 1] < 128
      BY <1>1, <2>1, <3>1
    <3>5. n + 1 <= Len(o)
      BY <1>1, <3>1, <3>3, <3>4 DEF Starts
    <3>6. o[n + 1] = t[n + 1]
      <4>1. Len(o) > n /\ o[n + 1] \in Nat /\ t[n + 1] \in Nat
        BY <1>1, <3>1, <3>5
      <4>2. /\ o[n + 1] < 128 => B[n + 1] = o[n + 1]
            /\ o[n + 1] >= 128 => B[n + 1] >= 128
        BY <3>3, <4>1 DEF Starts
      <4> QED BY <3>4, <4>1, <4>2
    <3>7. \A j \in 1 .. n + 1 : j \in 1 .. n \/ j = n + 1
      OBVIOUS
    <3> QED BY <3>1, <3>5, <3>6, <3>7
  <2>4. \A n \in Nat : n \in S
    <3> HIDE DEF S
    <3> QED BY <2>2, <2>3, Induction
  <2> DEFINE k == i - 1
  <2>5. k \in Nat /\ k <= Len(o) /\ \A j \in 1 .. k : o[j] = t[j]
    BY <1>1, <2>1, <2>4
  <2>6. k \in 0 .. Len(o) /\ \A j \in 1 .. k : o[j] < 128
    <3>1. 1 .. k \subseteq 1 .. Len(t)
      BY <1>1
    <3>2. \A j \in 1 .. k : o[j] = t[j] /\ t[j] < 128
      BY <1>1, <2>5, <3>1
    <3>3. k \in 0 .. Len(o)
      BY <1>1, <2>5
    <3> HIDE DEF k
    <3> QED BY <3>2, <3>3
  <2>7. Len(B) \in Nat /\ Starts(B, Len(o), o, k)
    BY <1>2, <2>6
  <2>8. ASSUME Len(o) >= i PROVE o[i] < t[i]
    <3>1. Len(o) > k /\ k + 1 = i /\ o[i] \in Nat /\ t[i] \in Nat /\ t[i] < 128
      BY <1>1, <2>5, <2>8
    <3>2. /\ Len(B) >= i
          /\ o[i] < 128 => B[i] = o[i]
          /\ o[i] >= 128 => B[i] >= 128
      BY <1>1, <2>7, <3>1 DEF Starts
    <3>3. B[i] < t[i]
      BY <2>1, <3>2
    <3>4. CASE o[i] < 128
      BY <3>2, <3>3, <3>4
    <3>5. CASE o[i] >= 128
      <4>1. i \in 1 .. Len(B) /\ B \in Seq(Byte)
        BY <1>1, <1>2, <2>6, <2>7, <3>2
      <4>2. B[i] \in Byte
        BY <4>1, ElementOfSeq
      <4>3. B[i] \in Nat
        BY <4>2, Bytes256
      <4>4. \A x, y \in Nat : x < y /\ y < 128 => ~(x >= 128)
        OBVIOUS
      <4>5. B[i] >= 128
        BY <3>2, <3>5
      <4> QED BY <3>1, <3>3, <4>3, <4>4, <4>5
    <3> QED BY <3>1, <3>4, <3>5
  <2> QED BY <1>1, <2>1, <2>5, <2>8, BeforeIs
<1> QED BY <1>3, <1>4 DEF B

\* Two entries of the table compare alike.
LEMMA RowsAgree ==
  ASSUME NEW s \in SmallOid, NEW t \in SmallOid
  PROVE  Agent!Precedes(s, t) <=> Before(s, t)
<1>1. s \in Seq(Nat) /\ t \in Seq(Nat) /\ Len(s) \in Nat /\ Len(t) \in Nat
  <2>1. s \in Seq(Nat) /\ t \in Seq(Nat)
    BY SmallOids
  <2> QED BY <2>1, LenProperties
<1>2. Before(s, t) <=>
        \E i \in 1 .. Len(t) :
          /\ i - 1 <= Len(s) /\ \A j \in 1 .. i - 1 : s[j] = t[j]
          /\ Len(s) >= i => s[i] < t[i]
  BY <1>1, BeforeIs
<1>3. ASSUME NEW i \in 1 .. Len(t)
      PROVE  (/\ i - 1 <= Len(s) /\ \A j \in 1 .. i - 1 : s[j] = t[j]
              /\ Len(s) >= i => s[i] < t[i])
             <=> (/\ \A j \in 1 .. i - 1 : j <= Len(s) /\ s[j] = t[j]
                  /\ i <= Len(s) => s[i] < t[i])
  <2>1. i - 1 <= Len(s) <=> \A j \in 1 .. i - 1 : j <= Len(s)
    <3>1. i - 1 # 0 => i - 1 \in 1 .. i - 1
      BY <1>1
    <3>2. i \in Nat /\ i >= 1
      BY <1>1
    <3> QED BY <1>1, <3>1, <3>2
  <2> QED BY <1>1, <2>1
<1> QED BY <1>2, <1>3 DEF Agent!Precedes

LEMMA RowsAreSmall ==
  /\ Len(k_oid_table) \in Nat /\ Agent!Entries = 1 .. Len(k_oid_table)
  /\ \A i \in Agent!Entries : k_oid_table[i] \in SmallOid
<1>1. \A n \in 0 .. 127 : System(n) \in SmallOid
  BY DEF System, SmallOid
<1>2. Ups \in Seq(0 .. 127) /\ Len(Ups) = 7
  BY DEF Ups
<1>3. \A group, n \in 0 .. 127 : Scalar(group, n) \in SmallOid
  <2> SUFFICES ASSUME NEW group \in 0 .. 127, NEW n \in 0 .. 127
               PROVE  Scalar(group, n) \in SmallOid
    OBVIOUS
  <2> DEFINE s == <<group, n, 0>>
  <2>1. s \in Seq(0 .. 127) /\ Len(s) = 3
    OBVIOUS
  <2>2. Scalar(group, n) = Ups \o s
    BY DEF Scalar
  <2> HIDE DEF s
  <2>3. Ups \o s \in Seq(0 .. 127) /\ Len(Ups \o s) = Len(Ups) + Len(s)
    BY <1>2, <2>1, ConcatProperties
  <2>4. Len(Ups \o s) \in 1 .. 12
    BY <1>2, <2>1, <2>3
  <2> QED BY <2>2, <2>3, <2>4 DEF SmallOid
<1>4. \A group, table, n \in 0 .. 127 : Line(group, table, n) \in SmallOid
  <2> SUFFICES ASSUME NEW group \in 0 .. 127, NEW table \in 0 .. 127, NEW n \in 0 .. 127
               PROVE  Line(group, table, n) \in SmallOid
    OBVIOUS
  <2> DEFINE s == <<group, table, 1, n, 1>>
  <2>1. s \in Seq(0 .. 127) /\ Len(s) = 5
    OBVIOUS
  <2>2. Line(group, table, n) = Ups \o s
    BY DEF Line
  <2> HIDE DEF s
  <2>3. Ups \o s \in Seq(0 .. 127) /\ Len(Ups \o s) = Len(Ups) + Len(s)
    BY <1>2, <2>1, ConcatProperties
  <2>4. Len(Ups \o s) \in 1 .. 12
    BY <1>2, <2>1, <2>3
  <2> QED BY <2>2, <2>3, <2>4 DEF SmallOid
<1> DEFINE a == <<System(1), System(5)>>
           b == [n \in 1 .. 6 |-> Scalar(1, n)]
           c == [n \in 1 .. 7 |-> Scalar(2, n)]
           d == <<Scalar(3, 1), Scalar(3, 2), Line(3, 3, 2), Line(3, 3, 3)>>
           e == <<Scalar(4, 1), Scalar(4, 2), Scalar(4, 3),
                  Line(4, 4, 2), Line(4, 4, 3), Line(4, 4, 4), Line(4, 4, 5)>>
           f == <<Scalar(9, 1), Scalar(9, 3), Scalar(9, 6), Scalar(9, 7),
                  Scalar(9, 9), Scalar(9, 10)>>
<1>5. a \in Seq(SmallOid)
  BY <1>1
<1>6. b \in Seq(SmallOid) /\ c \in Seq(SmallOid)
  <2>1. \A n \in 1 .. 7 : Scalar(1, n) \in SmallOid /\ Scalar(2, n) \in SmallOid
    BY <1>3
  <2> QED BY <2>1
<1>7. d \in Seq(SmallOid)
  <2>1. Scalar(3, 1) \in SmallOid /\ Scalar(3, 2) \in SmallOid
    BY <1>3
  <2>2. 3 \in 0 .. 127 /\ 2 \in 0 .. 127
    OBVIOUS
  <2>3. Line(3, 3, 2) \in SmallOid /\ Line(3, 3, 3) \in SmallOid
    BY Zenon, <1>4, <2>2
  <2> QED BY <2>1, <2>3
<1>8. e \in Seq(SmallOid)
  <2>1. Scalar(4, 1) \in SmallOid /\ Scalar(4, 2) \in SmallOid /\ Scalar(4, 3) \in SmallOid
    BY <1>3
  <2>2. 2 \in 0 .. 127 /\ 3 \in 0 .. 127 /\ 4 \in 0 .. 127 /\ 5 \in 0 .. 127
    OBVIOUS
  <2>3. /\ Line(4, 4, 2) \in SmallOid /\ Line(4, 4, 3) \in SmallOid
        /\ Line(4, 4, 4) \in SmallOid /\ Line(4, 4, 5) \in SmallOid
    BY Zenon, <1>4, <2>2
  <2> QED BY <2>1, <2>3
<1>9. f \in Seq(SmallOid)
  BY <1>3
<1>10. k_oid_table = a \o b \o c \o d \o e \o f
  BY DEF k_oid_table
<1> HIDE DEF a, b, c, d, e, f
<1>11. k_oid_table \in Seq(SmallOid)
  BY <1>5, <1>6, <1>7, <1>8, <1>9, <1>10, ConcatProperties
<1> QED BY <1>11, LenProperties, ElementOfSeq DEF Agent!Entries

LEMMA FirstIs ==
  ASSUME NEW S \in SUBSET Nat, S # {}
  PROVE  Agent!FirstOf(S) \in S /\ \A j \in S : Agent!FirstOf(S) <= j
<1>1. IsWellFoundedOn(Less, Nat)
  BY NatLessThanWellFounded DEF OpToRel, Less
<1>2. PICK x \in S : \A y \in S : ~ (<<y, x>> \in Less)
  BY <1>1, WFMin
<1>3. ASSUME NEW j \in S PROVE x <= j
  <2>1. x \in Nat /\ j \in Nat /\ <<j, x>> \notin Less
    BY <1>2
  <2>2. ~(j < x)
    BY <2>1 DEF Less
  <2> QED BY <2>1, <2>2
<1>4. Agent!FirstOf(S) = CHOOSE i \in S : \A j \in S : i <= j
  BY DEF Agent!FirstOf
<1> QED BY Zenon, <1>2, <1>3, <1>4

\* The table search for GETNEXT finds the object that follows in the order of the MIB.
LEMMA NextFollows ==
  ASSUME NEW o \in Seq(Nat)
  PROVE  LET found == Agent!LookupNext(Ber(o))
             after == {i \in Agent!Entries : Before(o, k_oid_table[i])}
         IN  IF found = 0 THEN after = {}
             ELSE /\ found \in after
                  /\ \A i \in after \ {found} : Before(k_oid_table[found], k_oid_table[i])
<1> DEFINE found == Agent!LookupNext(Ber(o))
           after == {i \in Agent!Entries : Before(o, k_oid_table[i])}
<1>1. {i \in Agent!Entries : Agent!Precedes(Ber(o), k_oid_table[i])} = after
  BY RowsAreSmall, PrecedesAgrees
<1>2. found = Agent!FirstOf(after)
  BY <1>1 DEF Agent!LookupNext
<1>3. after \in SUBSET Nat /\ 0 \notin after
  BY RowsAreSmall
<1>4. CASE after = {}
  BY <1>2, <1>4 DEF Agent!FirstOf
<1>5. CASE after # {}
  <2> HIDE DEF after, found
  <2>1. found \in after /\ \A j \in after : found <= j
    BY <1>2, <1>3, <1>5, FirstIs
  <2>2. ASSUME NEW i \in after, i # found
        PROVE  Before(k_oid_table[found], k_oid_table[i])
    <3>1. found \in Agent!Entries /\ i \in Agent!Entries
      BY <2>1 DEF after
    <3>2. found < i
      BY <1>3, <2>1, <2>2
    <3>3. Agent!Precedes(k_oid_table[found], k_oid_table[i])
      BY <3>1, <3>2, TableSorted DEF Agent!Sorted
    <3> QED BY <3>1, <3>3, RowsAreSmall, RowsAgree
  <2>3. found # 0
    BY <1>3, <2>1
  <2> QED BY <2>1, <2>2, <2>3 DEF after, found
<1> QED BY <1>4, <1>5

----------------------------------------------------------------------------
(* Integers.                                                               *)

\* What decodes an integer, as a recursion over the bytes read.
LEMMA FoldsBytes ==
  ASSUME NEW b \in Seq(Byte), b # <<>>
  PROVE  \E f \in [0 .. Len(b) -> Int] :
           /\ DecodeInt32(b) = f[Len(b)]
           /\ f[0] = IF b[1] >= 128 THEN -1 ELSE 0
           /\ \A i \in 1 .. Len(b) : f[i] = 256 * f[i - 1] + b[i]
<1> DEFINE N == Len(b)
           base == IF b[1] >= 128 THEN -1 ELSE 0
           max(s) == CHOOSE x \in s : \A y \in s : x >= y
           Good(g, n) == \A s \in SUBSET (1 .. n) :
                           g[s] = IF s = {} THEN base
                                  ELSE 256 * g[s \ {max(s)}] + b[max(s)]
           Folds(n) == \E g \in [SUBSET (1 .. n) -> Int] : Good(g, n)
           S == {n \in Nat : n <= N => Folds(n)}
<1>1. N \in Nat /\ base \in Int /\ DOMAIN b = 1 .. N /\ N > 0
  BY LenProperties, EmptySeq
<1>2. \A i \in 1 .. N : b[i] \in Int
  BY ElementOfSeq, Bytes256
<1>3. 0 \in S
  <2> DEFINE g == [s \in SUBSET (1 .. 0) |-> base]
  <2>1. \A s \in SUBSET (1 .. 0) : s = {}
    OBVIOUS
  <2> HIDE DEF base
  <2>2. g \in [SUBSET (1 .. 0) -> Int]
    BY <1>1
  <2>3. Good(g, 0)
    BY <2>1
  <2> HIDE DEF Good, g
  <2>4. Folds(0)
    BY <2>2, <2>3
  <2> HIDE DEF Folds
  <2> QED BY <2>4
<1>4. ASSUME NEW n \in Nat, n \in S PROVE n + 1 \in S
  <2> SUFFICES ASSUME n + 1 <= N
               PROVE  \E g \in [SUBSET (1 .. n + 1) -> Int] : Good(g, n + 1)
    <3> HIDE DEF Good
    <3>1. ASSUME n + 1 <= N PROVE Folds(n + 1)
      BY <3>1
    <3> HIDE DEF Folds
    <3> QED BY <3>1
  <2>1. PICK g \in [SUBSET (1 .. n) -> Int] : Good(g, n)
    <3>1. n <= N
      BY <1>1
    <3> HIDE DEF Good
    <3>2. Folds(n)
      <4> HIDE DEF Folds
      <4> QED BY <1>4, <3>1
    <3> QED BY <3>2
  <2> DEFINE m == n + 1
             h == [s \in SUBSET (1 .. m) |->
                     IF m \in s THEN 256 * g[s \ {m}] + b[m] ELSE g[s]]
  <2>2. m \in Nat /\ b[m] \in Int /\ 1 .. n \subseteq 1 .. m
    BY <1>1, <1>2
  <2>3. ASSUME NEW s \in SUBSET (1 .. m)
        PROVE  /\ s \ {m} \in SUBSET (1 .. n)
               /\ m \notin s => s \in SUBSET (1 .. n)
               /\ m \in s => max(s) = m /\ s # {}
    <3>1. \A x \in s : x <= m /\ x \in Nat /\ (x # m => x \in 1 .. n)
      BY <2>2
    <3> HIDE DEF m
    <3>2. ASSUME m \in s PROVE max(s) = m
      <4>1. m \in s /\ \A y \in s : m >= y
        BY <2>2, <3>1, <3>2
      <4>2. \A x \in s : (\A y \in s : x >= y) => x = m
        BY <2>2, <3>1, <3>2
      <4> QED BY <4>1, <4>2
    <3> QED BY <3>1, <3>2
  <2> HIDE DEF m, max
  <2>4. h \in [SUBSET (1 .. m) -> Int]
    <3> SUFFICES ASSUME NEW s \in SUBSET (1 .. m)
                 PROVE  (IF m \in s THEN 256 * g[s \ {m}] + b[m] ELSE g[s]) \in Int
      OBVIOUS
    <3>1. m \in s => g[s \ {m}] \in Int
      BY <2>3
    <3>2. m \notin s => g[s] \in Int
      BY <2>3
    <3> QED BY <2>2, <3>1, <3>2
  <2>5. ASSUME NEW s \in SUBSET (1 .. m)
        PROVE  h[s] = IF s = {} THEN base ELSE 256 * h[s \ {max(s)}] + b[max(s)]
    <3>1. CASE m \in s
      <4>1. h[s] = 256 * g[s \ {m}] + b[m] /\ max(s) = m /\ s # {}
        BY <2>3, <3>1
      <4>2. s \ {m} \in SUBSET (1 .. m) /\ m \notin s \ {m}
        OBVIOUS
      <4>3. h[s \ {m}] = g[s \ {m}]
        BY <4>2
      <4> HIDE DEF h
      <4> QED BY <4>1, <4>3
    <3>2. CASE m \notin s
      <4>1. h[s] = g[s] /\ s \in SUBSET (1 .. n)
        BY <2>3, <3>2
      <4>2. s \ {max(s)} \in SUBSET (1 .. m) /\ m \notin s \ {max(s)}
        BY <3>2
      <4>3. h[s \ {max(s)}] = g[s \ {max(s)}]
        BY <4>2
      <4> HIDE DEF h, base
      <4>4. g[s] = IF s = {} THEN base ELSE 256 * g[s \ {max(s)}] + b[max(s)]
        BY <2>1, <4>1
      <4> QED BY <4>1, <4>3, <4>4
    <3> QED BY <3>1, <3>2
  <2> HIDE DEF h, base
  <2> QED BY <2>4, <2>5 DEF m
<1>5. PICK g \in [SUBSET (1 .. N) -> Int] : Good(g, N)
  <2>1. N \in S
    <3> HIDE DEF S
    <3> QED BY <1>1, <1>3, <1>4, Induction
  <2> HIDE DEF Good
  <2>2. Folds(N)
    <3> HIDE DEF Folds
    <3> QED BY <1>1, <2>1
  <2> QED BY <2>2
<1> DEFINE iter == CHOOSE it : it = [s \in SUBSET (DOMAIN b) |->
                     IF s = {} THEN base ELSE 256 * it[s \ {max(s)}] + b[max(s)]]
<1>6. iter = [s \in SUBSET (DOMAIN b) |->
                IF s = {} THEN base ELSE 256 * iter[s \ {max(s)}] + b[max(s)]]
  <2> HIDE DEF max, base
  <2> DEFINE IsIter(it) == it = [s \in SUBSET (DOMAIN b) |->
                     IF s = {} THEN base ELSE 256 * it[s \ {max(s)}] + b[max(s)]]
  <2>1. IsIter(g)
    BY <1>1, <1>5
  <2>2. IsIter(CHOOSE it : IsIter(it))
    <3> HIDE DEF IsIter
    <3> QED BY Zenon, <2>1
  <2> QED BY Zenon, <2>2
<1>7. DecodeInt32(b) = iter[DOMAIN b]
  BY Zenon DEF DecodeInt32, FoldLeft, MapThenFoldSet, Max
<1> HIDE DEF iter, max, base
<1>8. \A s \in SUBSET (1 .. N) :
        iter[s] = IF s = {} THEN base ELSE 256 * iter[s \ {max(s)}] + b[max(s)]
  BY Zenon, <1>1, <1>6
<1> DEFINE f == [k \in 0 .. N |-> iter[1 .. k]]
<1>9. ASSUME NEW k \in 1 .. N PROVE f[k] = 256 * f[k - 1] + b[k]
  <2>1. k \in Nat /\ k - 1 \in 0 .. N /\ k \in 0 .. N /\ 1 .. k \in SUBSET (1 .. N) /\ 1 .. k # {}
    BY <1>1
  <2>2. max(1 .. k) = k
    <3>1. k \in 1 .. k /\ \A y \in 1 .. k : k >= y
      BY <2>1
    <3>2. \A x \in 1 .. k : (\A y \in 1 .. k : x >= y) => x = k
      BY <2>1
    <3> QED BY <3>1, <3>2 DEF max
  <2>3. (1 .. k) \ {k} = 1 .. (k - 1)
    BY <2>1
  <2>4. iter[1 .. k] = 256 * iter[1 .. (k - 1)] + b[k]
    <3> DEFINE s == 1 .. k
    <3>1. s \in SUBSET (1 .. N) /\ s # {} /\ max(s) = k /\ s \ {k} = 1 .. (k - 1)
      BY <2>1, <2>2, <2>3
    <3> HIDE DEF s
    <3>2. iter[s] = 256 * iter[s \ {max(s)}] + b[max(s)]
      BY Zenon, <1>8, <3>1
    <3> QED BY <3>1, <3>2 DEF s
  <2> HIDE DEF N
  <2> QED BY Zenon, <2>1, <2>4
<1>10. f[0] = base /\ f[N] = iter[1 .. N]
  <2>1. 1 .. 0 = {} /\ 0 \in 0 .. N /\ N \in 0 .. N /\ {} \in SUBSET (1 .. N)
    BY <1>1
  <2> QED BY <1>8, <2>1
<1> HIDE DEF f
<1> DEFINE R == {k \in Nat : k <= N => f[k] \in Int}
<1>11. ASSUME NEW k \in Nat, k \in R PROVE k + 1 \in R
  <2> SUFFICES ASSUME k + 1 <= N PROVE f[k + 1] \in Int
    OBVIOUS
  <2>1. k + 1 \in 1 .. N /\ (k + 1) - 1 = k /\ f[k] \in Int
    BY <1>1, <1>11
  <2>2. f[k + 1] = 256 * f[k] + b[k + 1]
    BY <1>9, <2>1
  <2> QED BY <1>2, <2>1, <2>2
<1>12. \A k \in Nat : k \in R
  <2>1. 0 \in R
    BY <1>1, <1>10
  <2> HIDE DEF R
  <2> QED BY <1>11, <2>1, Induction
<1>13. f \in [0 .. N -> Int]
  <2>1. \A k \in 0 .. N : f[k] \in Int
    BY <1>1, <1>12
  <2>2. f = [k \in 0 .. N |-> f[k]]
    BY DEF f
  <2> QED BY <2>1, <2>2
<1>14. DecodeInt32(b) = f[N]
  BY Zenon, <1>1, <1>7, <1>10
<1> QED BY Zenon, <1>9, <1>10, <1>13, <1>14 DEF base

LEMMA Powers2 ==
  /\ 2 ^ (8 * 1 - 1) = 128 /\ 2 ^ (8 * 2 - 1) = 32768 /\ 2 ^ (8 * 3 - 1) = 8388608
  /\ 256 ^ 0 = 1 /\ 256 ^ 1 = 256 /\ 256 ^ 2 = 65536 /\ 256 ^ 3 = 16777216
<1>1. 8 * 1 - 1 = 7 /\ 8 * 2 - 1 = 15 /\ 8 * 3 - 1 = 23
  OBVIOUS
<1> QED BY SMT, <1>1

\* The numbers that n bytes hold.
Holds(n, v) ==
  \/ n = 1 /\ -128 <= v /\ v <= 127
  \/ n = 2 /\ -32768 <= v /\ v <= 32767
  \/ n = 3 /\ -8388608 <= v /\ v <= 8388607
  \/ n = 4

\* The bytes of a number, the first being that of 256 ^ (n - 1).
ByteOf(n, i, v) == (v \div 256 ^ (n - i)) % 256

LEMMA SignedBytesAre ==
  ASSUME NEW v \in Int32s
  PROVE  \E n \in 1 .. 4 :
           /\ SignedBytes(v) = [i \in 1 .. n |-> ByteOf(n, i, v)]
           /\ Holds(n, v) /\ \A j \in 1 .. n - 1 : ~Holds(j, v)
<1> DEFINE Fits(n) == n = 4 \/ v \in -(2 ^ (8 * n - 1)) .. 2 ^ (8 * n - 1) - 1
           Least(k) == Fits(k) /\ \A j \in 1 .. k - 1 : ~Fits(j)
           n == CHOOSE k \in 1 .. 4 : Least(k)
<1>1. v \in Int
  BY SMT DEF Int32s
<1>2. ASSUME NEW k \in 1 .. 4 PROVE Fits(k) <=> Holds(k, v)
  <2>1. k = 1 \/ k = 2 \/ k = 3 \/ k = 4
    OBVIOUS
  <2>2. CASE k = 1
    BY SMT, <1>1, <2>2, Powers2 DEF Holds
  <2>3. CASE k = 2
    BY SMT, <1>1, <2>3, Powers2 DEF Holds
  <2>4. CASE k = 3
    BY SMT, <1>1, <2>4, Powers2 DEF Holds
  <2>5. CASE k = 4
    BY SMT, <2>5 DEF Holds
  <2> QED BY <2>1, <2>2, <2>3, <2>4, <2>5
<1>3. Holds(4, v)
  BY SMT DEF Holds
<1> HIDE DEF Fits
<1>4. \E k \in 1 .. 4 : Least(k)
  BY <1>2, <1>3
<1>5. n \in 1 .. 4 /\ Least(n)
  <2> HIDE DEF Least
  <2> QED BY <1>4
<1>6. SignedBytes(v) = [i \in 1 .. n |-> ByteOf(n, i, v)]
  BY Zenon DEF SignedBytes, ByteOf, Fits
<1> HIDE DEF n
<1>7. Holds(n, v) /\ \A j \in 1 .. n - 1 : ~Holds(j, v)
  BY <1>2, <1>5
<1> QED BY <1>5, <1>6, <1>7

\* The bytes of a number are the bytes of an int32_t from some place on.
LEMMA FourBytes ==
  ASSUME NEW v \in Int32s
  PROVE  /\ Int32Bytes(v) \in Seq(Byte)
         /\ \A n \in 1 .. 4, i \in 1 .. 4 :
              i <= n => ByteOf(n, i, v) = Int32Bytes(v)[i + 4 - n]
<1>1. v \in Int
  BY SMT DEF Int32s
<1> DEFINE b1 == (v \div 16777216) % 256
           b2 == (v \div 65536) % 256
           b3 == (v \div 256) % 256
           b4 == v % 256
<1>2. b1 \in Byte /\ b2 \in Byte /\ b3 \in Byte /\ b4 \in Byte
  BY SMT, <1>1 DEF Byte
<1>3. ASSUME NEW k \in 0 .. 3
      PROVE  (v \div 256 ^ k) % 256 =
               IF k = 3 THEN b1 ELSE IF k = 2 THEN b2 ELSE IF k = 1 THEN b3 ELSE b4
  <2>1. k = 0 \/ k = 1 \/ k = 2 \/ k = 3
    OBVIOUS
  <2>2. CASE k = 0
    <3>1. v \div 1 = v
      BY <1>1
    <3> QED BY SMT, <1>1, <2>2, <3>1, Powers2
  <2>3. CASE k = 1
    BY SMT, <1>1, <2>3, Powers2
  <2>4. CASE k = 2
    BY SMT, <1>1, <2>4, Powers2
  <2>5. CASE k = 3
    BY SMT, <1>1, <2>5, Powers2
  <2> QED BY SMT, <2>1, <2>2, <2>3, <2>4, <2>5
<1>4. Int32Bytes(v) = <<b1, b2, b3, b4>>
  BY SMT, <1>1 DEF Int32Bytes
<1> HIDE DEF b1, b2, b3, b4
<1>5. ASSUME NEW n \in 1 .. 4, NEW i \in 1 .. 4, i <= n
      PROVE  ByteOf(n, i, v) = Int32Bytes(v)[i + 4 - n]
  <2>1. n - i \in 0 .. 3 /\ i + 4 - n = 4 - (n - i)
    BY <1>5
  <2> DEFINE k == n - i
  <2>2. ByteOf(n, i, v) =
          IF k = 3 THEN b1 ELSE IF k = 2 THEN b2 ELSE IF k = 1 THEN b3 ELSE b4
    BY <1>3, <2>1 DEF ByteOf
  <2> HIDE DEF k
  <2>3. k \in 0 .. 3 /\ i + 4 - n = 4 - k
    BY <2>1 DEF k
  <2> QED BY <1>4, <2>2, <2>3
<1> QED BY <1>2, <1>4, <1>5

Shifted(v, k) == v \div 256 ^ k

ByteSplits(v, k) ==
  /\ Shifted(v, k) \in Int /\ Shifted(v, k + 1) \in Int
  /\ Shifted(v, k) % 256 = Shifted(v, k) - 256 * Shifted(v, k + 1)

LEMMA DivStep ==
  ASSUME NEW v \in Int, NEW k \in 0 .. 2
  PROVE  ByteSplits(v, k)
<1> USE DEF ByteSplits
<1>1. (k = 0 /\ k + 1 = 1) \/ (k = 1 /\ k + 1 = 2) \/ (k = 2 /\ k + 1 = 3)
  OBVIOUS
<1>2. ASSUME NEW w \in Int PROVE w \div 256 \in Int /\ w % 256 = w - 256 * (w \div 256)
  BY SMT
<1>3. CASE k = 0 /\ k + 1 = 1
  <2>1. v \div 1 = v
    OBVIOUS
  <2>2. v % 256 = v - 256 * (v \div 256) /\ v \div 256 \in Int
    BY <1>2
  <2> QED BY SMT, <1>3, <2>1, <2>2, Powers2 DEF Shifted
<1>4. CASE k = 1 /\ k + 1 = 2
  <2>1. (v \div 256) \div 256 = v \div 65536
    BY SMT
  <2>2. v \div 256 \in Int /\ v \div 65536 \in Int
    BY SMT
  <2>3. (v \div 256) % 256 = (v \div 256) - 256 * ((v \div 256) \div 256)
    BY SMT, <1>2, <2>2
  <2> QED BY SMT, <1>4, <2>1, <2>2, <2>3, Powers2 DEF Shifted
<1>5. CASE k = 2 /\ k + 1 = 3
  <2>1. (v \div 65536) \div 256 = v \div 16777216
    BY SMT
  <2>2. v \div 65536 \in Int /\ v \div 16777216 \in Int
    BY SMT
  <2>3. (v \div 65536) % 256 = (v \div 65536) - 256 * ((v \div 65536) \div 256)
    BY SMT, <1>2, <2>2
  <2> QED BY SMT, <1>5, <2>1, <2>2, <2>3, Powers2 DEF Shifted
<1> QED BY SMT, <1>1, <1>3, <1>4, <1>5

LEMMA TopByte ==
  ASSUME NEW v \in Int32s, NEW n \in 1 .. 4, Holds(n, v)
  PROVE  v \div 256 ^ (n - 1) \in Int /\ -128 <= v \div 256 ^ (n - 1)
         /\ v \div 256 ^ (n - 1) <= 127
<1>1. v \in Int /\ -2147483647 - 1 <= v /\ v <= 2147483647
  BY SMT DEF Int32s
<1>2. (n = 1 /\ n - 1 = 0) \/ (n = 2 /\ n - 1 = 1) \/ (n = 3 /\ n - 1 = 2) \/ (n = 4 /\ n - 1 = 3)
  OBVIOUS
<1>3. CASE n = 1 /\ n - 1 = 0
  <2>1. v \div 1 = v
    BY SMT, <1>1
  <2> QED BY SMT, <1>1, <1>3, <2>1, Powers2 DEF Holds
<1>4. CASE n = 2 /\ n - 1 = 1
  BY SMT, <1>1, <1>4, Powers2 DEF Holds
<1>5. CASE n = 3 /\ n - 1 = 2
  BY SMT, <1>1, <1>5, Powers2 DEF Holds
<1>6. CASE n = 4 /\ n - 1 = 3
  BY SMT, <1>1, <1>6, Powers2
<1> QED BY SMT, <1>2, <1>3, <1>4, <1>5, <1>6

\* snmp_decode_int32() reads the number that the standard's encoding stands for.
LEMMA IntegerIsRead ==
  ASSUME NEW v \in Int32s
  PROVE  /\ SignedBytes(v) \in Seq(Byte) /\ Len(SignedBytes(v)) \in 1 .. 4
         /\ DecodeInt32(SignedBytes(v)) = v
<1> DEFINE b == SignedBytes(v)
           Q(k) == Shifted(v, k)
<1>1. PICK n \in 1 .. 4 :
        b = [i \in 1 .. n |-> ByteOf(n, i, v)] /\ Holds(n, v)
  BY SignedBytesAre
<1>2. v \in Int
  BY SMT DEF Int32s
<1>3. ASSUME NEW i \in 1 .. n PROVE b[i] = Q(n - i) % 256 /\ b[i] \in Byte
  <2>1. b[i] = Q(n - i) % 256
    BY <1>1 DEF ByteOf, Shifted
  <2>2. i \in 1 .. 4 /\ i <= n /\ i + 4 - n \in 1 .. 4 /\ Len(Int32Bytes(v)) = 4
    BY SMT DEF Int32Bytes
  <2>3. b[i] = Int32Bytes(v)[i + 4 - n] /\ Int32Bytes(v) \in Seq(Byte)
    <3> HIDE DEF b
    <3>1. b[i] = ByteOf(n, i, v)
      BY <1>1
    <3> QED BY <2>2, <3>1, FourBytes
  <2> QED BY <2>1, <2>2, <2>3, ElementOfSeq
<1> HIDE DEF b
<1>4. b \in Seq(Byte) /\ Len(b) = n /\ b # <<>>
  <2>1. DOMAIN b = 1 .. n /\ b = [i \in 1 .. n |-> b[i]]
    BY <1>1
  <2>2. b \in [1 .. n -> Byte]
    BY <1>3, <2>1
  <2> QED BY <2>1, <2>2
<1>5. PICK f \in [0 .. n -> Int] :
        /\ DecodeInt32(b) = f[n]
        /\ f[0] = IF b[1] >= 128 THEN -1 ELSE 0
        /\ \A i \in 1 .. n : f[i] = 256 * f[i - 1] + b[i]
  <2> DEFINE Folded(N) == \E f \in [0 .. N -> Int] :
                            /\ DecodeInt32(b) = f[N]
                            /\ f[0] = IF b[1] >= 128 THEN -1 ELSE 0
                            /\ \A i \in 1 .. N : f[i] = 256 * f[i - 1] + b[i]
  <2>1. Folded(Len(b))
    BY Zenon, <1>4, FoldsBytes
  <2>2. Folded(n)
    <3> HIDE DEF Folded
    <3> QED BY <1>4, <2>1
  <2> QED BY Zenon, <2>2 DEF Folded
<1>6. f[1] = Q(n - 1)
  <2> DEFINE q == Q(n - 1)
  <2>1. q \in Int /\ -128 <= q /\ q <= 127
    BY <1>1, TopByte DEF Shifted
  <2>2. b[1] = q % 256
    BY <1>3
  <2> HIDE DEF q
  <2>3. b[1] = IF q < 0 THEN q + 256 ELSE q
    BY <2>1, <2>2
  <2>4. f[0] = IF q < 0 THEN -1 ELSE 0
    BY <1>5, <2>1, <2>3
  <2>5. f[1] = 256 * f[0] + b[1]
    <3>1. 1 \in 1 .. n /\ 1 - 1 = 0
      OBVIOUS
    <3> QED BY <1>5, <3>1
  <2>6. f[1] = q
    BY <2>1, <2>3, <2>4, <2>5
  <2> QED BY <2>6 DEF q
<1>7. ASSUME NEW i \in 1 .. 3, i + 1 <= n, f[i] = Q(n - i)
      PROVE  f[i + 1] = Q(n - (i + 1))
  <2> DEFINE k == n - (i + 1)
  <2>1. k \in 0 .. 2 /\ k + 1 = n - i
    BY <1>7
  <2>2. /\ Shifted(v, k) \in Int /\ Shifted(v, k + 1) \in Int
        /\ Shifted(v, k) % 256 = Shifted(v, k) - 256 * Shifted(v, k + 1)
    <3>1. k \in 0 .. 2
      BY <2>1
    <3> HIDE DEF k
    <3>2. ByteSplits(v, k)
      BY Zenon, <1>2, <3>1, DivStep
    <3> QED BY Zenon, <3>2 DEF ByteSplits
  <2>3. i + 1 \in 1 .. n /\ (i + 1) - 1 = i
    BY <1>7
  <2>4. b[i + 1] = Q(k) % 256
    BY <1>3, <2>3
  <2>5. f[i + 1] = 256 * f[i] + b[i + 1]
    BY <1>5, <2>3
  <2>6. Q(k) \in Int /\ f[i] \in Int /\ Q(k) % 256 = Q(k) - 256 * f[i]
    BY <1>7, <2>1, <2>2
  <2> HIDE DEF Q, k
  <2>7. f[i + 1] = Q(k)
    BY <2>4, <2>5, <2>6
  <2> QED BY <2>7 DEF k
<1> HIDE DEF Q
<1>8. f[n] = Q(0)
  <2>1. n = 1 \/ n = 2 \/ n = 3 \/ n = 4
    OBVIOUS
  <2>2. n >= 2 => f[2] = Q(n - 2)
    BY <1>6, <1>7
  <2>3. n >= 3 => f[3] = Q(n - 3)
    BY <2>2, <1>7
  <2>4. n >= 4 => f[4] = Q(n - 4)
    BY <2>3, <1>7
  <2> QED BY <1>6, <2>1, <2>2, <2>3, <2>4
<1>9. Q(0) = v
  BY SMT, <1>2, Powers2 DEF Q, Shifted
<1> QED BY <1>4, <1>5, <1>8, <1>9 DEF b

----------------------------------------------------------------------------
(* Types and lengths.                                                      *)

\* The header of n bytes, as it may be written.
IsHeader(h, type, n) ==
  /\ h \in Seq(Byte) /\ h[1] = type
  /\ \/ Len(h) = 2 /\ n < 128 /\ h[2] = n
     \/ Len(h) = 3 /\ n < 256 /\ h[2] = 129 /\ h[3] = n
     \/ Len(h) = 4 /\ h[2] = 130 /\ h[3] * 256 + h[4] = n

LEMMA LongHeader ==
  ASSUME NEW type \in Byte, NEW n \in Nat, n <= MaxDatagram
  PROVE  IsHeader(<<type, 130, n \div 256, n % 256>>, type, n)
<1> DEFINE h == <<type, 130, n \div 256, n % 256>>
<1>1. n \div 256 \in Byte /\ n % 256 \in Byte /\ 130 \in Byte
  BY DEF Byte, MaxDatagram
<1>2. (n \div 256) * 256 + (n % 256) = n
  <2>1. n % 256 = n - 256 * (n \div 256) /\ n \in Int /\ n \div 256 \in Int
    BY SMT
  <2> QED BY <2>1
<1>3. h \in Seq(Byte) /\ Len(h) = 4 /\ h[1] = type /\ h[2] = 130
      /\ h[3] = n \div 256 /\ h[4] = n % 256
  BY <1>1
<1> HIDE DEF h
<1>4. IsHeader(h, type, n)
  BY <1>2, <1>3 DEF IsHeader
<1> QED BY <1>4 DEF h

LEMMA ShortHeader ==
  ASSUME NEW type \in Byte, NEW n \in Nat, n < 256
  PROVE  /\ n < 128 => IsHeader(<<type, n>>, type, n)
         /\ n >= 128 => IsHeader(<<type, 129, n>>, type, n)
<1>1. n \in Byte /\ 129 \in Byte
  BY DEF Byte
<1>2. n < 128 => IsHeader(<<type, n>>, type, n)
  BY <1>1 DEF IsHeader
<1>3. IsHeader(<<type, 129, n>>, type, n)
  <2> DEFINE h == <<type, 129, n>>
  <2>1. h \in Seq(Byte) /\ Len(h) = 3 /\ h[1] = type /\ h[2] = 129 /\ h[3] = n
    BY <1>1
  <2> HIDE DEF h
  <2>2. IsHeader(h, type, n)
    BY <2>1 DEF IsHeader
  <2> QED BY <2>2 DEF h
<1> QED BY <1>2, <1>3

\* Every type and length written before a value, however it is written.
LEMMA WrapIs ==
  ASSUME NEW long \in BOOLEAN, NEW type \in Byte, NEW c \in Seq(Byte), Len(c) <= MaxDatagram
  PROVE  \E h : IsHeader(h, type, Len(c)) /\ Wrap(long, type, c) = h \o c
<1> DEFINE n == Len(c)
<1>1. n \in Nat /\ n <= MaxDatagram
  BY SMT, LenProperties
<1>2. LongTlv(type, c) = <<type, 130, n \div 256, n % 256>> \o c
  BY DEF LongTlv
<1>3. Tlv(type, c) = IF n < 128 THEN <<type, n>> \o c
                     ELSE IF n < 256 THEN <<type, 129, n>> \o c
                     ELSE LongTlv(type, c)
  BY DEF Tlv
<1>4. Wrap(long, type, c) = IF long THEN LongTlv(type, c) ELSE Tlv(type, c)
  BY DEF Wrap
<1>5. IsHeader(<<type, 130, n \div 256, n % 256>>, type, n)
  <2> HIDE DEF n
  <2> QED BY <1>1, LongHeader
<1>6. n < 256 => (n < 128 => IsHeader(<<type, n>>, type, n))
              /\ (n >= 128 => IsHeader(<<type, 129, n>>, type, n))
  <2> HIDE DEF n
  <2> QED BY <1>1, ShortHeader
<1> HIDE DEF n
<1>7. (n < 128 \/ n >= 128) /\ (n < 128 => n < 256)
  BY <1>1
<1>8. CASE Wrap(long, type, c) = LongTlv(type, c)
  BY Zenon, <1>2, <1>5, <1>8 DEF n
<1>9. CASE Wrap(long, type, c) = <<type, n>> \o c /\ n < 128
  BY Zenon, <1>6, <1>7, <1>9 DEF n
<1>10. CASE Wrap(long, type, c) = <<type, 129, n>> \o c /\ n >= 128 /\ n < 256
  BY Zenon, <1>6, <1>10 DEF n
<1> DEFINE w == Wrap(long, type, c)
<1>11. \/ w = LongTlv(type, c)
       \/ w = <<type, n>> \o c /\ n < 128
       \/ w = <<type, 129, n>> \o c /\ n >= 128 /\ n < 256
  <2> DEFINE long4 == LongTlv(type, c)
             two == <<type, n>> \o c
             three == <<type, 129, n>> \o c
             tlv == Tlv(type, c)
  <2>1. /\ w = IF long THEN long4 ELSE tlv
        /\ tlv = IF n < 128 THEN two ELSE IF n < 256 THEN three ELSE long4
    BY Zenon, <1>3, <1>4
  <2> HIDE DEF w, tlv, long4, two, three
  <2>2. w = long4 \/ (w = two /\ n < 128) \/ (w = three /\ n >= 128 /\ n < 256)
    BY <1>1, <2>1
  <2> QED BY <2>2 DEF w, long4, two, three
<1> QED BY Zenon, <1>8, <1>9, <1>10, <1>11

LEMMA TlvIsWrap == \A type, c : Tlv(type, c) = Wrap(FALSE, type, c)
BY DEF Wrap

\* The bytes s occur in the datagram at p.
At(pkt, p, s) ==
  p + Len(s) <= Len(pkt) + 1 /\ \A i \in 1 .. Len(s) : pkt[p + i - 1] = s[i]

LEMMA AtConcat ==
  ASSUME NEW pkt, NEW p \in Nat, Len(pkt) \in Nat,
         NEW s \in Seq(Byte), NEW t \in Seq(Byte), At(pkt, p, s \o t)
  PROVE  At(pkt, p, s) /\ At(pkt, p + Len(s), t) /\ Len(s \o t) = Len(s) + Len(t)
<1> DEFINE h == s \o t
<1>1. Len(s) \in Nat /\ Len(t) \in Nat
  BY LenProperties
<1>2. /\ Len(h) = Len(s) + Len(t)
      /\ \A i \in 1 .. Len(s) : h[i] = s[i]
      /\ \A i \in 1 .. Len(t) : h[Len(s) + i] = t[i]
  <2>1. \A i \in 1 .. Len(s) : i \in 1 .. Len(s) + Len(t) /\ i <= Len(s)
    BY <1>1
  <2>2. \A i \in 1 .. Len(t) : /\ Len(s) + i \in 1 .. Len(s) + Len(t)
                               /\ ~(Len(s) + i <= Len(s)) /\ (Len(s) + i) - Len(s) = i
    BY <1>1
  <2> QED BY <2>1, <2>2, ConcatProperties
<1>3. p + Len(h) <= Len(pkt) + 1 /\ \A i \in 1 .. Len(h) : pkt[p + i - 1] = h[i]
  BY DEF At
<1> HIDE DEF h
<1>4. At(pkt, p, s)
  <2>1. p + Len(s) <= Len(pkt) + 1
    BY <1>1, <1>2, <1>3
  <2>2. \A i \in 1 .. Len(s) : i \in 1 .. Len(h)
    BY <1>1, <1>2
  <2> QED BY <1>2, <1>3, <2>1, <2>2 DEF At
<1>5. At(pkt, p + Len(s), t)
  <2>1. (p + Len(s)) + Len(t) <= Len(pkt) + 1
    BY <1>1, <1>2, <1>3
  <2>2. ASSUME NEW i \in 1 .. Len(t) PROVE pkt[(p + Len(s)) + i - 1] = t[i]
    <3>1. Len(s) + i \in 1 .. Len(h) /\ p + (Len(s) + i) - 1 = (p + Len(s)) + i - 1
      BY <1>1, <1>2
    <3>2. pkt[p + (Len(s) + i) - 1] = h[Len(s) + i]
      BY <1>3, <3>1
    <3> QED BY <1>2, <3>1, <3>2
  <2> QED BY <2>1, <2>2 DEF At
<1> QED BY <1>2, <1>4, <1>5 DEF h

LEMMA AtBytes ==
  ASSUME NEW pkt \in Seq(Byte), NEW p \in Nat \ {0}, NEW s \in Seq(Byte), At(pkt, p, s)
  PROVE  SubSeq(pkt, p, p + Len(s) - 1) = s
<1> DEFINE e == p + Len(s) - 1
           b == SubSeq(pkt, p, e)
<1>1. Len(s) \in Nat /\ Len(pkt) \in Nat
  BY LenProperties
<1>2. p \in Int /\ e \in Int /\ e <= Len(pkt) /\ e - p + 1 = Len(s) /\ (p <= e <=> Len(s) # 0)
  BY <1>1 DEF At
<1>3. \A i \in p .. e : pkt[i] \in Byte
  <2>1. \A i \in p .. e : i \in 1 .. Len(pkt)
    BY <1>1, <1>2
  <2> QED BY <2>1, ElementOfSeq
<1> HIDE DEF e
<1>4. /\ b \in Seq(Byte)
      /\ Len(b) = IF p <= e THEN e - p + 1 ELSE 0
      /\ \A i \in 1 .. e - p + 1 : b[i] = pkt[p + i - 1]
  BY <1>2, <1>3, SubSeqProperties
<1> HIDE DEF b
<1>5. Len(b) = Len(s)
  BY <1>1, <1>2, <1>4
<1>6. \A i \in 1 .. Len(s) : b[i] = s[i]
  BY <1>2, <1>4 DEF At
<1>7. b = s
  BY <1>4, <1>5, <1>6, SeqEqual
<1> QED BY <1>7 DEF b, e

\* What is read of the header h and the value c at p.
PartIs(part, pkt, p, end, h, c) ==
  /\ part.ok /\ part.value \in Nat \ {0} /\ part.value = p + Len(h)
  /\ part.next = p + Len(h \o c) /\ part.next = part.value + Len(c)
  /\ part.end = end
  /\ At(pkt, part.value, c) /\ Bytes(pkt, part) = c

\* A part that is in the datagram, room and all, is read.
LEMMA ReadsPart ==
  ASSUME NEW pkt \in Seq(Byte), NEW p \in Nat \ {0}, NEW end \in Nat,
         NEW type \in Byte, NEW c \in Seq(Byte), NEW h, IsHeader(h, type, Len(c)),
         At(pkt, p, h \o c), p + Len(h \o c) <= end
  PROVE  PartIs(ExpectTlv(pkt, p, end, type), pkt, p, end, h, c)
<1> DEFINE n == Len(c)
           q == p + Len(h)
           l == Len(h)
<1>1. /\ n \in Nat /\ l \in Nat /\ (l = 2 \/ l = 3 \/ l = 4) /\ Len(pkt) \in Nat
      /\ h \in Seq(Byte) /\ \A i \in 1 .. l : h[i] \in Nat
  <2>1. n \in Nat /\ (l = 2 \/ l = 3 \/ l = 4) /\ h \in Seq(Byte)
    BY LenProperties DEF IsHeader
  <2>2. \A i \in 1 .. l : h[i] \in Nat
    BY <2>1, ElementOfSeq, Bytes256
  <2>3. l \in Nat /\ Len(pkt) \in Nat
    BY <2>1, LenProperties
  <2> QED BY <2>1, <2>2, <2>3
<1>2. At(pkt, p, h) /\ At(pkt, q, c) /\ Len(h \o c) = l + n
  BY <1>1, AtConcat
<1>3. /\ \A i \in 1 .. l : pkt[p + i - 1] = h[i]
      /\ h[1] = type
      /\ \/ l = 2 /\ n < 128 /\ h[2] = n
         \/ l = 3 /\ n < 256 /\ h[2] = 129 /\ h[3] = n
         \/ l = 4 /\ h[2] = 130 /\ h[3] * 256 + h[4] = n
  BY <1>2 DEF At, IsHeader
<1> HIDE DEF n, l
<1>4. /\ pkt[p] = h[1] /\ pkt[p + 1] = h[2]
      /\ l >= 3 => pkt[(p + 1) + 1] = h[3]
      /\ l >= 4 => pkt[(p + 1) + 2] = h[4]
  <2>1. /\ p + 1 - 1 = p /\ p + 2 - 1 = p + 1 /\ p + 3 - 1 = (p + 1) + 1
        /\ p + 4 - 1 = (p + 1) + 2
    OBVIOUS
  <2>2. /\ 1 \in 1 .. l /\ 2 \in 1 .. l
        /\ l >= 3 => 3 \in 1 .. l
        /\ l >= 4 => 4 \in 1 .. l
    BY <1>1
  <2> QED BY <1>3, <2>1, <2>2
<1>5. h[1] \in Nat /\ h[2] \in Nat /\ (l >= 3 => h[3] \in Nat) /\ (l >= 4 => h[4] \in Nat)
  <2>1. /\ 1 \in 1 .. l /\ 2 \in 1 .. l
        /\ l >= 3 => 3 \in 1 .. l
        /\ l >= 4 => 4 \in 1 .. l
    BY <1>1
  <2> QED BY <1>1, <2>1
<1>6. p + l + n <= end /\ p + 1 < end /\ ~(p + 1 >= end)
  <2>1. p + (l + n) <= end
    BY <1>2
  <2> QED BY <1>1, <2>1
<1>7. ExpectTlv(pkt, p, end, type) = ReadValue(pkt, p + 1, end)
  <2>1. p < end /\ pkt[p] = type
    BY <1>1, <1>3, <1>4, <1>6
  <2> QED BY <2>1 DEF ExpectTlv
<1> DEFINE two == pkt[p + 1]
           three == pkt[(p + 1) + 1]
           four == pkt[(p + 1) + 2]
<1>8. ReadValue(pkt, p + 1, end) = Part(p + l, n, end)
  <2>1. ReadValue(pkt, p + 1, end) =
          IF p + 1 >= end THEN Bad
          ELSE IF two < 128 THEN Part((p + 1) + 1, two, end)
          ELSE IF two = 129 /\ end - (p + 1) >= 2 THEN Part((p + 1) + 2, three, end)
          ELSE IF two = 130 /\ end - (p + 1) >= 3
               THEN Part((p + 1) + 3, 256 * three + four, end)
          ELSE Bad
    BY DEF ReadValue
  <2>2. (p + 1) + 1 = p + 2 /\ (p + 1) + 2 = p + 3 /\ (p + 1) + 3 = p + 4
    OBVIOUS
  <2>3. /\ two = h[2] /\ (l >= 3 => three = h[3]) /\ (l >= 4 => four = h[4])
    BY <1>4
  <2> HIDE DEF two, three, four
  <2>4. CASE l = 2
    <3>1. two = n /\ two < 128
      BY <1>3, <2>3, <2>4
    <3> QED BY <1>6, <2>1, <2>2, <2>4, <3>1
  <2>5. CASE l = 3
    <3>1. two = 129 /\ ~(two < 128) /\ three = n /\ end - (p + 1) >= 2
      BY <1>1, <1>3, <1>6, <2>3, <2>5
    <3> QED BY <1>6, <2>1, <2>2, <2>5, <3>1
  <2>6. CASE l = 4
    <3>1. two = 130 /\ ~(two < 128) /\ end - (p + 1) >= 3 /\ two # 129
      <4>1. two = 130
        BY <1>3, <2>3, <2>6
      <4>2. end - (p + 1) >= 3
        BY <1>1, <1>6, <2>6
      <4> QED BY <4>1, <4>2
    <3>2. 256 * three + four = n
      <4>1. three = h[3] /\ four = h[4] /\ h[3] \in Nat /\ h[4] \in Nat
        BY <1>5, <2>3, <2>6
      <4>2. h[3] * 256 + h[4] = n
        BY <1>3, <2>6
      <4> QED BY <4>1, <4>2
    <3> QED BY <1>6, <2>1, <2>2, <2>6, <3>1, <3>2
  <2> QED BY <1>1, <2>4, <2>5, <2>6
<1>9. end - q >= n /\ q + n = p + Len(h \o c) /\ q \in Nat \ {0} /\ q = p + l
  <2>1. q = p + l
    BY DEF l
  <2> HIDE DEF q
  <2> QED BY <1>1, <1>2, <1>6, <2>1
<1>10. Part(q, n, end) = [ok |-> TRUE, value |-> q, next |-> q + n, end |-> end]
  BY <1>9 DEF Part
<1> DEFINE part == ExpectTlv(pkt, p, end, type)
<1>11. part.ok /\ part.value = q /\ part.next = q + n /\ part.end = end
  BY <1>7, <1>8, <1>9, <1>10
<1>12. SubSeq(pkt, q, q + n - 1) = c
  BY <1>2, <1>9, AtBytes DEF n
<1> HIDE DEF part, q
<1>13. Bytes(pkt, part) = c
  <2>1. part.next - 1 = q + n - 1
    BY <1>1, <1>9, <1>11
  <2> QED BY <1>11, <1>12, <2>1 DEF Bytes
<1> QED BY <1>2, <1>9, <1>11, <1>13 DEF part, q, n, PartIs

----------------------------------------------------------------------------
(* A message and its parts.                                                *)

BindingBody(oid, value) == Tlv(OID, oid) \o value
ListBody(long, oid, value) == Wrap(long, SEQUENCE, BindingBody(oid, value))
PduBody(long, req, status, index, oid, value) ==
  Signed(req.id) \o Signed(status) \o Signed(index)
    \o Wrap(long, SEQUENCE, ListBody(long, oid, value))
Body(long, req, type, status, index, oid, value) ==
  Signed(req.version) \o Tlv(OCTETS, req.community)
    \o Wrap(long, type, PduBody(long, req, status, index, oid, value))

\* Who asks, as far as a message tells.
IsAsker(req) == req.version \in Int32s /\ req.community \in Seq(Byte) /\ req.id \in Int32s

LEMMA MessageIs ==
  \A long, req, type, status, index, oid, value :
    Message(long, req, type, status, index, oid, value)
      = Wrap(long, SEQUENCE, Body(long, req, type, status, index, oid, value))
BY DEF Message, Body, PduBody, ListBody, BindingBody

LEMMA Types ==
  /\ INTEGER \in Byte /\ OCTETS \in Byte /\ NULL \in Byte /\ OID \in Byte
  /\ SEQUENCE \in Byte /\ GET \in Byte /\ GETNEXT \in Byte /\ RESPONSE \in Byte
BY DEF INTEGER, OCTETS, NULL, OID, SEQUENCE, GET, GETNEXT, RESPONSE, Byte

LEMMA BytesAreNumbers ==
  ASSUME NEW s \in Seq(Byte)
  PROVE  s \in Seq(Nat)
<1>1. Byte \subseteq Nat
  BY Bytes256
<1> QED BY <1>1, SeqMonotonic

LEMMA WrapGrows ==
  ASSUME NEW long \in BOOLEAN, NEW type \in Byte, NEW c \in Seq(Nat)
  PROVE  Wrap(long, type, c) \in Seq(Nat) /\ Len(Wrap(long, type, c)) >= Len(c) + 2
<1> DEFINE n == Len(c)
           h2 == <<type, n>>
           h3 == <<type, 129, n>>
           h4 == <<type, 130, n \div 256, n % 256>>
           w == Wrap(long, type, c)
<1>1. n \in Nat /\ n \div 256 \in Nat /\ n % 256 \in Nat /\ type \in Nat
  <2>1. n \in Nat /\ type \in Nat
    BY LenProperties, Bytes256
  <2> HIDE DEF n
  <2> QED BY <2>1
<1>2. w = h2 \o c \/ w = h3 \o c \/ w = h4 \o c
  <2> DEFINE tlv == Tlv(type, c)
             two == h2 \o c
             three == h3 \o c
             four == h4 \o c
  <2>1. /\ w = IF long THEN four ELSE tlv
        /\ tlv = IF n < 128 THEN two ELSE IF n < 256 THEN three ELSE four
    <3>1. LongTlv(type, c) = four
      BY DEF LongTlv
    <3> HIDE DEF four
    <3>2. tlv = IF n < 128 THEN two ELSE IF n < 256 THEN three ELSE LongTlv(type, c)
      BY Zenon DEF Tlv
    <3>3. w = IF long THEN LongTlv(type, c) ELSE tlv
      BY Zenon DEF Wrap
    <3> HIDE DEF w, tlv, two, three
    <3> QED BY <3>1, <3>2, <3>3
  <2> HIDE DEF w, tlv, two, three, four
  <2>2. w = two \/ w = three \/ w = four
    BY <2>1
  <2> QED BY <2>2 DEF w, two, three, four
<1> HIDE DEF n, w
<1>3. /\ h2 \in Seq(Nat) /\ Len(h2) = 2 /\ h3 \in Seq(Nat) /\ Len(h3) = 3
      /\ h4 \in Seq(Nat) /\ Len(h4) = 4
  BY <1>1
<1> HIDE DEF h2, h3, h4
<1>4. /\ h2 \o c \in Seq(Nat) /\ Len(h2 \o c) = 2 + n
      /\ h3 \o c \in Seq(Nat) /\ Len(h3 \o c) = 3 + n
      /\ h4 \o c \in Seq(Nat) /\ Len(h4 \o c) = 4 + n
  <2>1. \A h \in Seq(Nat) : h \o c \in Seq(Nat) /\ Len(h \o c) = Len(h) + n
    BY ConcatProperties DEF n
  <2> QED BY <1>3, <2>1
<1>5. w \in Seq(Nat) /\ Len(w) >= n + 2
  <2>1. 2 + n >= n + 2 /\ 3 + n >= n + 2 /\ 4 + n >= n + 2
    BY <1>1
  <2> QED BY Zenon, <1>2, <1>4, <2>1
<1> QED BY <1>5 DEF n, w

LEMMA WrapBytes ==
  ASSUME NEW long \in BOOLEAN, NEW type \in Byte, NEW c \in Seq(Byte), Len(c) <= MaxDatagram
  PROVE  Wrap(long, type, c) \in Seq(Byte)
<1>1. PICK h : IsHeader(h, type, Len(c)) /\ Wrap(long, type, c) = h \o c
  BY WrapIs
<1>2. h \in Seq(Byte)
  BY <1>1 DEF IsHeader
<1> QED BY <1>1, <1>2, ConcatProperties

LEMMA SignedIs ==
  ASSUME NEW v \in Int32s
  PROVE  /\ Signed(v) = Wrap(FALSE, INTEGER, SignedBytes(v))
         /\ SignedBytes(v) \in Seq(Byte) /\ Len(SignedBytes(v)) <= MaxDatagram
         /\ Signed(v) \in Seq(Byte)
<1>1. SignedBytes(v) \in Seq(Byte) /\ Len(SignedBytes(v)) <= MaxDatagram
  <2>1. \A n \in 1 .. 4 : n <= MaxDatagram
    BY SMT DEF MaxDatagram
  <2> QED BY Zenon, IntegerIsRead, <2>1
<1>2. Signed(v) = Wrap(FALSE, INTEGER, SignedBytes(v))
  BY TlvIsWrap DEF Signed
<1> QED BY <1>1, <1>2, WrapBytes, Types

\* All lengths of a message are those that two bytes hold, and all of it bytes.
PartsAreBytes(long, req, type, status, index, oid, value) ==
  /\ Len(oid) <= MaxDatagram /\ Tlv(OID, oid) \in Seq(Byte)
  /\ Len(req.community) <= MaxDatagram /\ Tlv(OCTETS, req.community) \in Seq(Byte)
  /\ BindingBody(oid, value) \in Seq(Byte) /\ Len(BindingBody(oid, value)) <= MaxDatagram
  /\ ListBody(long, oid, value) \in Seq(Byte)
  /\ Len(ListBody(long, oid, value)) <= MaxDatagram
  /\ Wrap(long, SEQUENCE, ListBody(long, oid, value)) \in Seq(Byte)
  /\ PduBody(long, req, status, index, oid, value) \in Seq(Byte)
  /\ Len(PduBody(long, req, status, index, oid, value)) <= MaxDatagram
  /\ Wrap(long, type, PduBody(long, req, status, index, oid, value)) \in Seq(Byte)
  /\ Body(long, req, type, status, index, oid, value) \in Seq(Byte)
  /\ Len(Body(long, req, type, status, index, oid, value)) <= MaxDatagram

LEMMA PartsFit ==
  ASSUME NEW long \in BOOLEAN, NEW req, IsAsker(req), NEW type \in Byte,
         NEW status \in Int32s, NEW index \in Int32s,
         NEW oid \in Seq(Byte), NEW value \in Seq(Byte),
         Len(Message(long, req, type, status, index, oid, value)) <= MaxDatagram
  PROVE  PartsAreBytes(long, req, type, status, index, oid, value)
<1> DEFINE o == Tlv(OID, oid)
           c == Tlv(OCTETS, req.community)
           binding == BindingBody(oid, value)
           list == ListBody(long, oid, value)
           wlist == Wrap(long, SEQUENCE, list)
           pdu == PduBody(long, req, status, index, oid, value)
           wpdu == Wrap(long, type, pdu)
           body == Body(long, req, type, status, index, oid, value)
           i1 == Signed(req.id)
           i2 == Signed(status)
           i3 == Signed(index)
           i4 == Signed(req.version)
           Num(s) == s \in Seq(Nat) /\ Len(s) \in Nat
<1>1. req.community \in Seq(Byte) /\ req.version \in Int32s /\ req.id \in Int32s
  BY DEF IsAsker
<1>2. /\ i1 \in Seq(Byte) /\ i2 \in Seq(Byte) /\ i3 \in Seq(Byte) /\ i4 \in Seq(Byte)
  BY <1>1, SignedIs
<1>3. /\ binding = o \o value
      /\ list = Wrap(long, SEQUENCE, binding)
      /\ pdu = i1 \o i2 \o i3 \o wlist
      /\ body = i4 \o c \o wpdu
      /\ Len(Wrap(long, SEQUENCE, body)) <= MaxDatagram
      /\ o = Wrap(FALSE, OID, oid) /\ c = Wrap(FALSE, OCTETS, req.community)
  BY MessageIs, TlvIsWrap DEF BindingBody, ListBody, PduBody, Body
<1> HIDE DEF o, c, binding, list, pdu, body, i1, i2, i3, i4
<1>4. \A s \in Seq(Byte) : Num(s)
  BY BytesAreNumbers, LenProperties
<1>5. ASSUME NEW s, NEW t, Num(s), Num(t)
      PROVE  Num(s \o t) /\ Len(s \o t) >= Len(s) /\ Len(s \o t) >= Len(t)
  <2>1. s \o t \in Seq(Nat) /\ Len(s \o t) = Len(s) + Len(t)
    BY <1>5, ConcatProperties
  <2> QED BY <1>5, <2>1
<1>6. ASSUME NEW lg \in BOOLEAN, NEW ty \in Byte, NEW s, Num(s)
      PROVE  Num(Wrap(lg, ty, s)) /\ Len(Wrap(lg, ty, s)) >= Len(s)
  <2>1. Wrap(lg, ty, s) \in Seq(Nat) /\ Len(Wrap(lg, ty, s)) >= Len(s) + 2
    BY <1>6, WrapGrows
  <2>2. Len(Wrap(lg, ty, s)) \in Nat
    BY <2>1, LenProperties
  <2> QED BY <1>6, <2>1, <2>2
<1> HIDE DEF Num
<1>7. Num(o) /\ Len(o) >= Len(oid) /\ Num(c) /\ Len(c) >= Len(req.community)
  BY <1>1, <1>3, <1>4, <1>6, Types
<1>8. Num(binding) /\ Len(binding) >= Len(o)
  BY <1>3, <1>4, <1>5, <1>7
<1>9. Num(list) /\ Len(list) >= Len(binding)
  BY <1>3, <1>6, <1>8, Types
<1>10. Num(wlist) /\ Len(wlist) >= Len(list)
  BY <1>6, <1>9, Types
<1> HIDE DEF wlist
<1>11. Num(pdu) /\ Len(pdu) >= Len(wlist)
  <2>1. Num(i1 \o i2)
    BY <1>2, <1>4, <1>5
  <2>2. Num(i1 \o i2 \o i3)
    BY <1>2, <1>4, <1>5, <2>1
  <2> QED BY <1>3, <1>5, <1>10, <2>2
<1>12. Num(wpdu) /\ Len(wpdu) >= Len(pdu)
  BY <1>6, <1>11
<1> HIDE DEF wpdu
<1>13. Num(body) /\ Len(body) >= Len(wpdu) /\ Len(body) >= Len(c)
  <2>1. Num(i4 \o c) /\ Len(i4 \o c) >= Len(c)
    BY <1>2, <1>4, <1>5, <1>7
  <2>2. Num(body) /\ Len(body) >= Len(wpdu) /\ Len(body) >= Len(i4 \o c)
    BY <1>3, <1>5, <1>12, <2>1
  <2> QED BY <1>7, <2>1, <2>2 DEF Num
<1>14. /\ Len(body) <= MaxDatagram /\ Len(pdu) <= MaxDatagram /\ Len(list) <= MaxDatagram
       /\ Len(binding) <= MaxDatagram /\ Len(oid) <= MaxDatagram
       /\ Len(req.community) <= MaxDatagram
  <2>1. Num(Wrap(long, SEQUENCE, body)) /\ Len(Wrap(long, SEQUENCE, body)) >= Len(body)
    BY <1>6, <1>13, Types
  <2>2. /\ Len(body) \in Nat /\ Len(wpdu) \in Nat /\ Len(pdu) \in Nat /\ Len(wlist) \in Nat
        /\ Len(list) \in Nat /\ Len(binding) \in Nat /\ Len(o) \in Nat /\ Len(c) \in Nat
        /\ Len(oid) \in Nat /\ Len(req.community) \in Nat
        /\ Len(Wrap(long, SEQUENCE, body)) \in Nat
    BY <1>1, <1>4, <1>7, <1>8, <1>9, <1>10, <1>11, <1>12, <1>13, <2>1 DEF Num
  <2>3. MaxDatagram \in Nat
    BY SMT DEF MaxDatagram
  <2>4. \A a, b \in Nat : a >= b /\ a <= MaxDatagram => b <= MaxDatagram
    BY <2>3
  <2>5. Len(body) <= MaxDatagram
    BY Zenon, <1>3, <2>1, <2>2, <2>4
  <2>6. Len(wpdu) <= MaxDatagram /\ Len(c) <= MaxDatagram
    BY Zenon, <1>13, <2>2, <2>4, <2>5
  <2>7. Len(pdu) <= MaxDatagram /\ Len(req.community) <= MaxDatagram
    BY Zenon, <1>7, <1>12, <2>2, <2>4, <2>6
  <2>8. Len(wlist) <= MaxDatagram
    BY Zenon, <1>11, <2>2, <2>4, <2>7
  <2>9. Len(list) <= MaxDatagram
    BY Zenon, <1>10, <2>2, <2>4, <2>8
  <2>10. Len(binding) <= MaxDatagram
    BY Zenon, <1>9, <2>2, <2>4, <2>9
  <2>11. Len(o) <= MaxDatagram
    BY Zenon, <1>8, <2>2, <2>4, <2>10
  <2>12. Len(oid) <= MaxDatagram
    BY Zenon, <1>7, <2>2, <2>4, <2>11
  <2> QED BY <2>5, <2>7, <2>9, <2>10, <2>12
<1>15. o \in Seq(Byte) /\ c \in Seq(Byte)
  BY <1>1, <1>3, <1>14, WrapBytes, Types
<1>16. binding \in Seq(Byte)
  BY <1>3, <1>15, ConcatProperties
<1>17. list \in Seq(Byte)
  BY <1>3, <1>14, <1>16, WrapBytes, Types
<1>18. wlist \in Seq(Byte)
  BY <1>14, <1>17, WrapBytes, Types DEF wlist
<1>19. pdu \in Seq(Byte)
  BY <1>2, <1>3, <1>18, ConcatProperties
<1>20. wpdu \in Seq(Byte)
  BY <1>14, <1>19, WrapBytes DEF wpdu
<1>21. body \in Seq(Byte)
  BY <1>2, <1>3, <1>15, <1>20, ConcatProperties
<1> QED BY <1>14, <1>15, <1>16, <1>17, <1>18, <1>19, <1>20, <1>21
        DEF o, c, binding, list, wlist, pdu, wpdu, body, PartsAreBytes

----------------------------------------------------------------------------
(* Decoding a message.                                                     *)

\* What is between p and the end is s.
Ahead(pkt, p, end, s) ==
  p \in Nat \ {0} /\ end \in Nat \ {0} /\ At(pkt, p, s) /\ p + Len(s) = end

\* What is read of a part with the value c in what ends at end.
IsRead(part, pkt, end, c) ==
  /\ part.ok /\ part.end = end /\ Bytes(pkt, part) = c
  /\ part.next - part.value = Len(c) /\ Ahead(pkt, part.value, part.next, c)

\* The next part is read, and what it leaves is ahead of it, and its value inside.
LEMMA ReadsNext ==
  ASSUME NEW pkt \in Seq(Byte), NEW p, NEW end, NEW long \in BOOLEAN, NEW type \in Byte,
         NEW c \in Seq(Byte), Len(c) <= MaxDatagram, NEW s \in Seq(Byte),
         Ahead(pkt, p, end, Wrap(long, type, c) \o s)
  PROVE  /\ p < end /\ pkt[p] = type
         /\ IsRead(ExpectTlv(pkt, p, end, type), pkt, end, c)
         /\ Ahead(pkt, ExpectTlv(pkt, p, end, type).next, end, s)
<1> DEFINE w == Wrap(long, type, c)
           part == ExpectTlv(pkt, p, end, type)
<1>1. PICK h : IsHeader(h, type, Len(c)) /\ w = h \o c
  BY WrapIs
<1>2. /\ w \in Seq(Byte) /\ Len(w) \in Nat /\ Len(pkt) \in Nat /\ Len(c) \in Nat
      /\ Len(s) \in Nat /\ h \in Seq(Byte) /\ Len(h) \in Nat
  <2>1. w \in Seq(Byte) /\ h \in Seq(Byte)
    BY <1>1, WrapBytes DEF IsHeader
  <2> QED BY <2>1, LenProperties
<1>3. p \in Nat \ {0} /\ end \in Nat \ {0} /\ At(pkt, p, w \o s) /\ p + Len(w \o s) = end
  BY DEF Ahead
<1> HIDE DEF w
<1>4. At(pkt, p, w) /\ At(pkt, p + Len(w), s) /\ Len(w \o s) = Len(w) + Len(s)
  BY <1>2, <1>3, AtConcat
<1>5. p + Len(w) <= end /\ (p + Len(w)) + Len(s) = end /\ p + Len(w) \in Nat \ {0}
  BY <1>2, <1>3, <1>4
<1>6. /\ part.ok /\ part.value \in Nat \ {0} /\ part.value = p + Len(h)
      /\ part.next = p + Len(w) /\ part.next = part.value + Len(c)
      /\ part.end = end
      /\ At(pkt, part.value, c) /\ Bytes(pkt, part) = c
  <2>1. At(pkt, p, h \o c) /\ p + Len(h \o c) <= end /\ p \in Nat \ {0} /\ end \in Nat
    BY <1>1, <1>3, <1>4, <1>5
  <2>2. PartIs(part, pkt, p, end, h, c)
    BY Zenon, <1>1, <2>1, ReadsPart
  <2> HIDE DEF part
  <2> QED BY Zenon, <1>1, <2>2 DEF PartIs
<1> HIDE DEF part
<1>7. Ahead(pkt, part.next, end, s) /\ Ahead(pkt, part.value, part.next, c)
  BY <1>3, <1>4, <1>5, <1>6 DEF Ahead
<1>8. p < end /\ pkt[p] = type
  <2>1. At(pkt, p, h) /\ Len(h) >= 2 /\ h[1] = type /\ Len(w) = Len(h) + Len(c)
    <3>1. At(pkt, p, h \o c)
      BY <1>1, <1>4
    <3>2. p \in Nat
      BY <1>3
    <3>3. At(pkt, p, h) /\ Len(h \o c) = Len(h) + Len(c)
      BY <1>2, <3>1, <3>2, AtConcat
    <3>4. Len(h) >= 2 /\ h[1] = type
      BY <1>1 DEF IsHeader
    <3> QED BY <1>1, <3>3, <3>4
  <2>2. 1 \in 1 .. Len(h) /\ p + 1 - 1 = p
    BY <1>2, <1>3, <2>1
  <2>3. pkt[p] = type
    BY <2>1, <2>2 DEF At
  <2>4. p < end
    BY <1>2, <1>3, <1>5, <2>1
  <2> QED BY <2>3, <2>4
<1>9. part.next - part.value = Len(c)
  BY <1>2, <1>6
<1> QED BY <1>6, <1>7, <1>8, <1>9 DEF part, IsRead

LEMMA ReadsLast ==
  ASSUME NEW pkt \in Seq(Byte), NEW p, NEW end, NEW long \in BOOLEAN, NEW type \in Byte,
         NEW c \in Seq(Byte), Len(c) <= MaxDatagram,
         Ahead(pkt, p, end, Wrap(long, type, c))
  PROVE  /\ p < end /\ pkt[p] = type
         /\ IsRead(ExpectTlv(pkt, p, end, type), pkt, end, c)
<1> DEFINE e == <<>>
<1>1. Wrap(long, type, c) \o e = Wrap(long, type, c)
  BY WrapBytes, ConcatEmptySeq
<1>2. e \in Seq(Byte)
  BY EmptySeq
<1> HIDE DEF e
<1>3. Ahead(pkt, p, end, Wrap(long, type, c) \o e)
  BY <1>1
<1> QED BY <1>2, <1>3, ReadsNext

\* The same for the first part inside another that was read, or the only one, and
\* for the one after it, or the last.
LEMMA InsideFirst ==
  ASSUME NEW pkt \in Seq(Byte), NEW part, NEW end, NEW long \in BOOLEAN, NEW type \in Byte,
         NEW c \in Seq(Byte), Len(c) <= MaxDatagram, NEW s \in Seq(Byte),
         IsRead(part, pkt, end, Wrap(long, type, c) \o s)
  PROVE  /\ IsRead(Inside(pkt, part, type), pkt, part.next, c)
         /\ Ahead(pkt, Inside(pkt, part, type).next, part.next, s)
<1>1. part.ok /\ Ahead(pkt, part.value, part.next, Wrap(long, type, c) \o s)
  BY DEF IsRead
<1>2. Inside(pkt, part, type) = ExpectTlv(pkt, part.value, part.next, type)
  BY <1>1 DEF Inside
<1>3. /\ part.value < part.next /\ pkt[part.value] = type
      /\ IsRead(ExpectTlv(pkt, part.value, part.next, type), pkt, part.next, c)
      /\ Ahead(pkt, ExpectTlv(pkt, part.value, part.next, type).next, part.next, s)
  BY Zenon, <1>1, ReadsNext
<1> QED BY <1>2, <1>3

LEMMA InsideOnly ==
  ASSUME NEW pkt \in Seq(Byte), NEW part, NEW end, NEW long \in BOOLEAN, NEW type \in Byte,
         NEW c \in Seq(Byte), Len(c) <= MaxDatagram,
         IsRead(part, pkt, end, Wrap(long, type, c))
  PROVE  IsRead(Inside(pkt, part, type), pkt, part.next, c)
<1>1. part.ok /\ Ahead(pkt, part.value, part.next, Wrap(long, type, c))
  BY DEF IsRead
<1>2. Inside(pkt, part, type) = ExpectTlv(pkt, part.value, part.next, type)
  BY <1>1 DEF Inside
<1>3. /\ part.value < part.next /\ pkt[part.value] = type
      /\ IsRead(ExpectTlv(pkt, part.value, part.next, type), pkt, part.next, c)
  BY Zenon, <1>1, ReadsLast
<1> QED BY <1>2, <1>3

LEMMA AfterNext ==
  ASSUME NEW pkt \in Seq(Byte), NEW part, NEW end, NEW v, IsRead(part, pkt, end, v),
         NEW long \in BOOLEAN, NEW type \in Byte,
         NEW c \in Seq(Byte), Len(c) <= MaxDatagram, NEW s \in Seq(Byte),
         Ahead(pkt, part.next, end, Wrap(long, type, c) \o s)
  PROVE  /\ IsRead(After(pkt, part, type), pkt, end, c)
         /\ Ahead(pkt, After(pkt, part, type).next, end, s)
<1>1. part.ok /\ part.end = end
  BY DEF IsRead
<1>2. After(pkt, part, type) = ExpectTlv(pkt, part.next, end, type)
  BY <1>1 DEF After
<1>3. /\ part.next < end /\ pkt[part.next] = type
      /\ IsRead(ExpectTlv(pkt, part.next, end, type), pkt, end, c)
      /\ Ahead(pkt, ExpectTlv(pkt, part.next, end, type).next, end, s)
  BY Zenon, ReadsNext
<1> QED BY <1>2, <1>3

LEMMA AfterLast ==
  ASSUME NEW pkt \in Seq(Byte), NEW part, NEW end, NEW v, IsRead(part, pkt, end, v),
         NEW long \in BOOLEAN, NEW type \in Byte,
         NEW c \in Seq(Byte), Len(c) <= MaxDatagram,
         Ahead(pkt, part.next, end, Wrap(long, type, c))
  PROVE  /\ IsRead(After(pkt, part, type), pkt, end, c)
         /\ part.ok /\ part.next < part.end /\ pkt[part.next] = type
<1>1. part.ok /\ part.end = end
  BY DEF IsRead
<1>2. After(pkt, part, type) = ExpectTlv(pkt, part.next, end, type)
  BY <1>1 DEF After
<1>3. /\ part.next < end /\ pkt[part.next] = type
      /\ IsRead(ExpectTlv(pkt, part.next, end, type), pkt, end, c)
  BY Zenon, ReadsLast
<1> QED BY <1>1, <1>2, <1>3

\* Written inside out, or in order: the same.
Cat(s, t) == s \o t

LEMMA CatBytes ==
  \A s, t \in Seq(Byte) : Cat(s, t) \in Seq(Byte)
BY ConcatProperties DEF Cat

Associates(p, s, t) == Cat(Cat(p, s), t) = Cat(p, Cat(s, t))

LEMMA CatAssoc ==
  \A p, s, t \in Seq(Byte) : Cat(Cat(p, s), t) = Cat(p, Cat(s, t))
<1> TAKE p, s, t \in Seq(Byte)
<1> QED BY SMT DEF Cat

LEMMA CatAssociates ==
  \A p, s, t \in Seq(Byte) : Associates(p, s, t)
BY CatAssoc DEF Associates

\* A whole message is decoded to what it tells.
LEMMA DecodesWhole ==
  ASSUME NEW long \in BOOLEAN, NEW req, IsAsker(req), NEW type \in {GET, GETNEXT},
         NEW status \in Int32s, NEW index \in Int32s,
         NEW oid \in Seq(Byte), NEW value \in Seq(Byte),
         Len(Message(long, req, type, status, index, oid, value)) <= MaxDatagram
  PROVE  Decode(Message(long, req, type, status, index, oid, value)) =
           {[version |-> req.version, community |-> req.community, pdu |-> type,
             id |-> req.id, oid |-> oid]}
<1> DEFINE pkt == Message(long, req, type, status, index, oid, value)
           bbody == BindingBody(oid, value)
           lbody == ListBody(long, oid, value)
           pbody == PduBody(long, req, status, index, oid, value)
           body == Body(long, req, type, status, index, oid, value)
           o == Tlv(OID, oid)
           c == Tlv(OCTETS, req.community)
           wlist == Wrap(long, SEQUENCE, lbody)
           wpdu == Wrap(long, type, pbody)
           i1 == Signed(req.id)
           i2 == Signed(status)
           i3 == Signed(index)
           i4 == Signed(req.version)
           all == [ok |-> TRUE, value |-> 1, next |-> Len(pkt) + 1]
           msg == Inside(pkt, all, SEQUENCE)
           version == Inside(pkt, msg, INTEGER)
           community == After(pkt, version, OCTETS)
           kind == IF community.ok /\ community.next < community.end
                   THEN pkt[community.next] ELSE 0
           pdu == IF kind \in {GET, GETNEXT} THEN After(pkt, community, kind) ELSE Bad
           id == Inside(pkt, pdu, INTEGER)
           stat == After(pkt, id, INTEGER)
           indx == After(pkt, stat, INTEGER)
           list == After(pkt, indx, SEQUENCE)
           binding == Inside(pkt, list, SEQUENCE)
           name == Inside(pkt, binding, OID)
<1>1. Decode(pkt) =
        IF name.ok /\ IsInt32(pkt, version) /\ IsInt32(pkt, id)
        THEN {[version |-> DecodeInt32(Bytes(pkt, version)),
               community |-> Bytes(pkt, community), pdu |-> kind,
               id |-> DecodeInt32(Bytes(pkt, id)), oid |-> Bytes(pkt, name)]}
        ELSE {}
  BY Zenon DEF Decode
<1>2. req.community \in Seq(Byte) /\ req.version \in Int32s /\ req.id \in Int32s
  BY DEF IsAsker
<1>3. type \in Byte /\ FALSE \in BOOLEAN
  BY Types
<1>4. /\ Len(oid) <= MaxDatagram /\ o \in Seq(Byte)
      /\ Len(req.community) <= MaxDatagram /\ c \in Seq(Byte)
      /\ bbody \in Seq(Byte) /\ Len(bbody) <= MaxDatagram
      /\ lbody \in Seq(Byte) /\ Len(lbody) <= MaxDatagram
      /\ wlist \in Seq(Byte)
      /\ pbody \in Seq(Byte) /\ Len(pbody) <= MaxDatagram
      /\ wpdu \in Seq(Byte)
      /\ body \in Seq(Byte) /\ Len(body) <= MaxDatagram
  <2>1. PartsAreBytes(long, req, type, status, index, oid, value)
    BY Zenon, <1>3, PartsFit
  <2> QED BY Zenon, <2>1 DEF PartsAreBytes
<1>5. /\ \A v \in Int32s : /\ SignedBytes(v) \in Seq(Byte)
                           /\ Len(SignedBytes(v)) <= MaxDatagram
                           /\ Signed(v) \in Seq(Byte)
                           /\ Signed(v) = Wrap(FALSE, INTEGER, SignedBytes(v))
  BY SignedIs
<1>6. /\ bbody = Wrap(FALSE, OID, oid) \o value
      /\ lbody = Wrap(long, SEQUENCE, bbody)
      /\ pbody = i1 \o (i2 \o (i3 \o wlist))
      /\ body = i4 \o (c \o wpdu)
      /\ pkt = Wrap(long, SEQUENCE, body)
      /\ c = Wrap(FALSE, OCTETS, req.community)
  <2>1. i1 \in Seq(Byte) /\ i2 \in Seq(Byte) /\ i3 \in Seq(Byte) /\ i4 \in Seq(Byte)
    BY <1>2, <1>5
  <2>2. pbody = i1 \o i2 \o i3 \o wlist /\ body = i4 \o c \o wpdu
    BY DEF PduBody, Body
  <2>3. bbody = o \o value /\ lbody = Wrap(long, SEQUENCE, bbody)
    BY DEF BindingBody, ListBody
  <2>4. pkt = Wrap(long, SEQUENCE, body)
    BY MessageIs
  <2>5. o = Wrap(FALSE, OID, oid) /\ c = Wrap(FALSE, OCTETS, req.community)
    BY TlvIsWrap
  <2> HIDE DEF i1, i2, i3, i4, o, c, wlist, wpdu, pbody, body, bbody, lbody, pkt
  <2>6. i1 \o i2 \o i3 \o wlist = i1 \o (i2 \o (i3 \o wlist))
    <3>1. wlist \in Seq(Byte)
      BY <1>4
    <3>2. Cat(i1, i2) \in Seq(Byte) /\ Cat(i3, wlist) \in Seq(Byte)
      BY Zenon, <2>1, <3>1, CatBytes
    <3> DEFINE i12 == Cat(i1, i2)
               rest == Cat(i3, wlist)
    <3>3. i12 \in Seq(Byte) /\ rest \in Seq(Byte)
      BY <3>2
    <3> HIDE DEF i12, rest
    <3>4. Associates(i12, i3, wlist)
      BY Zenon, <2>1, <3>1, <3>3, CatAssociates
    <3>5. Associates(i1, i2, rest)
      BY Zenon, <2>1, <3>3, CatAssociates
    <3> QED BY <3>4, <3>5 DEF Associates, Cat, i12, rest
  <2>7. i4 \o c \o wpdu = i4 \o (c \o wpdu)
    <3>1. c \in Seq(Byte) /\ wpdu \in Seq(Byte)
      BY <1>4
    <3>2. Associates(i4, c, wpdu)
      BY Zenon, <2>1, <3>1, CatAssociates
    <3> QED BY <3>2 DEF Associates, Cat
  <2> QED BY <2>2, <2>3, <2>4, <2>5, <2>6, <2>7
<1>7. pkt \in Seq(Byte) /\ Len(pkt) \in Nat
  <2>1. Wrap(long, SEQUENCE, body) \in Seq(Byte)
    BY <1>4, Types, WrapBytes
  <2> QED BY <1>6, <2>1, LenProperties
<1>8. /\ i1 = Wrap(FALSE, INTEGER, SignedBytes(req.id))
      /\ i2 = Wrap(FALSE, INTEGER, SignedBytes(status))
      /\ i3 = Wrap(FALSE, INTEGER, SignedBytes(index))
      /\ i4 = Wrap(FALSE, INTEGER, SignedBytes(req.version))
      /\ i1 \in Seq(Byte) /\ i2 \in Seq(Byte) /\ i3 \in Seq(Byte) /\ i4 \in Seq(Byte)
  BY <1>2, <1>5
<1>9. IsRead(msg, pkt, Len(pkt) + 1, body)
  <2>1. Ahead(pkt, 1, Len(pkt) + 1, pkt)
    <3> HIDE DEF pkt
    <3>1. \A i \in 1 .. Len(pkt) : pkt[1 + i - 1] = pkt[i]
      BY <1>7
    <3> QED BY <1>7, <3>1 DEF Ahead, At
  <2>2. msg = ExpectTlv(pkt, 1, Len(pkt) + 1, SEQUENCE)
    BY DEF Inside
  <2> HIDE DEF pkt, msg, body
  <2>3. Ahead(pkt, 1, Len(pkt) + 1, Wrap(long, SEQUENCE, body))
    BY <1>6, <2>1
  <2>4. body \in Seq(Byte) /\ Len(body) <= MaxDatagram /\ pkt \in Seq(Byte)
    BY <1>4, <1>7
  <2>5. ASSUME NEW p, NEW end, Ahead(pkt, p, end, Wrap(long, SEQUENCE, body))
        PROVE  p < end /\ pkt[p] = SEQUENCE
               /\ IsRead(ExpectTlv(pkt, p, end, SEQUENCE), pkt, end, body)
    BY Zenon, <2>4, <2>5, Types, ReadsLast
  <2> QED BY <2>2, <2>3, <2>5
<1> HIDE DEF pkt, body, pbody, lbody, bbody, i1, i2, i3, i4, c, o, wpdu, wlist
<1>10. /\ c \o wpdu \in Seq(Byte) /\ i3 \o wlist \in Seq(Byte)
       /\ i2 \o (i3 \o wlist) \in Seq(Byte)
  BY <1>4, <1>8, ConcatProperties
<1>11. /\ IsRead(version, pkt, msg.next, SignedBytes(req.version))
       /\ Ahead(pkt, version.next, msg.next, c \o wpdu)
  <2>1. IsRead(msg, pkt, Len(pkt) + 1, Wrap(FALSE, INTEGER, SignedBytes(req.version)) \o (c \o wpdu))
    BY <1>6, <1>8, <1>9
  <2> HIDE DEF msg
  <2> QED BY <1>2, <1>3, <1>5, <1>7, <1>10, <2>1, Types, InsideFirst
<1>12. /\ IsRead(community, pkt, msg.next, req.community)
       /\ Ahead(pkt, community.next, msg.next, wpdu)
  <2> HIDE DEF version, msg
  <2>1. Ahead(pkt, version.next, msg.next, Wrap(FALSE, OCTETS, req.community) \o wpdu)
    BY <1>6, <1>11
  <2> QED BY <1>2, <1>3, <1>4, <1>7, <1>11, <2>1, Types, AfterNext
<1>13. kind = type /\ IsRead(pdu, pkt, msg.next, pbody)
  <2> HIDE DEF community, msg
  <2>1. Ahead(pkt, community.next, msg.next, Wrap(long, type, pbody))
    BY <1>12 DEF wpdu
  <2>2. /\ IsRead(After(pkt, community, type), pkt, msg.next, pbody)
        /\ community.ok /\ community.next < community.end /\ pkt[community.next] = type
    BY <1>3, <1>4, <1>7, <1>12, <2>1, AfterLast
  <2>3. kind = type
    BY <2>2
  <2>4. pdu = After(pkt, community, type)
    BY <2>3
  <2> QED BY <2>2, <2>3, <2>4
<1>14. /\ IsRead(id, pkt, pdu.next, SignedBytes(req.id))
       /\ Ahead(pkt, id.next, pdu.next, i2 \o (i3 \o wlist))
  <2> HIDE DEF pdu, msg
  <2>1. IsRead(pdu, pkt, msg.next, Wrap(FALSE, INTEGER, SignedBytes(req.id)) \o (i2 \o (i3 \o wlist)))
    BY <1>6, <1>8, <1>13
  <2> QED BY <1>2, <1>3, <1>5, <1>7, <1>10, <2>1, Types, InsideFirst
<1>15. /\ IsRead(stat, pkt, pdu.next, SignedBytes(status))
       /\ Ahead(pkt, stat.next, pdu.next, i3 \o wlist)
  <2> HIDE DEF id, pdu
  <2>1. Ahead(pkt, id.next, pdu.next, Wrap(FALSE, INTEGER, SignedBytes(status)) \o (i3 \o wlist))
    BY <1>8, <1>14
  <2> QED BY <1>3, <1>5, <1>7, <1>10, <1>14, <2>1, Types, AfterNext
<1>16. /\ IsRead(indx, pkt, pdu.next, SignedBytes(index))
       /\ Ahead(pkt, indx.next, pdu.next, wlist)
  <2> HIDE DEF stat, pdu
  <2>1. Ahead(pkt, stat.next, pdu.next, Wrap(FALSE, INTEGER, SignedBytes(index)) \o wlist)
    BY <1>8, <1>15
  <2> QED BY <1>3, <1>4, <1>5, <1>7, <1>15, <2>1, Types, AfterNext
<1>17. IsRead(list, pkt, pdu.next, lbody)
  <2> HIDE DEF indx, pdu
  <2>1. Ahead(pkt, indx.next, pdu.next, Wrap(long, SEQUENCE, lbody))
    BY <1>16 DEF wlist
  <2> QED BY <1>4, <1>7, <1>16, <2>1, Types, AfterLast
<1>18. IsRead(binding, pkt, list.next, bbody)
  <2> HIDE DEF list, pdu
  <2>1. IsRead(list, pkt, pdu.next, Wrap(long, SEQUENCE, bbody))
    BY <1>6, <1>17
  <2> QED BY <1>4, <1>7, <2>1, Types, InsideOnly
<1>19. IsRead(name, pkt, binding.next, oid)
  <2> HIDE DEF binding, list
  <2>1. IsRead(binding, pkt, list.next, Wrap(FALSE, OID, oid) \o value)
    BY <1>6, <1>18
  <2> QED BY <1>3, <1>4, <1>7, <2>1, Types, InsideFirst
<1>20. /\ IsInt32(pkt, version) /\ IsInt32(pkt, id) /\ name.ok
       /\ DecodeInt32(Bytes(pkt, version)) = req.version
       /\ DecodeInt32(Bytes(pkt, id)) = req.id
       /\ Bytes(pkt, community) = req.community /\ Bytes(pkt, name) = oid
  <2> HIDE DEF version, community, id, name, msg, pdu, binding
  <2>1. \A v \in Int32s : Len(SignedBytes(v)) \in 1 .. 4 /\ DecodeInt32(SignedBytes(v)) = v
    BY IntegerIsRead
  <2> QED BY <1>2, <1>11, <1>12, <1>14, <1>19, <2>1 DEF IsRead, IsInt32
<1> HIDE DEF version, community, id, name, msg, pdu, binding, kind
<1> QED BY <1>1, <1>13, <1>20 DEF pkt

\* The first part of a datagram that is cut short is not read.
LEMMA CutIsBad ==
  ASSUME NEW d \in Seq(Byte), NEW h, NEW c \in Seq(Byte), NEW type \in Byte,
         IsHeader(h, type, Len(c)), d = h \o c,
         NEW r \in Nat, r < Len(d)
  PROVE  ExpectTlv(SubSeq(d, 1, r), 1, r + 1, type) = Bad
<1> DEFINE pkt == SubSeq(d, 1, r)
           n == Len(c)
           l == Len(h)
           two == pkt[2]
           three == pkt[3]
           four == pkt[4]
<1>1. n \in Nat /\ (l = 2 \/ l = 3 \/ l = 4) /\ h \in Seq(Byte)
  BY LenProperties DEF IsHeader
<1>2. Len(d) = l + n /\ \A i \in 1 .. l : d[i] = h[i]
  BY <1>1, ConcatProperties
<1>3. \A i \in 1 .. l : i <= r => pkt[i] = h[i]
  <2>1. \A i \in 1 .. r : d[i] \in Byte
    BY <1>1, <1>2, ElementOfSeq
  <2>2. \A i \in 1 .. r - 1 + 1 : pkt[i] = d[1 + i - 1]
    BY <2>1, SubSeqProperties
  <2> HIDE DEF pkt
  <2>3. \A i \in 1 .. l : i <= r => i \in 1 .. r - 1 + 1 /\ 1 + i - 1 = i
    BY <1>1
  <2> QED BY <1>2, <2>2, <2>3
<1>4. \/ l = 2 /\ n < 128 /\ h[2] = n
      \/ l = 3 /\ n < 256 /\ h[2] = 129 /\ h[3] = n
      \/ l = 4 /\ h[2] = 130 /\ h[3] * 256 + h[4] = n
  BY DEF IsHeader
<1>5. ExpectTlv(pkt, 1, r + 1, type) = Bad \/ ExpectTlv(pkt, 1, r + 1, type) = ReadValue(pkt, 2, r + 1)
  BY DEF ExpectTlv
<1>6. ReadValue(pkt, 2, r + 1) =
        IF 2 >= r + 1 THEN Bad
        ELSE IF two < 128 THEN Part(3, two, r + 1)
        ELSE IF two = 129 /\ r + 1 - 2 >= 2 THEN Part(4, three, r + 1)
        ELSE IF two = 130 /\ r + 1 - 2 >= 3 THEN Part(5, 256 * three + four, r + 1)
        ELSE Bad
  BY DEF ReadValue
<1>7. /\ \A len \in Nat : /\ ~(r + 1 - 3 >= len) => Part(3, len, r + 1) = Bad
                          /\ ~(r + 1 - 4 >= len) => Part(4, len, r + 1) = Bad
                          /\ ~(r + 1 - 5 >= len) => Part(5, len, r + 1) = Bad
  BY DEF Part
<1>8. /\ r >= 2 => two = h[2]
      /\ l >= 3 /\ r >= 3 => three = h[3]
      /\ l >= 4 /\ r >= 4 => four = h[4] /\ h[3] \in Nat /\ h[4] \in Nat
  <2>1. /\ 2 \in 1 .. l /\ (l >= 3 => 3 \in 1 .. l) /\ (l >= 4 => 4 \in 1 .. l)
    <3> HIDE DEF l
    <3> QED BY <1>1
  <2>2. \A i \in 1 .. l : h[i] \in Nat
    BY <1>1, ElementOfSeq, Bytes256
  <2> HIDE DEF pkt
  <2> QED BY <1>3, <2>1, <2>2
<1> HIDE DEF pkt, n, l, two, three, four
<1>9. r < l + n
  BY <1>2
<1>10. ReadValue(pkt, 2, r + 1) = Bad
  <2>1. CASE r < 2
    BY <1>6, <2>1
  <2>2. CASE r >= 2 /\ l = 2
    <3>1. two = n /\ two < 128 /\ ~(r + 1 - 3 >= n)
      BY <1>1, <1>4, <1>8, <1>9, <2>2
    <3>2. ~(2 >= r + 1)
      BY <2>2
    <3> QED BY <1>1, <1>6, <1>7, <3>1, <3>2
  <2>3. CASE r >= 2 /\ l = 3
    <3>1. two = 129 /\ ~(2 >= r + 1)
      BY <1>4, <1>8, <2>3
    <3>2. ~(two < 128) /\ two # 130
      BY <3>1
    <3>3. CASE r < 3
      <4>1. ~(r + 1 - 2 >= 2)
        BY <3>3
      <4> QED BY <1>6, <3>1, <3>2, <4>1
    <3>4. CASE r >= 3
      <4>1. three = n /\ ~(r + 1 - 4 >= n) /\ r + 1 - 2 >= 2
        BY <1>1, <1>4, <1>8, <1>9, <2>3, <3>4
      <4> QED BY <1>1, <1>6, <1>7, <3>1, <3>2, <4>1
    <3> QED BY <3>3, <3>4
  <2>4. CASE r >= 2 /\ l = 4
    <3>1. two = 130 /\ ~(2 >= r + 1)
      BY <1>4, <1>8, <2>4
    <3>2. ~(two < 128) /\ two # 129
      BY <3>1
    <3>3. CASE r < 4
      <4>1. ~(r + 1 - 2 >= 3)
        BY <3>3
      <4> QED BY <1>6, <3>1, <3>2, <4>1
    <3>4. CASE r >= 4
      <4>1. 256 * three + four = n
        BY <1>4, <1>8, <2>4, <3>4
      <4>2. ~(r + 1 - 5 >= n) /\ r + 1 - 2 >= 3
        BY <1>1, <1>9, <2>4, <3>4
      <4> QED BY <1>1, <1>6, <1>7, <3>1, <3>2, <4>1, <4>2
    <3> QED BY <3>3, <3>4
  <2> QED BY <1>1, <2>1, <2>2, <2>3, <2>4
<1> QED BY <1>5, <1>10 DEF pkt

LEMMA BadStays ==
  ~Bad.ok /\ \A pkt, type : Inside(pkt, Bad, type) = Bad /\ After(pkt, Bad, type) = Bad
<1>1. ~Bad.ok
  BY DEF Bad
<1>2. ASSUME NEW pkt, NEW part, NEW type, ~part.ok
      PROVE  Inside(pkt, part, type) = Bad /\ After(pkt, part, type) = Bad
  <2>1. Inside(pkt, part, type) = Bad
    BY <1>2 DEF Inside
  <2>2. After(pkt, part, type) = Bad
    BY <1>2 DEF After
  <2> QED BY <2>1, <2>2
<1> QED BY <1>1, <1>2

\* Nothing is decoded without it.
LEMMA DecodesNone ==
  ASSUME NEW pkt, ExpectTlv(pkt, 1, Len(pkt) + 1, SEQUENCE) = Bad
  PROVE  Decode(pkt) = {}
<1> DEFINE all == [ok |-> TRUE, value |-> 1, next |-> Len(pkt) + 1]
           msg == Inside(pkt, all, SEQUENCE)
           version == Inside(pkt, msg, INTEGER)
           community == After(pkt, version, OCTETS)
           kind == IF community.ok /\ community.next < community.end
                   THEN pkt[community.next] ELSE 0
           pdu == IF kind \in {GET, GETNEXT} THEN After(pkt, community, kind) ELSE Bad
           id == Inside(pkt, pdu, INTEGER)
           stat == After(pkt, id, INTEGER)
           indx == After(pkt, stat, INTEGER)
           list == After(pkt, indx, SEQUENCE)
           binding == Inside(pkt, list, SEQUENCE)
           name == Inside(pkt, binding, OID)
<1>1. Decode(pkt) =
        IF name.ok /\ IsInt32(pkt, version) /\ IsInt32(pkt, id)
        THEN {[version |-> DecodeInt32(Bytes(pkt, version)),
               community |-> Bytes(pkt, community), pdu |-> kind,
               id |-> DecodeInt32(Bytes(pkt, id)), oid |-> Bytes(pkt, name)]}
        ELSE {}
  BY Zenon DEF Decode
<1>2. ~Bad.ok /\ \A type : Inside(pkt, Bad, type) = Bad /\ After(pkt, Bad, type) = Bad
  BY BadStays
<1>3. msg = Bad
  BY DEF Inside
<1> HIDE DEF msg
<1>4. version = Bad
  BY <1>2, <1>3
<1> HIDE DEF version
<1>5. community = Bad
  BY <1>2, <1>4
<1> HIDE DEF community
<1>6. kind = 0
  BY <1>2, <1>5
<1> HIDE DEF kind
<1>7. pdu = Bad
  BY <1>6 DEF GET, GETNEXT
<1> HIDE DEF pdu
<1>8. id = Bad
  BY <1>2, <1>7
<1> HIDE DEF id
<1>9. stat = Bad
  BY <1>2, <1>8
<1> HIDE DEF stat
<1>10. indx = Bad
  BY <1>2, <1>9
<1> HIDE DEF indx
<1>11. list = Bad
  BY <1>2, <1>10
<1> HIDE DEF list
<1>12. binding = Bad
  BY <1>2, <1>11
<1> HIDE DEF binding
<1>13. name = Bad
  BY <1>2, <1>12
<1> HIDE DEF name
<1> QED BY <1>1, <1>2, <1>13

\* A message that is cut short is decoded to nothing.
LEMMA DecodesCut ==
  ASSUME NEW long \in BOOLEAN, NEW body \in Seq(Byte), Len(body) <= MaxDatagram,
         NEW r \in Nat, r < Len(Wrap(long, SEQUENCE, body))
  PROVE  Decode(SubSeq(Wrap(long, SEQUENCE, body), 1, r)) = {}
<1> DEFINE d == Wrap(long, SEQUENCE, body)
           pkt == SubSeq(d, 1, r)
<1>1. PICK h : IsHeader(h, SEQUENCE, Len(body)) /\ d = h \o body
  BY WrapIs, Types
<1>2. d \in Seq(Byte)
  BY WrapBytes, Types
<1> HIDE DEF d
<1>3. ExpectTlv(pkt, 1, r + 1, SEQUENCE) = Bad
  BY <1>1, <1>2, CutIsBad, Types DEF d
<1>4. Len(pkt) = r
  <2>1. \A i \in 1 .. r : d[i] \in Byte
    BY <1>2, ElementOfSeq, LenProperties DEF d
  <2>2. Len(pkt) = IF 1 <= r THEN r - 1 + 1 ELSE 0
    BY <2>1, SubSeqProperties
  <2> QED BY <2>2
<1> HIDE DEF pkt
<1> QED BY <1>3, <1>4, DecodesNone DEF pkt, d

----------------------------------------------------------------------------
(* What is asked, and what has arrived of it.                              *)

LEMMA AskIs ==
  ASSUME NEW ask \in Asks
  PROVE  /\ IsAsker(ask) /\ ask.pdu \in {GET, GETNEXT} /\ ask.oid \in Seq(Nat)
         /\ Ber(ask.oid) \in Seq(Byte) /\ Tlv(NULL, <<>>) \in Seq(Byte)
         /\ 0 \in Int32s /\ 1 \in Int32s /\ NOSUCHNAME \in Int32s /\ NOERROR \in Int32s
         /\ [ask EXCEPT !.oid = Ber(@)] =
              [version |-> ask.version, community |-> ask.community, pdu |-> ask.pdu,
               id |-> ask.id, oid |-> Ber(ask.oid)]
<1>1. /\ ask = [version |-> ask.version, community |-> ask.community, pdu |-> ask.pdu,
                id |-> ask.id, oid |-> ask.oid]
      /\ ask.version \in Int32s /\ ask.community \in Seq(Byte) /\ ask.pdu \in {GET, GETNEXT}
      /\ ask.id \in Int32s /\ ask.oid \in Seq(Nat)
  BY DEF Asks
<1>2. Ber(ask.oid) \in Seq(Byte)
  <2>1. 0 \in 0 .. Len(ask.oid) /\ \A j \in 1 .. 0 : ask.oid[j] < 128
    BY <1>1, LenProperties
  <2> QED BY <1>1, <2>1, BerSmall
<1>3. Tlv(NULL, <<>>) \in Seq(Byte)
  <2>1. <<>> \in Seq(Byte) /\ Len(<<>>) <= MaxDatagram
    <3>1. Len(<<>>) = 0 /\ 0 <= MaxDatagram
      BY SMT DEF MaxDatagram
    <3> QED BY <3>1, EmptySeq
  <2> QED BY <2>1, TlvIsWrap, WrapBytes, Types
<1>4. 0 \in Int32s /\ 1 \in Int32s /\ 2 \in Int32s
  BY SMT DEF Int32s
<1>5. [ask EXCEPT !.oid = Ber(@)] =
        [version |-> ask.version, community |-> ask.community, pdu |-> ask.pdu,
         id |-> ask.id, oid |-> Ber(ask.oid)]
  <2> DEFINE b == Ber(ask.oid)
  <2> HIDE DEF b
  <2>1. [ask EXCEPT !.oid = b] =
          [version |-> ask.version, community |-> ask.community, pdu |-> ask.pdu,
           id |-> ask.id, oid |-> b]
    BY <1>1
  <2> QED BY <2>1 DEF b
<1> QED BY <1>1, <1>2, <1>3, <1>4, <1>5 DEF IsAsker, NOSUCHNAME, NOERROR

\* The datagram of a request: a sequence around a body, and what it decodes to.
LEMMA DatagramIs ==
  ASSUME NEW ask \in Asks, NEW long \in BOOLEAN, Len(Datagram(ask, long)) <= MaxDatagram
  PROVE  /\ Datagram(ask, long) \in Seq(Byte)
         /\ Decode(Datagram(ask, long)) = {[ask EXCEPT !.oid = Ber(@)]}
         /\ \A r \in Nat : r < Len(Datagram(ask, long)) =>
              Decode(SubSeq(Datagram(ask, long), 1, r)) = {}
<1> DEFINE d == Datagram(ask, long)
           b == Ber(ask.oid)
           v == Tlv(NULL, <<>>)
           body == Body(long, ask, ask.pdu, 0, 0, b, v)
<1>1. /\ IsAsker(ask) /\ ask.pdu \in {GET, GETNEXT} /\ b \in Seq(Byte) /\ v \in Seq(Byte)
      /\ 0 \in Int32s /\ ask.pdu \in Byte
  BY AskIs, Types
<1>2. d = Message(long, ask, ask.pdu, 0, 0, b, v)
  BY DEF Datagram
<1> HIDE DEF d, b, v
<1>3. Len(Message(long, ask, ask.pdu, 0, 0, b, v)) <= MaxDatagram
  BY <1>2 DEF d
<1>4. body \in Seq(Byte) /\ Len(body) <= MaxDatagram
  <2>1. PartsAreBytes(long, ask, ask.pdu, 0, 0, b, v)
    BY Zenon, <1>1, <1>3, PartsFit
  <2> QED BY Zenon, <2>1 DEF PartsAreBytes
<1>5. d = Wrap(long, SEQUENCE, body)
  BY <1>2, MessageIs
<1>6. Decode(d) = {[version |-> ask.version, community |-> ask.community, pdu |-> ask.pdu,
                    id |-> ask.id, oid |-> b]}
  BY <1>1, <1>2, <1>3, DecodesWhole
<1> HIDE DEF body
<1>7. d \in Seq(Byte)
  BY <1>4, <1>5, WrapBytes, Types
<1>8. \A r \in Nat : r < Len(d) => Decode(SubSeq(d, 1, r)) = {}
  BY <1>4, <1>5, DecodesCut
<1>9. [ask EXCEPT !.oid = Ber(@)] =
        [version |-> ask.version, community |-> ask.community, pdu |-> ask.pdu,
         id |-> ask.id, oid |-> b]
  BY AskIs DEF b
<1> QED BY <1>6, <1>7, <1>8, <1>9 DEF d

\* The datagram is that of a request, and no more of it arrives than there is, or
\* than the buffer holds.
Receives ==
  /\ \E ask \in Requests, long \in BOOLEAN :
       sent = [ask |-> ask, bytes |-> Datagram(ask, long)]
  /\ received \in Nat /\ received <= Len(sent.bytes) /\ received <= BufSize

LEMMA ReceivesInductive ==
  /\ Init => Receives
  /\ Receives /\ [Next]_vars => Receives'
<1>1. Init => Receives
  <2> SUFFICES ASSUME Init PROVE Receives
    OBVIOUS
  <2>1. PICK ask \in Requests, long \in BOOLEAN :
          sent = [ask |-> ask, bytes |-> Datagram(ask, long)]
    BY DEF Init
  <2>2. sent.bytes \in Seq(Byte)
    BY <2>1, DatagramIs, CodecAssumption
  <2>3. 0 <= Len(sent.bytes) /\ 0 <= BufSize
    <3>1. Len(sent.bytes) \in Nat /\ BufSize \in Nat
      BY <2>2, LenProperties, CodecAssumption
    <3> QED BY <3>1
  <2> QED BY <2>1, <2>3 DEF Init, Receives
<1>2. Receives /\ [Next]_vars => Receives'
  <2> SUFFICES ASSUME Receives, [Next]_vars PROVE Receives'
    OBVIOUS
  <2>1. PICK ask \in Requests, long \in BOOLEAN :
          sent = [ask |-> ask, bytes |-> Datagram(ask, long)]
    BY DEF Receives
  <2>2. Len(sent.bytes) \in Nat /\ BufSize \in Nat
    <3>1. sent.bytes \in Seq(Byte)
      BY <2>1, DatagramIs, CodecAssumption
    <3> QED BY <3>1, LenProperties, CodecAssumption
  <2>3. CASE ByteArrives
    <3>1. sent' = sent /\ received' = received + 1 /\ received < Len(sent.bytes)
          /\ received < BufSize
      BY <2>3 DEF ByteArrives
    <3>2. received \in Nat
      BY DEF Receives
    <3>3. received' \in Nat /\ received' <= Len(sent.bytes) /\ received' <= BufSize
      BY <2>2, <3>1, <3>2
    <3> QED BY <2>1, <3>1, <3>3 DEF Receives
  <2>4. CASE Answer
    BY <2>4 DEF Answer, Receives
  <2>5. CASE UNCHANGED vars
    BY <2>5 DEF vars, Receives
  <2> QED BY <2>3, <2>4, <2>5 DEF Next
<1> QED BY <1>1, <1>2

LEMMA DecodesIt == Receives => DecodesWhatWasAsked
<1> SUFFICES ASSUME Receives PROVE DecodesWhatWasAsked
  OBVIOUS
<1>1. PICK ask \in Requests, long \in BOOLEAN :
        sent = [ask |-> ask, bytes |-> Datagram(ask, long)]
  BY DEF Receives
<1> DEFINE d == Datagram(ask, long)
<1>2. /\ d \in Seq(Byte) /\ Decode(d) = {[ask EXCEPT !.oid = Ber(@)]}
      /\ \A r \in Nat : r < Len(d) => Decode(SubSeq(d, 1, r)) = {}
  BY DatagramIs, CodecAssumption
<1>3. sent.ask = ask /\ sent.bytes = d
  BY <1>1
<1> HIDE DEF d
<1>4. received \in Nat /\ received <= Len(d) /\ Len(d) \in Nat
  BY <1>2, <1>3, LenProperties DEF Receives
<1>5. CASE received = Len(d)
  <2>1. Arrived = d
    BY <1>2, <1>3, <1>5, SubSeqFull DEF Arrived
  <2> QED BY <1>2, <1>3, <1>5, <2>1 DEF DecodesWhatWasAsked
<1>6. CASE received < Len(d)
  <2>1. Decode(Arrived) = {}
    BY <1>2, <1>3, <1>4, <1>6 DEF Arrived
  <2>2. received # Len(d)
    BY <1>4, <1>6
  <2> QED BY <1>3, <2>1, <2>2 DEF DecodesWhatWasAsked
<1> QED BY <1>4, <1>5, <1>6

\* A datagram decodes to what the manager asked when all of it has arrived, and to
\* nothing when any part is missing: snmp_decode_request() reads what the standard
\* writes, with lengths in any of its forms.
THEOREM DecodesAlways == Spec => []DecodesWhatWasAsked
<1>1. Init => Receives
  BY ReceivesInductive
<1>2. Receives /\ [Next]_vars => Receives'
  BY ReceivesInductive
<1>3. Receives => DecodesWhatWasAsked
  BY DecodesIt
<1> QED BY <1>1, <1>2, <1>3, PTL DEF Spec

----------------------------------------------------------------------------
LEMMA FollowsIt == Receives => NextInMibOrder
<1> SUFFICES ASSUME Receives, NEW req \in Decode(Arrived)
             PROVE  LET found == Found(req)
                        after == {i \in Agent!Entries : Before(sent.ask.oid, k_oid_table[i])}
                    IN  req.pdu = GETNEXT /\ reply = <<>> =>
                          IF found = 0 THEN after = {}
                          ELSE /\ found \in after
                               /\ \A i \in after \ {found} :
                                    Before(k_oid_table[found], k_oid_table[i])
  BY DEF NextInMibOrder
<1>1. PICK ask \in Requests : sent.ask = ask
  BY DEF Receives
<1>2. ask \in Asks /\ ask.oid \in Seq(Nat)
  BY AskIs, CodecAssumption
<1>3. req.oid = Ber(ask.oid) /\ req.pdu = ask.pdu
  <2>1. req = [ask EXCEPT !.oid = Ber(@)]
    BY <1>1, DecodesIt DEF DecodesWhatWasAsked
  <2> QED BY <1>2, <2>1, AskIs
<1>4. req.pdu = GETNEXT => Found(req) = Agent!LookupNext(Ber(ask.oid))
  BY <1>3 DEF Found, GET, GETNEXT
<1> QED BY <1>1, <1>2, <1>4, NextFollows

\* The answer to a GETNEXT is the object that follows in the order of the MIB,
\* whatever the number of bytes a sub-identifier of the request takes:
\* snmp_lookup_next() compares bytes, and puts no object on the wrong side.
THEOREM NextInMibOrderAlways == Spec => []NextInMibOrder
<1>1. Init => Receives
  BY ReceivesInductive
<1>2. Receives /\ [Next]_vars => Receives'
  BY ReceivesInductive
<1>3. Receives => NextInMibOrder
  BY FollowsIt
<1> QED BY <1>1, <1>2, <1>3, PTL DEF Spec

----------------------------------------------------------------------------
(* Encoding.                                                               *)

\* What a header and its value take.
Taken(long, n) == IF long THEN n + 4 ELSE TlvLen(n)

LEMMA TlvLenIs ==
  ASSUME NEW n \in Nat
  PROVE  /\ TlvLen(n) \in Nat /\ TlvLen(n) >= n + 2 /\ TlvLen(n) <= n + 4
         /\ n < 128 => TlvLen(n) = n + 2
         /\ n >= 128 /\ n < 256 => TlvLen(n) = n + 3
         /\ n >= 256 => TlvLen(n) = n + 4
BY DEF TlvLen, LenFieldSize

LEMMA TakenGrows ==
  ASSUME NEW long \in BOOLEAN, NEW m \in Nat, NEW n \in Nat, m <= n
  PROVE  Taken(FALSE, m) = TlvLen(m) /\ TlvLen(m) <= Taken(long, n) /\ Taken(long, n) \in Nat
<1>1. TlvLen(m) <= TlvLen(n) /\ TlvLen(n) <= n + 4 /\ TlvLen(n) \in Nat
  BY DEF TlvLen, LenFieldSize
<1>2. TlvLen(m) \in Nat
  BY TlvLenIs
<1>3. TlvLen(m) <= n + 4
  BY <1>1, <1>2
<1> QED BY <1>1, <1>3 DEF Taken

LEMMA WrapTakes ==
  ASSUME NEW long \in BOOLEAN, NEW type \in Byte, NEW c \in Seq(Nat)
  PROVE  Wrap(long, type, c) \in Seq(Nat) /\ Len(Wrap(long, type, c)) = Taken(long, Len(c))
<1> DEFINE n == Len(c)
           h2 == <<type, n>>
           h3 == <<type, 129, n>>
           h4 == <<type, 130, n \div 256, n % 256>>
           w == Wrap(long, type, c)
<1>1. n \in Nat /\ n \div 256 \in Nat /\ n % 256 \in Nat /\ type \in Nat
  <2>1. n \in Nat /\ type \in Nat
    BY LenProperties, Bytes256
  <2> HIDE DEF n
  <2> QED BY <2>1
<1>2. \/ w = h2 \o c /\ ~long /\ n < 128
      \/ w = h3 \o c /\ ~long /\ n >= 128 /\ n < 256
      \/ w = h4 \o c /\ ~long /\ n >= 256
      \/ w = h4 \o c /\ long
  <2> DEFINE tlv == Tlv(type, c)
             two == h2 \o c
             three == h3 \o c
             four == h4 \o c
  <2>1. /\ w = IF long THEN four ELSE tlv
        /\ tlv = IF n < 128 THEN two ELSE IF n < 256 THEN three ELSE four
    <3>1. LongTlv(type, c) = four
      BY DEF LongTlv
    <3> HIDE DEF four
    <3>2. tlv = IF n < 128 THEN two ELSE IF n < 256 THEN three ELSE LongTlv(type, c)
      BY Zenon DEF Tlv
    <3>3. w = IF long THEN LongTlv(type, c) ELSE tlv
      BY Zenon DEF Wrap
    <3> HIDE DEF w, tlv, two, three
    <3> QED BY <3>1, <3>2, <3>3
  <2>2. n \in Nat
    BY <1>1
  <2> HIDE DEF w, tlv, two, three, four, n
  <2>3. \/ w = two /\ ~long /\ n < 128
        \/ w = three /\ ~long /\ n >= 128 /\ n < 256
        \/ w = four /\ ~long /\ n >= 256
        \/ w = four /\ long
    BY <2>1, <2>2
  <2> QED BY <2>3 DEF w, two, three, four
<1> HIDE DEF n, w
<1>3. /\ h2 \in Seq(Nat) /\ Len(h2) = 2 /\ h3 \in Seq(Nat) /\ Len(h3) = 3
      /\ h4 \in Seq(Nat) /\ Len(h4) = 4
  BY <1>1
<1> HIDE DEF h2, h3, h4
<1>4. /\ h2 \o c \in Seq(Nat) /\ Len(h2 \o c) = 2 + n
      /\ h3 \o c \in Seq(Nat) /\ Len(h3 \o c) = 3 + n
      /\ h4 \o c \in Seq(Nat) /\ Len(h4 \o c) = 4 + n
  <2>1. \A h \in Seq(Nat) : h \o c \in Seq(Nat) /\ Len(h \o c) = Len(h) + n
    BY ConcatProperties DEF n
  <2> QED BY <1>3, <2>1
<1>5. w \in Seq(Nat)
  BY <1>2, <1>4
<1>6. \/ Len(w) = 2 + n /\ ~long /\ n < 128
      \/ Len(w) = 3 + n /\ ~long /\ n >= 128 /\ n < 256
      \/ Len(w) = 4 + n /\ ~long /\ n >= 256
      \/ Len(w) = 4 + n /\ long
  <2> DEFINE two == h2 \o c
             three == h3 \o c
             four == h4 \o c
  <2>1. Len(two) = 2 + n /\ Len(three) = 3 + n /\ Len(four) = 4 + n
    BY <1>4
  <2>2. \/ w = two /\ ~long /\ n < 128
        \/ w = three /\ ~long /\ n >= 128 /\ n < 256
        \/ w = four /\ ~long /\ n >= 256
        \/ w = four /\ long
    BY <1>2
  <2> HIDE DEF two, three, four
  <2> QED BY <2>1, <2>2
<1>7. Len(w) = Taken(long, n)
  <2>1. /\ TlvLen(n) \in Nat
        /\ n < 128 => TlvLen(n) = n + 2
        /\ n >= 128 /\ n < 256 => TlvLen(n) = n + 3
        /\ n >= 256 => TlvLen(n) = n + 4
    BY <1>1, TlvLenIs
  <2>2. 2 + n = n + 2 /\ 3 + n = n + 3 /\ 4 + n = n + 4
    BY <1>1
  <2> QED BY <1>6, <2>1, <2>2 DEF Taken
<1> QED BY <1>5, <1>7 DEF n, w

LEMMA Prefixed ==
  ASSUME NEW a \in Nat, NEW t \in Seq(Nat), NEW r \in Seq(Nat), Len(r) = Len(t) + 1,
         r[1] = a, \A i \in 1 .. Len(t) : r[i + 1] = t[i]
  PROVE  <<a>> \o t = r
<1> DEFINE s == <<a>>
<1>1. s \in Seq(Nat) /\ Len(s) = 1 /\ s[1] = a
  OBVIOUS
<1> HIDE DEF s
<1>2. /\ s \o t \in Seq(Nat) /\ Len(s \o t) = 1 + Len(t)
      /\ \A i \in 1 .. 1 + Len(t) :
           (s \o t)[i] = IF i <= 1 THEN s[i] ELSE t[i - 1]
  <2>1. /\ s \o t \in Seq(Nat) /\ Len(s \o t) = Len(s) + Len(t)
        /\ \A i \in 1 .. Len(s) + Len(t) :
             (s \o t)[i] = IF i <= Len(s) THEN s[i] ELSE t[i - Len(s)]
    BY Zenon, <1>1, ConcatProperties
  <2> QED BY Zenon, <1>1, <2>1
<1>3. Len(t) \in Nat
  BY LenProperties
<1>4. \A i \in 1 .. 1 + Len(t) : (s \o t)[i] = r[i]
  <2> TAKE i \in 1 .. 1 + Len(t)
  <2>1. CASE i = 1
    BY <1>1, <1>2, <1>3, <2>1
  <2>2. CASE i # 1
    <3>1. i - 1 \in 1 .. Len(t) /\ (i - 1) + 1 = i /\ ~(i <= 1)
      BY <1>3, <2>2
    <3> QED BY <1>2, <3>1
  <2> QED BY <2>1, <2>2
<1>5. Len(s \o t) = Len(r) /\ 1 .. Len(s \o t) = 1 .. 1 + Len(t)
  BY <1>2, <1>3
<1>6. s \o t = r
  BY <1>2, <1>4, <1>5, SeqEqual
<1> QED BY <1>6 DEF s

\* A header that is written before a value makes the standard's encoding of it.
LEMMA HeaderIs ==
  ASSUME NEW type \in Byte, NEW c \in Seq(Byte), Len(c) <= MaxDatagram
  PROVE  /\ Header(type, Len(c)) \in Seq(Byte)
         /\ Header(type, Len(c)) \o c = Wrap(FALSE, type, c)
<1> DEFINE n == Len(c)
           h2 == <<type, n>>
           h3 == <<type, 129, n>>
           h4 == <<type, 130, n \div 256, n % 256>>
           w == Wrap(FALSE, type, c)
           h == Header(type, n)
<1>1. n \in Nat /\ n <= MaxDatagram
  BY LenProperties
<1>2. /\ n < 128 => w = h2 \o c
      /\ n >= 128 /\ n < 256 => w = h3 \o c
      /\ n >= 256 => w = h4 \o c
  <2> DEFINE two == h2 \o c
             three == h3 \o c
             four == h4 \o c
  <2>1. w = IF n < 128 THEN two ELSE IF n < 256 THEN three ELSE four
    BY Zenon DEF Wrap, Tlv, LongTlv
  <2> HIDE DEF w, two, three, four, n
  <2>2. /\ n < 128 => w = two
        /\ n >= 128 /\ n < 256 => w = three
        /\ n >= 256 => w = four
    BY <1>1, <2>1
  <2> QED BY <2>2 DEF two, three, four
<1> HIDE DEF n, w
<1>3. n \in Nat /\ n \div 256 \in Nat /\ n % 256 \in Nat /\ type \in Nat
  BY <1>1, Bytes256
<1>4. /\ n < 128 => h = h2
      /\ n >= 128 /\ n < 256 => h = h3
      /\ n >= 256 => h = h4
  <2>1. (n \div 256) % 256 = n \div 256
    BY SMT, <1>1 DEF MaxDatagram
  <2>2. CASE n < 128
    <3>1. h = h2
      <4>1. h = <<type>> \o <<n>>
        BY <2>2 DEF Header, LenField
      <4> DEFINE t == <<n>>
      <4>2. t \in Seq(Nat) /\ Len(t) = 1 /\ h2 \in Seq(Nat) /\ Len(h2) = 1 + 1
            /\ h2[1] = type /\ h2[1 + 1] = t[1] /\ type \in Nat
        BY <1>3
      <4>3. h = <<type>> \o t
        BY <4>1
      <4> HIDE DEF h, t, h2
      <4>4. \A i \in 1 .. Len(t) : h2[i + 1] = t[i]
        BY <4>2
      <4>5. Len(h2) = Len(t) + 1
        BY <4>2
      <4>6. <<type>> \o t = h2
        BY Zenon, <4>2, <4>4, <4>5, Prefixed
      <4> QED BY <4>3, <4>6
    <3>2. ~(n >= 128) /\ ~(n >= 256)
      BY <1>1, <2>2
    <3> HIDE DEF h, h2, h3, h4
    <3> QED BY <3>1, <3>2
  <2>3. CASE n >= 128 /\ n < 256
    <3>1. h = h3
      <4>1. h = <<type>> \o <<129, n>>
        BY <1>1, <2>3 DEF Header, LenField
      <4> DEFINE t == <<129, n>>
      <4>2. t \in Seq(Nat) /\ Len(t) = 2 /\ h3 \in Seq(Nat) /\ Len(h3) = 2 + 1
            /\ h3[1] = type /\ h3[1 + 1] = t[1] /\ h3[2 + 1] = t[2] /\ type \in Nat
        BY <1>3
      <4>3. h = <<type>> \o t
        BY <4>1
      <4> HIDE DEF h, t, h3
      <4>4. \A i \in 1 .. Len(t) : h3[i + 1] = t[i]
        BY <4>2
      <4>5. Len(h3) = Len(t) + 1
        BY <4>2
      <4>6. <<type>> \o t = h3
        BY Zenon, <4>2, <4>4, <4>5, Prefixed
      <4> QED BY <4>3, <4>6
    <3>2. ~(n < 128) /\ ~(n >= 256)
      BY <1>1, <2>3
    <3> HIDE DEF h, h2, h3, h4
    <3> QED BY <3>1, <3>2
  <2>4. CASE n >= 256
    <3>1. LenField(n) = <<130, (n \div 256) % 256, n % 256>>
      BY <1>1, <2>4 DEF LenField
    <3>2. h = h4
      <4>1. h = <<type>> \o <<130, n \div 256, n % 256>>
        BY <2>1, <3>1 DEF Header
      <4> DEFINE t == <<130, n \div 256, n % 256>>
      <4>2. t \in Seq(Nat) /\ Len(t) = 3 /\ h4 \in Seq(Nat) /\ Len(h4) = 3 + 1
            /\ h4[1] = type /\ h4[1 + 1] = t[1] /\ h4[2 + 1] = t[2] /\ h4[3 + 1] = t[3] /\ type \in Nat
        BY <1>3
      <4>3. h = <<type>> \o t
        BY <4>1
      <4> HIDE DEF h, t, h4
      <4>4. \A i \in 1 .. Len(t) : h4[i + 1] = t[i]
        BY <4>2
      <4>5. Len(h4) = Len(t) + 1
        BY <4>2
      <4>6. <<type>> \o t = h4
        BY Zenon, <4>2, <4>4, <4>5, Prefixed
      <4> QED BY <4>3, <4>6
    <3>3. ~(n < 128) /\ ~(n < 256)
      BY <1>1, <2>4
    <3> HIDE DEF h, h2, h3, h4
    <3> QED BY <3>2, <3>3
  <2> QED BY <1>1, <2>2, <2>3, <2>4
<1>5. n < 128 \/ (n >= 128 /\ n < 256) \/ n >= 256
  BY <1>1
<1>6. /\ n >= 256 => h4 \in Seq(Byte)
      /\ n >= 128 /\ n < 256 => h3 \in Seq(Byte)
      /\ n < 128 => h2 \in Seq(Byte)
  <2>1. IsHeader(h4, type, n)
    BY <1>1, LongHeader
  <2>2. n < 256 => (n < 128 => IsHeader(h2, type, n)) /\ (n >= 128 => IsHeader(h3, type, n))
    BY <1>1, ShortHeader
  <2>3. n < 128 => n < 256
    BY <1>1
  <2> HIDE DEF h2, h3, h4
  <2> QED BY <2>1, <2>2, <2>3 DEF IsHeader
<1> HIDE DEF h, h2, h3, h4
<1>7. h \in Seq(Byte) /\ h \o c = w
  <2>1. CASE n < 128
    <3>1. w = h2 \o c
      BY <1>2, <2>1
    <3>2. h = h2
      BY <1>4, <2>1
    <3>3. h2 \in Seq(Byte)
      BY <1>6, <2>1
    <3> QED BY <3>1, <3>2, <3>3
  <2>2. CASE n >= 128 /\ n < 256
    <3>1. w = h3 \o c
      BY <1>2, <2>2
    <3>2. h = h3
      BY <1>4, <2>2
    <3>3. h3 \in Seq(Byte)
      BY <1>6, <2>2
    <3> QED BY <3>1, <3>2, <3>3
  <2>3. CASE n >= 256
    <3>1. w = h4 \o c
      BY <1>2, <2>3
    <3>2. h = h4
      BY <1>4, <2>3
    <3>3. h4 \in Seq(Byte)
      BY <1>6, <2>3
    <3> QED BY <3>1, <3>2, <3>3
  <2> QED BY <1>5, <2>1, <2>2, <2>3
<1> QED BY <1>7 DEF h, w, n

\* A byte and the next one, of x, when x fits the two: the first is redundant when x
\* fits the second.
LEMMA RedundantIs ==
  ASSUME NEW x \in Int, NEW a \in Int, a = x \div 256, -128 <= a, a <= 127
  PROVE  \/ a % 256 = 0 /\ x % 256 < 128
         \/ a % 256 = 255 /\ x % 256 >= 128
         <=> -128 <= x /\ x <= 127
<1> DEFINE b == x % 256
<1>1. b \in 0 .. 255 /\ b = x - 256 * a
  BY SMT
<1>2. (a % 256 = 0 <=> a = 0) /\ (a % 256 = 255 <=> a = -1)
  BY SMT
<1> DEFINE c == a % 256
<1>3. (c = 0 <=> a = 0) /\ (c = 255 <=> a = -1)
  BY <1>2
<1> HIDE DEF b, c
<1>4. (\/ c = 0 /\ b < 128
       \/ c = 255 /\ b >= 128)
        <=> -128 <= x /\ x <= 127
  <2>1. CASE a = 0
    BY SMT, <1>1, <1>3, <2>1
  <2>2. CASE a = -1
    BY SMT, <1>1, <1>3, <2>2
  <2>3. CASE a # 0 /\ a # -1
    BY SMT, <1>1, <1>3, <2>3
  <2> QED BY <2>1, <2>2, <2>3
<1> QED BY <1>4 DEF b, c

\* snmp_int32_encoded_len() drops the bytes that the standard leaves out.
LEMMA EncodedLenIs ==
  ASSUME NEW v \in Int32s
  PROVE  EncodedLen(v) = Len(SignedBytes(v))
<1>1. v \in Int /\ -2147483647 - 1 <= v /\ v <= 2147483647
  BY SMT DEF Int32s
<1> DEFINE r1 == Redundant(Int32Bytes(v), 1)
           r2 == Redundant(Int32Bytes(v), 2)
           r3 == Redundant(Int32Bytes(v), 3)
           v1 == v \div 256
           v2 == v \div 65536
           v3 == v \div 16777216
<1>2. /\ v1 \in Int /\ v2 \in Int /\ v3 \in Int
      /\ v1 = v \div 256 /\ v2 = v1 \div 256 /\ v3 = v2 \div 256
  BY SMT, <1>1
<1>3. /\ -128 <= v3 /\ v3 <= 127
      /\ Holds(3, v) <=> -128 <= v2 /\ v2 <= 127
      /\ Holds(2, v) <=> -128 <= v1 /\ v1 <= 127
      /\ Holds(1, v) <=> -128 <= v /\ v <= 127
  BY SMT, <1>1 DEF Holds
<1>4. /\ r1 <=> (\/ v3 % 256 = 0 /\ v2 % 256 < 128
                 \/ v3 % 256 = 255 /\ v2 % 256 >= 128)
      /\ r2 <=> (\/ v2 % 256 = 0 /\ v1 % 256 < 128
                 \/ v2 % 256 = 255 /\ v1 % 256 >= 128)
      /\ r3 <=> (\/ v1 % 256 = 0 /\ v % 256 < 128
                 \/ v1 % 256 = 255 /\ v % 256 >= 128)
  BY SMT DEF Redundant, Int32Bytes
<1> HIDE DEF r1, r2, r3, v1, v2, v3
<1>5. r1 <=> Holds(3, v)
  BY <1>2, <1>3, <1>4, RedundantIs
<1>6. Holds(3, v) => (r2 <=> Holds(2, v))
  BY <1>2, <1>3, <1>4, RedundantIs
<1>7. Holds(2, v) => (r3 <=> Holds(1, v))
  BY <1>1, <1>2, <1>3, <1>4, RedundantIs
<1>8. PICK n \in 1 .. 4 : /\ SignedBytes(v) = [i \in 1 .. n |-> ByteOf(n, i, v)]
                          /\ Holds(n, v) /\ \A j \in 1 .. n - 1 : ~Holds(j, v)
  BY SignedBytesAre
<1>9. Len(SignedBytes(v)) = n
  BY <1>8
<1>10. EncodedLen(v) = IF ~r1 THEN 4 ELSE IF ~r2 THEN 3 ELSE IF ~r3 THEN 2 ELSE 1
  BY DEF EncodedLen, r1, r2, r3
<1>11. /\ n > 1 => ~Holds(1, v)
       /\ n > 2 => ~Holds(2, v)
       /\ n > 3 => ~Holds(3, v)
  <2>1. /\ n > 1 => 1 \in 1 .. n - 1
        /\ n > 2 => 2 \in 1 .. n - 1
        /\ n > 3 => 3 \in 1 .. n - 1
    OBVIOUS
  <2> QED BY <1>8, <2>1
<1>12. (Holds(1, v) => Holds(2, v)) /\ (Holds(2, v) => Holds(3, v))
  BY SMT, <1>1 DEF Holds
<1>13. n = 1 \/ n = 2 \/ n = 3 \/ n = 4
  OBVIOUS
<1>14. EncodedLen(v) = n
  BY <1>5, <1>6, <1>7, <1>8, <1>10, <1>11, <1>12, <1>13
<1> QED BY <1>9, <1>14

\* snmp_write_int32() writes the standard's encoding.
LEMMA PutsInt ==
  ASSUME NEW v \in Int32s
  PROVE  /\ PutInt32(v) = Signed(v) /\ Len(Signed(v)) = IntTlvLen(v)
         /\ Signed(v) \in Seq(Byte) /\ IntTlvLen(v) \in 3 .. 6
<1> DEFINE b == SignedBytes(v)
           four == Int32Bytes(v)
<1>1. b \in Seq(Byte) /\ Len(b) \in 1 .. 4 /\ Len(b) <= MaxDatagram
  BY IntegerIsRead, SignedIs
<1>2. PICK n \in 1 .. 4 : b = [i \in 1 .. n |-> ByteOf(n, i, v)]
  BY SignedBytesAre
<1>3. Len(b) = n /\ EncodedLen(v) = n /\ \A i \in 1 .. n : b[i] = ByteOf(n, i, v)
  <2>1. Len(b) = n /\ \A i \in 1 .. n : b[i] = ByteOf(n, i, v)
    BY <1>2
  <2> QED BY <2>1, EncodedLenIs
<1>4. four \in Seq(Byte) /\ \A i \in 1 .. 4 : i <= n => ByteOf(n, i, v) = four[i + 4 - n]
  BY FourBytes
<1>5. Len(four) = 4
  BY DEF Int32Bytes
<1> HIDE DEF b, four
<1>6. SubSeq(four, 5 - n, 4) = b
  <2> DEFINE m == 5 - n
             s == SubSeq(four, m, 4)
  <2>1. m \in Int /\ m <= 4 /\ 4 - m + 1 = n /\ \A i \in m .. 4 : i \in 1 .. Len(four)
    BY <1>5
  <2>2. \A i \in m .. 4 : four[i] \in Byte
    BY <1>4, <2>1, ElementOfSeq
  <2>3. \A i \in 1 .. n : m + i - 1 = i + 4 - n /\ i \in 1 .. 4 /\ i <= n
    OBVIOUS
  <2> HIDE DEF m
  <2>4. /\ s \in Seq(Byte)
        /\ Len(s) = IF m <= 4 THEN 4 - m + 1 ELSE 0
        /\ \A i \in 1 .. 4 - m + 1 : s[i] = four[m + i - 1]
    BY <2>1, <2>2, SubSeqProperties
  <2> HIDE DEF s
  <2>5. Len(s) = Len(b)
    BY <1>3, <2>1, <2>4
  <2>6. \A i \in 1 .. n : s[i] = b[i]
    BY <1>3, <1>4, <2>1, <2>3, <2>4
  <2>7. s = b
    BY <1>1, <1>3, <2>4, <2>5, <2>6, SeqEqual
  <2> QED BY <2>7 DEF s, m
<1>7. Header(INTEGER, Len(b)) \o b = Wrap(FALSE, INTEGER, b)
  BY <1>1, HeaderIs, Types
<1>8. PutInt32(v) = Signed(v) /\ Signed(v) \in Seq(Byte) /\ Signed(v) = Wrap(FALSE, INTEGER, b)
  <2>1. Signed(v) = Wrap(FALSE, INTEGER, b) /\ Signed(v) \in Seq(Byte)
    BY SignedIs DEF b
  <2>2. PutInt32(v) = Header(INTEGER, n) \o SubSeq(four, 5 - n, 4)
    BY <1>3 DEF PutInt32, four
  <2> QED BY <1>3, <1>6, <1>7, <2>1, <2>2
<1>9. Len(Signed(v)) = TlvLen(n)
  <2>1. Len(Wrap(FALSE, INTEGER, b)) = Taken(FALSE, Len(b))
    BY <1>1, BytesAreNumbers, Types, WrapTakes
  <2> QED BY <1>3, <1>8, <2>1 DEF Taken
<1>10. IntTlvLen(v) = TlvLen(n) /\ TlvLen(n) \in 3 .. 6
  <2>1. TlvLen(n) \in Nat /\ TlvLen(n) >= n + 2 /\ TlvLen(n) <= n + 4
    BY TlvLenIs
  <2>2. n < 128 => TlvLen(n) = n + 2
    BY TlvLenIs
  <2>3. IntTlvLen(v) = TlvLen(n)
    BY <1>3 DEF IntTlvLen
  <2> QED BY <2>1, <2>2, <2>3
<1> QED BY <1>8, <1>9, <1>10

LEMMA SmallInts == \A v \in 0 .. 2 : v \in Int32s /\ IntTlvLen(v) = 3
<1> TAKE v \in 0 .. 2
<1>1. v \in Int32s /\ Holds(1, v) /\ 1 \in 1 .. 4
  BY SMT DEF Int32s, Holds
<1>2. PICK n \in 1 .. 4 : /\ SignedBytes(v) = [i \in 1 .. n |-> ByteOf(n, i, v)]
                          /\ \A j \in 1 .. n - 1 : ~Holds(j, v)
  BY <1>1, SignedBytesAre
<1>3. n = 1
  <2>1. n # 1 => 1 \in 1 .. n - 1
    OBVIOUS
  <2> QED BY <1>1, <1>2, <2>1
<1>4. Len(SignedBytes(v)) = 1
  BY <1>2, <1>3
<1>5. EncodedLen(v) = 1
  BY <1>1, <1>4, EncodedLenIs
<1> QED BY <1>1, <1>5 DEF IntTlvLen, TlvLen, LenFieldSize

\* How long a message and its parts are.
LensAre(long, req, type, status, index, oid, value) ==
  LET binding == BindingBody(oid, value)
      list == ListBody(long, oid, value)
      pdu == PduBody(long, req, status, index, oid, value)
      body == Body(long, req, type, status, index, oid, value)
  IN  /\ Len(value) \in Nat /\ Len(oid) \in Nat /\ Len(req.community) \in Nat
      /\ Len(binding) \in Nat /\ Len(binding) = TlvLen(Len(oid)) + Len(value)
      /\ Len(list) \in Nat /\ Len(list) = Taken(long, Len(binding))
      /\ Len(pdu) \in Nat
      /\ Len(pdu) = IntTlvLen(req.id) + IntTlvLen(status) + IntTlvLen(index)
                      + Taken(long, Len(list))
      /\ Len(body) \in Nat
      /\ Len(body) = IntTlvLen(req.version) + TlvLen(Len(req.community))
                       + Taken(long, Len(pdu))
      /\ Len(Message(long, req, type, status, index, oid, value)) = Taken(long, Len(body))

LEMMA MessageTakes ==
  ASSUME NEW long \in BOOLEAN, NEW req, IsAsker(req), NEW type \in Byte,
         NEW status \in Int32s, NEW index \in Int32s,
         NEW oid \in Seq(Byte), NEW value \in Seq(Nat)
  PROVE  LensAre(long, req, type, status, index, oid, value)
<1> DEFINE o == Tlv(OID, oid)
           c == Tlv(OCTETS, req.community)
           binding == BindingBody(oid, value)
           list == ListBody(long, oid, value)
           wlist == Wrap(long, SEQUENCE, list)
           pdu == PduBody(long, req, status, index, oid, value)
           wpdu == Wrap(long, type, pdu)
           body == Body(long, req, type, status, index, oid, value)
           msg == Message(long, req, type, status, index, oid, value)
           i1 == Signed(req.id)
           i2 == Signed(status)
           i3 == Signed(index)
           i4 == Signed(req.version)
           Num(s, n) == s \in Seq(Nat) /\ Len(s) = n /\ n \in Nat
<1>1. req.community \in Seq(Byte) /\ req.version \in Int32s /\ req.id \in Int32s
  BY DEF IsAsker
<1>2. \A s \in Seq(Byte) : Num(s, Len(s))
  BY BytesAreNumbers, LenProperties
<1>3. /\ Num(i1, IntTlvLen(req.id)) /\ Num(i2, IntTlvLen(status))
      /\ Num(i3, IntTlvLen(index)) /\ Num(i4, IntTlvLen(req.version))
  BY <1>1, <1>2, PutsInt
<1>4. /\ binding = o \o value
      /\ list = Wrap(long, SEQUENCE, binding)
      /\ pdu = i1 \o i2 \o i3 \o wlist
      /\ body = i4 \o c \o wpdu
      /\ msg = Wrap(long, SEQUENCE, body)
      /\ o = Wrap(FALSE, OID, oid) /\ c = Wrap(FALSE, OCTETS, req.community)
  BY MessageIs, TlvIsWrap DEF BindingBody, ListBody, PduBody, Body
<1> HIDE DEF o, c, binding, list, pdu, body, msg, i1, i2, i3, i4
<1>5. ASSUME NEW s, NEW t, NEW m, NEW n, Num(s, m), Num(t, n)
      PROVE  Num(s \o t, m + n)
  <2>1. s \o t \in Seq(Nat) /\ Len(s \o t) = Len(s) + Len(t)
    BY <1>5, ConcatProperties
  <2> QED BY <1>5, <2>1
<1>6. ASSUME NEW lg \in BOOLEAN, NEW ty \in Byte, NEW s, NEW n, Num(s, n)
      PROVE  Num(Wrap(lg, ty, s), Taken(lg, n))
  <2>1. Wrap(lg, ty, s) \in Seq(Nat) /\ Len(Wrap(lg, ty, s)) = Taken(lg, Len(s))
    BY <1>6, WrapTakes
  <2>2. Len(Wrap(lg, ty, s)) \in Nat
    BY <2>1, LenProperties
  <2> QED BY <1>6, <2>1, <2>2
<1>7. Num(value, Len(value))
  BY LenProperties
<1>8. ASSUME NEW s, NEW n, Num(s, n)
      PROVE  Len(s) = n /\ n \in Nat
  BY <1>8
<1> HIDE DEF Num
<1>9. Num(oid, Len(oid)) /\ Num(req.community, Len(req.community))
  BY <1>1, <1>2
<1>10. Num(o, TlvLen(Len(oid))) /\ Num(c, TlvLen(Len(req.community)))
  <2>1. Num(o, Taken(FALSE, Len(oid))) /\ Num(c, Taken(FALSE, Len(req.community)))
    BY <1>4, <1>6, <1>9, Types
  <2> QED BY <2>1 DEF Taken
<1>11. Num(binding, TlvLen(Len(oid)) + Len(value))
  BY <1>4, <1>5, <1>7, <1>10
<1>12. Num(binding, Len(binding)) /\ Len(binding) = TlvLen(Len(oid)) + Len(value)
  BY <1>8, <1>11
<1>13. Num(list, Taken(long, Len(binding)))
  BY <1>4, <1>6, <1>12, Types
<1>14. Num(list, Len(list)) /\ Len(list) = Taken(long, Len(binding))
  BY <1>8, <1>13
<1>15. Num(wlist, Taken(long, Len(list)))
  BY <1>6, <1>14, Types
<1> HIDE DEF wlist
<1>16. Num(pdu, IntTlvLen(req.id) + IntTlvLen(status) + IntTlvLen(index)
                  + Taken(long, Len(list)))
  <2>1. Num(i1 \o i2, IntTlvLen(req.id) + IntTlvLen(status))
    BY <1>3, <1>5
  <2>2. Num(i1 \o i2 \o i3, IntTlvLen(req.id) + IntTlvLen(status) + IntTlvLen(index))
    BY <1>3, <1>5, <2>1
  <2> QED BY <1>4, <1>5, <1>15, <2>2
<1>17. Num(pdu, Len(pdu))
       /\ Len(pdu) = IntTlvLen(req.id) + IntTlvLen(status) + IntTlvLen(index)
                       + Taken(long, Len(list))
  BY <1>8, <1>16
<1>18. Num(wpdu, Taken(long, Len(pdu)))
  BY <1>6, <1>17
<1> HIDE DEF wpdu
<1>19. Num(body, IntTlvLen(req.version) + TlvLen(Len(req.community)) + Taken(long, Len(pdu)))
  <2>1. Num(i4 \o c, IntTlvLen(req.version) + TlvLen(Len(req.community)))
    BY <1>3, <1>5, <1>10
  <2> QED BY <1>4, <1>5, <1>18, <2>1
<1>20. Num(body, Len(body))
       /\ Len(body) = IntTlvLen(req.version) + TlvLen(Len(req.community)) + Taken(long, Len(pdu))
  BY <1>8, <1>19
<1>21. Num(msg, Taken(long, Len(body)))
  BY <1>4, <1>6, <1>20, Types
<1>22. /\ Len(value) \in Nat /\ Len(oid) \in Nat /\ Len(req.community) \in Nat
       /\ Len(binding) \in Nat /\ Len(list) \in Nat /\ Len(pdu) \in Nat /\ Len(body) \in Nat
       /\ Len(msg) = Taken(long, Len(body))
  BY <1>7, <1>8, <1>9, <1>12, <1>14, <1>17, <1>20, <1>21
<1> QED BY <1>12, <1>14, <1>17, <1>20, <1>22 DEF binding, list, pdu, body, msg, LensAre

----------------------------------------------------------------------------
(* An answer.                                                              *)

IsValue(value) == value \in [int32 : Int32s] \/ value \in [octets : Seq(Byte)]

\* What the standard's encoding of a value is, with or without an error.
ReplyValue(status, value) ==
  IF status # NOERROR THEN Tlv(NULL, <<>>)
  ELSE IF IsInt(value) THEN Signed(value.int32) ELSE Tlv(OCTETS, value.octets)

LEMMA ValueIs ==
  ASSUME NEW value, IsValue(value)
  PROVE  \/ IsInt(value) /\ value.int32 \in Int32s
         \/ ~IsInt(value) /\ value.octets \in Seq(Byte)
<1>1. CASE value \in [int32 : Int32s]
  BY <1>1 DEF IsInt
<1>2. CASE value \in [octets : Seq(Byte)]
  BY <1>2 DEF IsInt
<1> QED BY <1>1, <1>2 DEF IsValue

LEMMA NullIs ==
  /\ Tlv(NULL, <<>>) \in Seq(Byte) /\ PutNull = Tlv(NULL, <<>>) /\ Len(Tlv(NULL, <<>>)) = 2
<1> DEFINE e == <<>>
<1>1. e \in Seq(Byte) /\ Len(e) = 0 /\ Len(e) <= MaxDatagram
  <2>1. Len(e) = 0 /\ 0 <= MaxDatagram
    BY SMT DEF MaxDatagram
  <2> QED BY <2>1, EmptySeq
<1> HIDE DEF e
<1>2. Header(NULL, Len(e)) \in Seq(Byte) /\ Header(NULL, Len(e)) \o e = Wrap(FALSE, NULL, e)
  BY <1>1, HeaderIs, Types
<1>3. Header(NULL, Len(e)) \o e = PutNull
  <2>1. Header(NULL, Len(e)) \o <<>> = Header(NULL, Len(e))
    BY <1>2, ConcatEmptySeq
  <2>2. PutNull = Header(NULL, Len(e))
    BY <1>1 DEF PutNull
  <2> QED BY <2>1, <2>2 DEF e
<1>4. Wrap(FALSE, NULL, e) \in Seq(Byte)
  BY <1>1, WrapBytes, Types
<1>5. Len(Wrap(FALSE, NULL, e)) = 2
  <2>1. Len(Wrap(FALSE, NULL, e)) = Taken(FALSE, Len(e))
    BY <1>1, BytesAreNumbers, Types, WrapTakes
  <2>2. TlvLen(0) = 2
    BY TlvLenIs
  <2> QED BY <1>1, <2>1, <2>2 DEF Taken
<1> QED BY <1>2, <1>3, <1>4, <1>5, TlvIsWrap DEF e

\* Its length is computed before it is written.
LEMMA ValueTakes ==
  ASSUME NEW status \in Int32s, NEW value, IsValue(value)
  PROVE  /\ ReplyValue(status, value) \in Seq(Nat)
         /\ Len(ReplyValue(status, value)) = ValueTlvLen(status, value)
<1>1. CASE status # NOERROR
  BY <1>1, NullIs, BytesAreNumbers DEF ReplyValue, ValueTlvLen
<1>2. CASE status = NOERROR /\ IsInt(value) /\ value.int32 \in Int32s
  <2>1. ReplyValue(status, value) = Signed(value.int32)
        /\ ValueTlvLen(status, value) = IntTlvLen(value.int32)
    BY <1>2 DEF ReplyValue, ValueTlvLen
  <2> QED BY <1>2, <2>1, PutsInt, BytesAreNumbers
<1>3. CASE status = NOERROR /\ ~IsInt(value) /\ value.octets \in Seq(Byte)
  <2>1. ReplyValue(status, value) = Wrap(FALSE, OCTETS, value.octets)
        /\ ValueTlvLen(status, value) = Taken(FALSE, Len(value.octets))
    BY <1>3, TlvIsWrap DEF ReplyValue, ValueTlvLen, Taken
  <2>2. value.octets \in Seq(Nat) /\ FALSE \in BOOLEAN /\ OCTETS \in Byte
    BY <1>3, BytesAreNumbers, Types
  <2>3. /\ Wrap(FALSE, OCTETS, value.octets) \in Seq(Nat)
        /\ Len(Wrap(FALSE, OCTETS, value.octets)) = Taken(FALSE, Len(value.octets))
    BY Zenon, <2>2, WrapTakes
  <2> QED BY <2>1, <2>3
<1> QED BY <1>1, <1>2, <1>3, ValueIs

\* A value that fits a datagram is written as the standard's encoding.
LEMMA PutsValue ==
  ASSUME NEW status \in Int32s, NEW value, IsValue(value),
         ValueTlvLen(status, value) <= MaxDatagram
  PROVE  /\ ReplyValue(status, value) \in Seq(Byte)
         /\ PutValue(status, value) = ReplyValue(status, value)
<1>1. CASE status # NOERROR
  BY <1>1, NullIs DEF ReplyValue, PutValue
<1>2. CASE status = NOERROR /\ IsInt(value) /\ value.int32 \in Int32s
  <2>1. ReplyValue(status, value) = Signed(value.int32)
        /\ PutValue(status, value) = PutInt32(value.int32)
    BY <1>2 DEF ReplyValue, PutValue
  <2> QED BY <1>2, <2>1, PutsInt
<1>3. CASE status = NOERROR /\ ~IsInt(value) /\ value.octets \in Seq(Byte)
  <2> DEFINE c == value.octets
             n == Len(c)
  <2>1. /\ ReplyValue(status, value) = Wrap(FALSE, OCTETS, c)
        /\ ValueTlvLen(status, value) = TlvLen(n)
        /\ PutValue(status, value) = Header(OCTETS, n) \o c
    BY <1>3, TlvIsWrap DEF ReplyValue, ValueTlvLen, PutValue, PutOctets
  <2>2. c \in Seq(Byte) /\ n \in Nat
    BY <1>3, LenProperties
  <2>3. n <= MaxDatagram
    <3>1. TlvLen(n) <= MaxDatagram /\ TlvLen(n) \in Nat /\ TlvLen(n) >= n + 2
      BY <2>1, <2>2, TlvLenIs
    <3>2. MaxDatagram \in Nat
      BY SMT DEF MaxDatagram
    <3> HIDE DEF n
    <3> QED BY <2>2, <3>1, <3>2
  <2> HIDE DEF c
  <2>4. Header(OCTETS, n) \o c = Wrap(FALSE, OCTETS, c) /\ Wrap(FALSE, OCTETS, c) \in Seq(Byte)
    BY <2>2, <2>3, HeaderIs, WrapBytes, Types
  <2> QED BY <2>1, <2>4
<1> QED BY <1>1, <1>2, <1>3, ValueIs

\* Every length that snmp_build_response() computes is that of what it measures.
ReplyLensAre(req, status, index, oid, value) ==
  LET v == ReplyValue(status, value)
      binding == BindingBody(oid, v)
      list == ListBody(FALSE, oid, v)
      pdu == PduBody(FALSE, req, status, index, oid, v)
      body == Body(FALSE, req, RESPONSE, status, index, oid, v)
  IN  /\ Len(binding) = BindingLen(oid, status, value)
      /\ Len(list) = TlvLen(BindingLen(oid, status, value))
      /\ Len(pdu) = PduLen(req, oid, status, index, value)
      /\ Len(body) = MsgLen(req, oid, status, index, value)
      /\ Len(Message(FALSE, req, RESPONSE, status, index, oid, v))
           = TlvLen(MsgLen(req, oid, status, index, value))
      /\ ValueTlvLen(status, value)
           <= TlvLen(MsgLen(req, oid, status, index, value))
      /\ ValueTlvLen(status, value) \in Nat
      /\ TlvLen(MsgLen(req, oid, status, index, value)) \in Nat

LEMMA ReplyTakes ==
  ASSUME NEW req, IsAsker(req), NEW status \in Int32s, NEW index \in Int32s,
         NEW oid \in Seq(Byte), NEW value, IsValue(value)
  PROVE  ReplyLensAre(req, status, index, oid, value)
<1> DEFINE v == ReplyValue(status, value)
           binding == BindingBody(oid, v)
           list == ListBody(FALSE, oid, v)
           pdu == PduBody(FALSE, req, status, index, oid, v)
           body == Body(FALSE, req, RESPONSE, status, index, oid, v)
           msg == Message(FALSE, req, RESPONSE, status, index, oid, v)
<1>1. v \in Seq(Nat) /\ Len(v) = ValueTlvLen(status, value)
  BY ValueTakes
<1>2. FALSE \in BOOLEAN /\ RESPONSE \in Byte /\ \A n : Taken(FALSE, n) = TlvLen(n)
  BY Types DEF Taken
<1> HIDE DEF v
<1>3. LensAre(FALSE, req, RESPONSE, status, index, oid, v)
  BY Zenon, <1>1, <1>2, MessageTakes
<1>4. /\ Len(v) \in Nat /\ Len(oid) \in Nat /\ Len(req.community) \in Nat
      /\ Len(binding) \in Nat /\ Len(binding) = TlvLen(Len(oid)) + Len(v)
      /\ Len(list) \in Nat /\ Len(list) = Taken(FALSE, Len(binding))
      /\ Len(pdu) \in Nat
      /\ Len(pdu) = IntTlvLen(req.id) + IntTlvLen(status) + IntTlvLen(index)
                      + Taken(FALSE, Len(list))
      /\ Len(body) \in Nat
      /\ Len(body) = IntTlvLen(req.version) + TlvLen(Len(req.community))
                       + Taken(FALSE, Len(pdu))
      /\ Len(msg) = Taken(FALSE, Len(body))
  BY <1>3 DEF LensAre
<1> HIDE DEF binding, list, pdu, body, msg
<1>5. Len(binding) = BindingLen(oid, status, value)
  BY <1>1, <1>4 DEF BindingLen
<1>6. Len(list) = TlvLen(BindingLen(oid, status, value))
  BY <1>2, <1>4, <1>5
<1>7. Len(pdu) = PduLen(req, oid, status, index, value)
  BY <1>2, <1>4, <1>6 DEF PduLen
<1>8. Len(body) = MsgLen(req, oid, status, index, value)
  BY <1>2, <1>4, <1>7 DEF MsgLen
<1>9. Len(msg) = TlvLen(MsgLen(req, oid, status, index, value))
  BY <1>2, <1>4, <1>8
<1>10. Len(v) <= Len(msg) /\ Len(msg) \in Nat
  <2> DEFINE ov == Len(oid)
             cv == Len(req.community)
             vv == Len(v)
             bv == Len(binding)
             lv == Len(list)
             pv == Len(pdu)
             mv == Len(body)
  <2>1. \A n \in Nat : TlvLen(n) \in Nat /\ TlvLen(n) >= n
    <3> TAKE n \in Nat
    <3>1. TlvLen(n) \in Nat /\ TlvLen(n) >= n + 2
      BY TlvLenIs
    <3> QED BY <3>1
  <2>2. /\ IntTlvLen(req.id) \in Nat /\ IntTlvLen(status) \in Nat /\ IntTlvLen(index) \in Nat
        /\ IntTlvLen(req.version) \in Nat
    BY PutsInt DEF IsAsker
  <2>3. /\ ov \in Nat /\ cv \in Nat /\ vv \in Nat /\ bv \in Nat /\ lv \in Nat /\ pv \in Nat
        /\ mv \in Nat
        /\ bv = TlvLen(ov) + vv /\ lv = TlvLen(bv)
        /\ pv = IntTlvLen(req.id) + IntTlvLen(status) + IntTlvLen(index) + TlvLen(lv)
        /\ mv = IntTlvLen(req.version) + TlvLen(cv) + TlvLen(pv)
        /\ Len(msg) = TlvLen(mv)
    BY <1>2, <1>4
  <2> HIDE DEF ov, cv, vv, bv, lv, pv, mv
  <2>4. /\ TlvLen(ov) \in Nat /\ TlvLen(cv) \in Nat
        /\ TlvLen(bv) \in Nat /\ TlvLen(bv) >= bv /\ TlvLen(lv) \in Nat /\ TlvLen(lv) >= lv
        /\ TlvLen(pv) \in Nat /\ TlvLen(pv) >= pv /\ TlvLen(mv) \in Nat /\ TlvLen(mv) >= mv
    BY <2>1, <2>3
  <2>5. \A a, b, c, d, e \in Nat : a + b >= b /\ a + b + c >= c /\ a + b + c + d >= d
    OBVIOUS
  <2>6. \A a, b, c \in Nat : a >= b /\ b >= c => a >= c
    OBVIOUS
  <2>7. vv <= TlvLen(mv)
    <3>1. bv >= vv /\ lv >= bv /\ pv >= TlvLen(lv) /\ mv >= TlvLen(pv)
      BY Zenon, <2>2, <2>3, <2>4, <2>5
    <3>2. lv >= vv
      BY Zenon, <2>3, <2>6, <3>1
    <3>3. TlvLen(lv) >= vv
      BY Zenon, <2>3, <2>4, <2>6, <3>2
    <3>4. pv >= vv
      BY Zenon, <2>3, <2>4, <2>6, <3>1, <3>3
    <3>5. TlvLen(pv) >= vv
      BY Zenon, <2>3, <2>4, <2>6, <3>4
    <3>6. mv >= vv
      BY Zenon, <2>3, <2>4, <2>6, <3>1, <3>5
    <3>7. TlvLen(mv) >= vv
      BY Zenon, <2>3, <2>4, <2>6, <3>6
    <3> QED BY <2>3, <2>4, <3>7
  <2> QED BY <2>3, <2>4, <2>7 DEF vv
<1> QED BY <1>1, <1>4, <1>5, <1>6, <1>7, <1>8, <1>9, <1>10
        DEF v, binding, list, pdu, body, msg, ReplyLensAre

\* All parts of an answer that fits a datagram are bytes that a length can tell.
LEMMA AnswerFits ==
  ASSUME NEW req, IsAsker(req), NEW status \in Int32s, NEW index \in Int32s,
         NEW oid \in Seq(Byte), NEW value, IsValue(value),
         TlvLen(MsgLen(req, oid, status, index, value)) <= MaxDatagram
  PROVE  LET v == ReplyValue(status, value)
         IN  /\ v \in Seq(Byte) /\ PutValue(status, value) = v
             /\ Len(Message(FALSE, req, RESPONSE, status, index, oid, v)) <= MaxDatagram
<1> DEFINE v == ReplyValue(status, value)
           m == TlvLen(MsgLen(req, oid, status, index, value))
           n == ValueTlvLen(status, value)
<1>1. /\ Len(Message(FALSE, req, RESPONSE, status, index, oid, v)) = m
      /\ n <= m /\ n \in Nat /\ m \in Nat
  <2>1. ReplyLensAre(req, status, index, oid, value)
    BY ReplyTakes
  <2> QED BY <2>1 DEF ReplyLensAre
<1> HIDE DEF m, n
<1>2. n <= MaxDatagram
  <2>1. m <= MaxDatagram
    BY DEF m
  <2>2. MaxDatagram \in Nat
    BY SMT DEF MaxDatagram
  <2>3. \A a, b \in Nat : a <= b /\ b <= MaxDatagram => a <= MaxDatagram
    BY <2>2
  <2> QED BY Zenon, <1>1, <2>1, <2>3
<1>3. v \in Seq(Byte) /\ PutValue(status, value) = v
  BY <1>2, PutsValue DEF n
<1> QED BY <1>1, <1>3 DEF m

\* snmp_build_response() writes the standard's encoding, and writes as much as it
\* computed.
IsWritten(req, status, index, oid, value) ==
  /\ Written(req, oid, status, index, value) =
       Message(FALSE, req, RESPONSE, status, index, oid, ReplyValue(status, value))
  /\ Len(Written(req, oid, status, index, value))
       = TlvLen(MsgLen(req, oid, status, index, value))

LEMMA WrittenIs ==
  ASSUME NEW req, IsAsker(req), NEW status \in Int32s, NEW index \in Int32s,
         NEW oid \in Seq(Byte), NEW value, IsValue(value),
         TlvLen(MsgLen(req, oid, status, index, value)) <= MaxDatagram
  PROVE  IsWritten(req, status, index, oid, value)
<1> DEFINE v == ReplyValue(status, value)
           binding == BindingBody(oid, v)
           list == ListBody(FALSE, oid, v)
           pdu == PduBody(FALSE, req, status, index, oid, v)
           body == Body(FALSE, req, RESPONSE, status, index, oid, v)
           msg == Message(FALSE, req, RESPONSE, status, index, oid, v)
           wlist == Wrap(FALSE, SEQUENCE, list)
           wpdu == Wrap(FALSE, RESPONSE, pdu)
           o == Tlv(OID, oid)
           c == Tlv(OCTETS, req.community)
           i1 == Signed(req.id)
           i2 == Signed(status)
           i3 == Signed(index)
           i4 == Signed(req.version)
           h1 == Header(SEQUENCE, MsgLen(req, oid, status, index, value))
           h2 == Header(RESPONSE, PduLen(req, oid, status, index, value))
           h3 == Header(SEQUENCE, TlvLen(BindingLen(oid, status, value)))
           h4 == Header(SEQUENCE, BindingLen(oid, status, value))
<1>1. req.community \in Seq(Byte) /\ req.version \in Int32s /\ req.id \in Int32s
  BY DEF IsAsker
<1>2. /\ v \in Seq(Byte) /\ PutValue(status, value) = v
      /\ Len(msg) <= MaxDatagram
  BY AnswerFits
<1>3. /\ Len(binding) = BindingLen(oid, status, value)
      /\ Len(list) = TlvLen(BindingLen(oid, status, value))
      /\ Len(pdu) = PduLen(req, oid, status, index, value)
      /\ Len(body) = MsgLen(req, oid, status, index, value)
      /\ Len(msg) = TlvLen(MsgLen(req, oid, status, index, value))
  <2>1. ReplyLensAre(req, status, index, oid, value)
    BY ReplyTakes
  <2> QED BY <2>1 DEF ReplyLensAre
<1> HIDE DEF v
<1>4. FALSE \in BOOLEAN /\ RESPONSE \in Byte /\ SEQUENCE \in Byte
  BY Types
<1>5. /\ Len(oid) <= MaxDatagram /\ o \in Seq(Byte)
      /\ Len(req.community) <= MaxDatagram /\ c \in Seq(Byte)
      /\ binding \in Seq(Byte) /\ Len(binding) <= MaxDatagram
      /\ list \in Seq(Byte) /\ Len(list) <= MaxDatagram
      /\ wlist \in Seq(Byte)
      /\ pdu \in Seq(Byte) /\ Len(pdu) <= MaxDatagram
      /\ wpdu \in Seq(Byte)
      /\ body \in Seq(Byte) /\ Len(body) <= MaxDatagram
  <2>1. PartsAreBytes(FALSE, req, RESPONSE, status, index, oid, v)
    BY Zenon, <1>2, <1>4, PartsFit
  <2> QED BY Zenon, <2>1 DEF PartsAreBytes
<1>6. /\ binding = o \o v
      /\ list = Wrap(FALSE, SEQUENCE, binding)
      /\ pdu = i1 \o i2 \o i3 \o wlist
      /\ body = i4 \o c \o wpdu
      /\ msg = Wrap(FALSE, SEQUENCE, body)
      /\ o = Wrap(FALSE, OID, oid) /\ c = Wrap(FALSE, OCTETS, req.community)
  BY MessageIs, TlvIsWrap DEF BindingBody, ListBody, PduBody, Body
<1> HIDE DEF binding, list, pdu, body, msg
<1>7. /\ h1 \in Seq(Byte) /\ h1 \o body = msg
      /\ h2 \in Seq(Byte) /\ h2 \o pdu = wpdu
      /\ h3 \in Seq(Byte) /\ h3 \o list = wlist
      /\ h4 \in Seq(Byte) /\ h4 \o binding = list
  <2>1. \A type \in Byte, s \in Seq(Byte) :
          Len(s) <= MaxDatagram =>
            /\ Header(type, Len(s)) \in Seq(Byte)
            /\ Header(type, Len(s)) \o s = Wrap(FALSE, type, s)
    BY HeaderIs
  <2>2. /\ h1 = Header(SEQUENCE, Len(body)) /\ h2 = Header(RESPONSE, Len(pdu))
        /\ h3 = Header(SEQUENCE, Len(list)) /\ h4 = Header(SEQUENCE, Len(binding))
    BY <1>3
  <2> HIDE DEF h1, h2, h3, h4
  <2> QED BY Zenon, <1>4, <1>5, <1>6, <2>1, <2>2
<1>8. /\ PutInt32(req.version) = i4 /\ PutInt32(req.id) = i1
      /\ PutInt32(status) = i2 /\ PutInt32(index) = i3
      /\ i1 \in Seq(Byte) /\ i2 \in Seq(Byte) /\ i3 \in Seq(Byte) /\ i4 \in Seq(Byte)
  BY <1>1, PutsInt
<1>9. PutOctets(req.community) = c /\ PutOid(oid) = o
  BY <1>1, <1>5, <1>6, HeaderIs, Types DEF PutOctets, PutOid
<1>10. Written(req, oid, status, index, value) =
         h1 \o i4 \o c \o h2 \o i1 \o i2 \o i3 \o h3 \o h4 \o o \o v
  BY <1>2, <1>8, <1>9 DEF Written
<1> HIDE DEF h1, h2, h3, h4, i1, i2, i3, i4, o, c, wlist, wpdu
<1> DEFINE p2 == h1 \o i4
           p3 == p2 \o c
           p4 == p3 \o h2
           p5 == p4 \o i1
           p6 == p5 \o i2
           p7 == p6 \o i3
           p8 == p7 \o h3
           p9 == p8 \o h4
           i12 == i1 \o i2
           i123 == i12 \o i3
           vc == i4 \o c
<1>11. /\ p2 \in Seq(Byte) /\ p3 \in Seq(Byte) /\ p4 \in Seq(Byte) /\ p5 \in Seq(Byte)
       /\ p6 \in Seq(Byte) /\ p7 \in Seq(Byte) /\ p8 \in Seq(Byte) /\ p9 \in Seq(Byte)
       /\ i12 \in Seq(Byte) /\ i123 \in Seq(Byte) /\ vc \in Seq(Byte)
  <2>1. \A s, t \in Seq(Byte) : s \o t \in Seq(Byte)
    BY ConcatProperties
  <2>2. p2 \in Seq(Byte)
    BY <1>7, <1>8, <2>1
  <2> HIDE DEF p2
  <2>3. p3 \in Seq(Byte)
    BY <1>5, <2>1, <2>2
  <2> HIDE DEF p3
  <2>4. p4 \in Seq(Byte)
    BY <1>7, <2>1, <2>3
  <2> HIDE DEF p4
  <2>5. p5 \in Seq(Byte)
    BY <1>8, <2>1, <2>4
  <2> HIDE DEF p5
  <2>6. p6 \in Seq(Byte)
    BY <1>8, <2>1, <2>5
  <2> HIDE DEF p6
  <2>7. p7 \in Seq(Byte)
    BY <1>8, <2>1, <2>6
  <2> HIDE DEF p7
  <2>8. p8 \in Seq(Byte)
    BY <1>7, <2>1, <2>7
  <2> HIDE DEF p8
  <2>9. p9 \in Seq(Byte)
    BY <1>7, <2>1, <2>8
  <2>10. i12 \in Seq(Byte) /\ vc \in Seq(Byte)
    BY <1>5, <1>8, <2>1
  <2> HIDE DEF i12
  <2>11. i123 \in Seq(Byte)
    BY <1>8, <2>1, <2>10
  <2> QED BY <2>2, <2>3, <2>4, <2>5, <2>6, <2>7, <2>8, <2>9, <2>10, <2>11
<1>12. Written(req, oid, status, index, value) = Cat(Cat(p9, o), v)
  BY <1>10 DEF Cat
<1>13. /\ p9 = Cat(p8, h4) /\ p8 = Cat(p7, h3) /\ p7 = Cat(p6, i3) /\ p6 = Cat(p5, i2)
       /\ p5 = Cat(p4, i1) /\ p4 = Cat(p3, h2) /\ p3 = Cat(p2, c) /\ p2 = Cat(h1, i4)
       /\ pdu = Cat(i123, wlist) /\ i123 = Cat(i12, i3) /\ i12 = Cat(i1, i2)
       /\ body = Cat(vc, wpdu) /\ vc = Cat(i4, c) /\ binding = Cat(o, v)
       /\ msg = Cat(h1, body) /\ wpdu = Cat(h2, pdu) /\ wlist = Cat(h3, list)
       /\ list = Cat(h4, binding)
  BY <1>6, <1>7 DEF Cat
<1> HIDE DEF p2, p3, p4, p5, p6, p7, p8, p9, i12, i123, vc
<1>14. Cat(Cat(p9, o), v) = Cat(p9, binding)
  <2>1. p9 \in Seq(Byte) /\ o \in Seq(Byte) /\ v \in Seq(Byte)
    BY <1>2, <1>5, <1>11
  <2>2. binding = Cat(o, v)
    BY <1>13
  <2> QED BY Zenon, <2>1, <2>2, CatAssoc
<1>15. Cat(p9, binding) = Cat(p8, list)
  <2>1. p8 \in Seq(Byte) /\ h4 \in Seq(Byte) /\ binding \in Seq(Byte)
    BY <1>2, <1>5, <1>7, <1>8, <1>11
  <2>2. p9 = Cat(p8, h4) /\ list = Cat(h4, binding)
    BY <1>13
  <2> QED BY Zenon, <2>1, <2>2, CatAssoc
<1>16. Cat(p8, list) = Cat(p7, wlist)
  <2>1. p7 \in Seq(Byte) /\ h3 \in Seq(Byte) /\ list \in Seq(Byte)
    BY <1>2, <1>5, <1>7, <1>8, <1>11
  <2>2. p8 = Cat(p7, h3) /\ wlist = Cat(h3, list)
    BY <1>13
  <2> QED BY Zenon, <2>1, <2>2, CatAssoc
<1>17. Cat(p5, i2) = Cat(p4, i12)
  <2>1. p4 \in Seq(Byte) /\ i1 \in Seq(Byte) /\ i2 \in Seq(Byte)
    BY <1>2, <1>5, <1>7, <1>8, <1>11
  <2>2. p5 = Cat(p4, i1) /\ i12 = Cat(i1, i2)
    BY <1>13
  <2> QED BY Zenon, <2>1, <2>2, CatAssoc
<1>18. p6 = Cat(p4, i12)
  BY <1>13, <1>17
<1>19. Cat(p6, i3) = Cat(p4, i123)
  <2>1. p4 \in Seq(Byte) /\ i12 \in Seq(Byte) /\ i3 \in Seq(Byte)
    BY <1>8, <1>11
  <2>2. i123 = Cat(i12, i3)
    BY <1>13
  <2> QED BY Zenon, <1>18, <2>1, <2>2, CatAssoc
<1>20. Cat(p7, wlist) = Cat(p4, pdu)
  <2>1. p4 \in Seq(Byte) /\ i123 \in Seq(Byte) /\ wlist \in Seq(Byte)
    BY <1>5, <1>11
  <2>2. p7 = Cat(p4, i123) /\ pdu = Cat(i123, wlist)
    BY <1>13, <1>19
  <2> QED BY Zenon, <2>1, <2>2, CatAssoc
<1>21. Cat(p4, pdu) = Cat(p3, wpdu)
  <2>1. p3 \in Seq(Byte) /\ h2 \in Seq(Byte) /\ pdu \in Seq(Byte)
    BY <1>2, <1>5, <1>7, <1>8, <1>11
  <2>2. p4 = Cat(p3, h2) /\ wpdu = Cat(h2, pdu)
    BY <1>13
  <2> QED BY Zenon, <2>1, <2>2, CatAssoc
<1>22. Cat(p2, c) = Cat(h1, vc)
  <2>1. h1 \in Seq(Byte) /\ i4 \in Seq(Byte) /\ c \in Seq(Byte)
    BY <1>2, <1>5, <1>7, <1>8, <1>11
  <2>2. p2 = Cat(h1, i4) /\ vc = Cat(i4, c)
    BY <1>13
  <2> QED BY Zenon, <2>1, <2>2, CatAssoc
<1>23. Cat(p3, wpdu) = Cat(h1, body)
  <2>1. h1 \in Seq(Byte) /\ vc \in Seq(Byte) /\ wpdu \in Seq(Byte)
    BY <1>5, <1>7, <1>11
  <2>2. p3 = Cat(h1, vc) /\ body = Cat(vc, wpdu)
    BY <1>13, <1>22
  <2> QED BY Zenon, <2>1, <2>2, CatAssoc
<1>24. Written(req, oid, status, index, value) = msg
  <2>1. Cat(h1, body) = msg
    BY <1>13
  <2>2. Cat(p9, binding) = Cat(h1, body)
    BY Zenon, <1>15, <1>16, <1>20, <1>21, <1>23
  <2> QED BY Zenon, <1>12, <1>14, <2>1, <2>2
<1> QED BY <1>3, <1>24 DEF msg, v, IsWritten

\* What snmp_build_response() returns, when it does.
LEMMA Builds ==
  ASSUME NEW req, IsAsker(req), NEW status \in Int32s, NEW index \in Int32s,
         NEW oid \in Seq(Byte), NEW value, IsValue(value)
  PROVE  /\ BuildResponse(req, oid, status, index, value) \subseteq
              {Message(FALSE, req, RESPONSE, status, index, oid, ReplyValue(status, value))}
         /\ oid # <<>> /\ TlvLen(MsgLen(req, oid, status, index, value)) <= BufSize =>
              BuildResponse(req, oid, status, index, value) # {}
<1> DEFINE m == TlvLen(MsgLen(req, oid, status, index, value))
           w == Written(req, oid, status, index, value)
           msg == Message(FALSE, req, RESPONSE, status, index, oid, ReplyValue(status, value))
<1>1. m \in Nat
  <2>1. ReplyLensAre(req, status, index, oid, value)
    BY ReplyTakes
  <2> QED BY <2>1 DEF ReplyLensAre
<1>2. ASSUME m <= MaxDatagram
      PROVE  w = msg /\ Len(w) = m
  <2>1. IsWritten(req, status, index, oid, value)
    BY Zenon, <1>2, WrittenIs
  <2> QED BY <2>1 DEF IsWritten
<1>3. BuildResponse(req, oid, status, index, value) =
        IF oid = <<>> \/ m > BufSize \/ Len(w) > BufSize THEN {} ELSE {w}
  BY DEF BuildResponse
<1>4. BufSize \in Nat /\ m <= BufSize => m <= MaxDatagram
  <2>1. BufSize \in Nat /\ BufSize <= MaxDatagram
    BY CodecAssumption
  <2>2. MaxDatagram \in Nat
    BY SMT DEF MaxDatagram
  <2>3. \A a, b, c \in Nat : a <= b /\ b <= c => a <= c
    OBVIOUS
  <2> QED BY Zenon, <1>1, <2>1, <2>2, <2>3
<1> HIDE DEF m, w, msg
<1>5. BufSize \in Nat
  BY CodecAssumption
<1>6. m <= BufSize \/ m > BufSize
  BY <1>1, <1>5
<1>7. m <= BufSize => ~(m > BufSize)
  BY <1>1, <1>5
<1>8. BuildResponse(req, oid, status, index, value) \subseteq {msg}
  BY <1>2, <1>3, <1>4, <1>5, <1>6
<1>9. oid # <<>> /\ m <= BufSize => BuildResponse(req, oid, status, index, value) # {}
  BY <1>2, <1>3, <1>4, <1>5, <1>7
<1> QED BY <1>8, <1>9 DEF m, msg

\* What is answered: a request as it was sent, and an object of the table if any.
LEMMA DecodedIs ==
  ASSUME Receives, NEW req \in Decode(Arrived)
  PROVE  /\ \E long \in BOOLEAN : /\ sent.bytes = Datagram(sent.ask, long)
                                  /\ Len(sent.bytes) <= MaxDatagram
         /\ sent.ask \in Requests /\ sent.ask \in Asks
         /\ Len(sent.bytes) = received /\ received <= BufSize
         /\ req.version = sent.ask.version /\ req.community = sent.ask.community
         /\ req.pdu = sent.ask.pdu /\ req.id = sent.ask.id /\ req.oid = Ber(sent.ask.oid)
         /\ req.oid \in Seq(Byte) /\ IsAsker(req)
<1>1. PICK ask \in Requests, long \in BOOLEAN :
        sent = [ask |-> ask, bytes |-> Datagram(ask, long)]
  BY DEF Receives
<1>2. ask \in Asks /\ Len(Datagram(ask, long)) <= MaxDatagram
  BY CodecAssumption
<1>3. sent.ask = ask /\ sent.bytes = Datagram(ask, long)
  BY <1>1
<1>4. received = Len(sent.bytes) /\ req = [ask EXCEPT !.oid = Ber(@)]
  BY <1>3, DecodesIt DEF DecodesWhatWasAsked
<1>5. received <= BufSize
  BY DEF Receives
<1>6. req = [version |-> ask.version, community |-> ask.community, pdu |-> ask.pdu,
             id |-> ask.id, oid |-> Ber(ask.oid)]
  BY <1>2, <1>4, AskIs
<1>7. Ber(ask.oid) \in Seq(Byte) /\ IsAsker(ask)
  BY <1>2, AskIs
<1> QED BY <1>2, <1>3, <1>4, <1>5, <1>6, <1>7 DEF IsAsker

LEMMA FoundIs ==
  ASSUME NEW req
  PROVE  Found(req) = 0 \/ Found(req) \in Agent!Entries
<1>1. ASSUME NEW S, S \subseteq Agent!Entries
      PROVE  Agent!FirstOf(S) = 0 \/ Agent!FirstOf(S) \in Agent!Entries
  <2>1. CASE S = {}
    BY <2>1 DEF Agent!FirstOf
  <2>2. CASE S # {}
    <3>1. S \in SUBSET Nat
      BY <1>1, RowsAreSmall
    <3>2. Agent!FirstOf(S) \in S
      BY <2>2, <3>1, FirstIs
    <3> QED BY <1>1, <3>2
  <2> QED BY <2>1, <2>2
<1>2. Agent!LookupExact(req.oid) = 0 \/ Agent!LookupExact(req.oid) \in Agent!Entries
  BY <1>1 DEF Agent!LookupExact
<1>3. Agent!LookupNext(req.oid) = 0 \/ Agent!LookupNext(req.oid) \in Agent!Entries
  BY <1>1 DEF Agent!LookupNext
<1> QED BY <1>2, <1>3 DEF Found

LEMMA AnswersBer ==
  ASSUME Receives, NEW req \in Decode(Arrived), NEW answer \in Answers(req)
  PROVE  \/ \E i \in Agent!Entries, value \in Values :
              answer = Message(FALSE, sent.ask, RESPONSE, 0, 0, k_oid_table[i],
                               IF IsInt(value) THEN Signed(value.int32)
                               ELSE Tlv(OCTETS, value.octets))
         \/ answer = Message(FALSE, sent.ask, RESPONSE, NOSUCHNAME, 1, Ber(sent.ask.oid),
                             Tlv(NULL, <<>>))
<1> DEFINE found == Found(req)
<1>1. /\ req.version = sent.ask.version /\ req.community = sent.ask.community
      /\ req.id = sent.ask.id /\ req.oid = Ber(sent.ask.oid) /\ req.oid \in Seq(Byte)
      /\ IsAsker(req)
  BY DecodedIs
<1>2. ASSUME NEW status, NEW index, NEW oid, NEW v
      PROVE  Message(FALSE, req, RESPONSE, status, index, oid, v)
               = Message(FALSE, sent.ask, RESPONSE, status, index, oid, v)
  BY <1>1 DEF Message
<1>3. 0 \in Int32s /\ 1 \in Int32s /\ 2 \in Int32s
  BY SmallInts
<1>4. CASE found # 0
  <2>1. PICK value \in Values : answer \in BuildResponse(req, k_oid_table[found], NOERROR, 0, value)
    BY <1>4 DEF Answers
  <2>2. found \in Agent!Entries
    BY <1>4, FoundIs
  <2>3. k_oid_table[found] \in Seq(Byte)
    BY <2>2, RowsAreSmall, SmallOids
  <2>4. IsValue(value)
    BY CodecAssumption DEF IsValue
  <2>5. answer = Message(FALSE, req, RESPONSE, 0, 0, k_oid_table[found], ReplyValue(0, value))
    <3>1. BuildResponse(req, k_oid_table[found], 0, 0, value) \subseteq
            {Message(FALSE, req, RESPONSE, 0, 0, k_oid_table[found], ReplyValue(0, value))}
      BY <1>1, <1>3, <2>3, <2>4, Builds
    <3> QED BY <2>1, <3>1 DEF NOERROR
  <2>6. ReplyValue(0, value) = IF IsInt(value) THEN Signed(value.int32)
                               ELSE Tlv(OCTETS, value.octets)
    BY DEF ReplyValue, NOERROR
  <2> DEFINE v(x) == IF IsInt(x) THEN Signed(x.int32) ELSE Tlv(OCTETS, x.octets)
  <2>7. answer = Message(FALSE, sent.ask, RESPONSE, 0, 0, k_oid_table[found], v(value))
    BY <1>2, <2>5, <2>6
  <2> HIDE DEF v, found
  <2>8. \E i \in Agent!Entries, x \in Values :
          answer = Message(FALSE, sent.ask, RESPONSE, 0, 0, k_oid_table[i], v(x))
    BY <2>2, <2>7
  <2> QED BY Zenon, <2>8 DEF v
<1>5. CASE found = 0
  <2>1. answer \in BuildResponse(req, req.oid, NOSUCHNAME, 1, Int32(0))
    BY <1>5 DEF Answers
  <2>2. IsValue(Int32(0))
    BY <1>3 DEF IsValue, Int32
  <2>3. answer = Message(FALSE, req, RESPONSE, 2, 1, req.oid, ReplyValue(2, Int32(0)))
    <3>1. BuildResponse(req, req.oid, 2, 1, Int32(0)) \subseteq
            {Message(FALSE, req, RESPONSE, 2, 1, req.oid, ReplyValue(2, Int32(0)))}
      BY <1>1, <1>3, <2>2, Builds
    <3> QED BY <2>1, <3>1 DEF NOSUCHNAME
  <2>4. ReplyValue(2, Int32(0)) = Tlv(NULL, <<>>)
    BY DEF ReplyValue, NOERROR
  <2>5. answer = Message(FALSE, sent.ask, RESPONSE, 2, 1, Ber(sent.ask.oid), Tlv(NULL, <<>>))
    <3>1. answer = Message(FALSE, req, RESPONSE, 2, 1, Ber(sent.ask.oid), Tlv(NULL, <<>>))
      BY <1>1, <2>3, <2>4
    <3> QED BY <1>2, <3>1
  <2> QED BY Zenon, <2>5 DEF NOSUCHNAME
<1> QED BY <1>4, <1>5

\* The answer is the standard's encoding of an object's OID and value, or of an error:
\* every length that snmp_build_response() writes before what it measures is right,
\* and snmp_write_int32() leaves out the bytes it should.
THEOREM ReplyIsBerAlways == Spec => []ReplyIsBer
<1>1. Init => Receives /\ ReplyIsBer
  BY ReceivesInductive DEF Init, ReplyIsBer
<1>2. Receives /\ ReplyIsBer /\ [Next]_vars => Receives' /\ ReplyIsBer'
  <2> SUFFICES ASSUME Receives, ReplyIsBer, [Next]_vars PROVE ReplyIsBer'
    BY ReceivesInductive
  <2>1. CASE ByteArrives
    BY <2>1 DEF ByteArrives, ReplyIsBer
  <2>2. CASE Answer
    <3>1. PICK req \in Decode(Arrived) : reply' \in Answers(req)
      BY <2>2 DEF Answer
    <3>2. sent' = sent
      BY <2>2 DEF Answer
    <3> QED BY <3>1, <3>2, AnswersBer DEF ReplyIsBer
  <2>3. CASE UNCHANGED vars
    BY <2>3 DEF vars, ReplyIsBer
  <2> QED BY <2>1, <2>2, <2>3 DEF Next
<1> QED BY <1>1, <1>2, PTL DEF Spec

----------------------------------------------------------------------------
(* That there is an answer.                                                *)

\* An error is not longer than the request it answers.
LEMMA ErrorFits ==
  ASSUME Receives, NEW req \in Decode(Arrived)
  PROVE  TlvLen(MsgLen(req, req.oid, NOSUCHNAME, 1, Int32(0))) <= BufSize
<1> DEFINE ask == sent.ask
           b == Ber(ask.oid)
           v == Tlv(NULL, <<>>)
<1>1. PICK long \in BOOLEAN : sent.bytes = Datagram(ask, long)
  BY DecodedIs
<1>2. /\ ask \in Asks /\ Len(sent.bytes) <= BufSize
      /\ req.version = ask.version /\ req.community = ask.community
      /\ req.id = ask.id /\ req.oid = b /\ req.oid \in Seq(Byte)
  BY DecodedIs
<1>3. /\ IsAsker(ask) /\ ask.pdu \in Byte /\ 0 \in Int32s
      /\ v \in Seq(Byte) /\ v \in Seq(Nat) /\ Len(v) = 2
  BY <1>2, AskIs, Types, NullIs, BytesAreNumbers
<1>4. sent.bytes = Message(long, ask, ask.pdu, 0, 0, b, v)
  BY <1>1 DEF Datagram
<1> HIDE DEF ask, b, v
<1>5. LensAre(long, ask, ask.pdu, 0, 0, b, v)
  <2>1. b \in Seq(Byte)
    BY <1>2
  <2> QED BY Zenon, <1>3, <2>1, MessageTakes
<1> DEFINE nb == Len(BindingBody(b, v))
           nl == Len(ListBody(long, b, v))
           np == Len(PduBody(long, ask, 0, 0, b, v))
           nm == Len(Body(long, ask, ask.pdu, 0, 0, b, v))
           nd == Len(sent.bytes)
           lo == TlvLen(Len(b))
           lc == TlvLen(Len(ask.community))
           lid == IntTlvLen(ask.id)
           lv == IntTlvLen(ask.version)
           tb == Taken(long, nb)
           tl == Taken(long, nl)
           tp == Taken(long, np)
           tm == Taken(long, nm)
           rb == lo + 2
           rl == TlvLen(rb)
           rp == lid + 3 + 3 + TlvLen(rl)
           rm == lv + lc + TlvLen(rp)
<1>6. /\ nb \in Nat /\ nb = lo + 2 /\ nl \in Nat /\ nl = tb
      /\ np \in Nat /\ np = lid + 3 + 3 + tl
      /\ nm \in Nat /\ nm = lv + lc + tp /\ nd = tm
  <2>1. IntTlvLen(0) = 3
    BY SmallInts
  <2> QED BY <1>3, <1>4, <1>5, <2>1 DEF LensAre
<1>7. lo \in Nat /\ lc \in Nat /\ lid \in Nat /\ lv \in Nat
  <2>1. Len(b) \in Nat /\ Len(ask.community) \in Nat
    BY <1>5 DEF LensAre
  <2>2. ask.id \in Int32s /\ ask.version \in Int32s
    BY <1>3 DEF IsAsker
  <2>3. IntTlvLen(ask.id) \in 3 .. 6 /\ IntTlvLen(ask.version) \in 3 .. 6
    BY <2>2, PutsInt
  <2>4. lo \in Nat /\ lc \in Nat
    BY <2>1, TlvLenIs
  <2> QED BY <2>3, <2>4
<1>8. TlvLen(MsgLen(req, req.oid, NOSUCHNAME, 1, Int32(0))) = TlvLen(rm)
  <2>1. IntTlvLen(1) = 3 /\ IntTlvLen(2) = 3
    BY SmallInts
  <2>2. ValueTlvLen(2, Int32(0)) = 2
    BY DEF ValueTlvLen, NOERROR
  <2>3. BindingLen(req.oid, 2, Int32(0)) = rb
    BY <1>2, <2>2 DEF BindingLen
  <2>4. PduLen(req, req.oid, 2, 1, Int32(0)) = rp
    BY <1>2, <2>1, <2>3 DEF PduLen
  <2>5. MsgLen(req, req.oid, 2, 1, Int32(0)) = rm
    BY <1>2, <2>4 DEF MsgLen
  <2> QED BY <2>5 DEF NOSUCHNAME
<1> HIDE DEF nb, nl, np, nm, nd, lo, lc, lid, lv
<1>9. \A m, n \in Nat : m <= n => TlvLen(m) <= Taken(long, n) /\ Taken(long, n) \in Nat
  BY TakenGrows
<1>10. \A n \in Nat : TlvLen(n) \in Nat
  BY TlvLenIs
<1>11. rb \in Nat /\ rb <= nb
  BY <1>6, <1>7
<1> HIDE DEF rb
<1>12. rl \in Nat /\ rl <= nl
  BY Zenon, <1>6, <1>9, <1>10, <1>11
<1> HIDE DEF rl, tb
<1>13. TlvLen(rl) \in Nat /\ TlvLen(rl) <= tl /\ tl \in Nat
  BY Zenon, <1>6, <1>9, <1>10, <1>12
<1>14. rp \in Nat /\ rp <= np
  <2> DEFINE t == TlvLen(rl)
  <2>1. t \in Nat /\ t <= tl /\ tl \in Nat /\ rp = lid + 3 + 3 + t
    BY <1>13
  <2> HIDE DEF t, tl, rp
  <2> QED BY <1>6, <1>7, <2>1
<1> HIDE DEF rp, tl
<1>15. TlvLen(rp) \in Nat /\ TlvLen(rp) <= tp /\ tp \in Nat
  BY Zenon, <1>6, <1>9, <1>10, <1>14
<1>16. rm \in Nat /\ rm <= nm
  <2> DEFINE t == TlvLen(rp)
  <2>1. t \in Nat /\ t <= tp /\ tp \in Nat /\ rm = lv + lc + t
    BY <1>15
  <2> HIDE DEF t, tp, rm
  <2> QED BY <1>6, <1>7, <2>1
<1> HIDE DEF rm, tp
<1>17. TlvLen(rm) \in Nat /\ TlvLen(rm) <= nd /\ nd \in Nat
  BY Zenon, <1>6, <1>9, <1>10, <1>16
<1>18. BufSize \in Nat /\ nd <= BufSize
  BY <1>2, CodecAssumption DEF nd
<1> QED BY <1>8, <1>17, <1>18

\* What the agent is built with: communities of at most C bytes (another one than
\* UPS_SNMP_COMMUNITY is not answered) and texts of at most V, and a buffer with room
\* for both and for what else an answer holds.
AnswersFit(C, V) ==
  /\ C \in Nat /\ V \in Nat /\ V >= 2
  /\ \A ask \in Requests : Len(ask.community) <= C
  /\ \A value \in Values : IsInt(value) \/ Len(value.octets) <= V
  /\ C + V + 56 <= BufSize

LEMMA ObjectFits ==
  ASSUME NEW C, NEW V, AnswersFit(C, V), Receives, NEW req \in Decode(Arrived),
         NEW oid \in SmallOid, NEW value \in Values
  PROVE  TlvLen(MsgLen(req, oid, NOERROR, 0, value)) <= BufSize
<1> DEFINE lo == TlvLen(Len(oid))
           lc == TlvLen(Len(req.community))
           lid == IntTlvLen(req.id)
           lv == IntTlvLen(req.version)
           vv == ValueTlvLen(0, value)
           rb == lo + vv
           rl == TlvLen(rb)
           tl == TlvLen(rl)
           rp == lid + 3 + 3 + tl
           tp == TlvLen(rp)
           rm == lv + lc + tp
           tm == TlvLen(rm)
<1>1. C \in Nat /\ V \in Nat /\ V >= 2 /\ C + V + 56 <= BufSize /\ BufSize \in Nat
  BY CodecAssumption DEF AnswersFit
<1>2. IsAsker(req) /\ Len(req.community) <= C /\ Len(req.community) \in Nat
  <2>1. IsAsker(req) /\ sent.ask \in Requests /\ req.community = sent.ask.community
    BY DecodedIs
  <2>2. req.community \in Seq(Byte)
    BY <2>1 DEF IsAsker
  <2> QED BY <2>1, <2>2, LenProperties DEF AnswersFit
<1>3. \A n \in Nat : TlvLen(n) \in Nat /\ TlvLen(n) <= n + 4 /\ (n < 128 => TlvLen(n) = n + 2)
  BY TlvLenIs
<1>4. tm = TlvLen(MsgLen(req, oid, NOERROR, 0, value))
  <2>1. IntTlvLen(0) = 3
    BY SmallInts
  <2>2. rb = BindingLen(oid, NOERROR, value)
    BY DEF BindingLen, NOERROR
  <2> HIDE DEF rb
  <2>3. rp = PduLen(req, oid, NOERROR, 0, value)
    BY <2>1, <2>2 DEF PduLen, NOERROR
  <2> HIDE DEF rp
  <2>4. rm = MsgLen(req, oid, NOERROR, 0, value)
    BY <2>3 DEF MsgLen
  <2> QED BY <2>4
<1>5. lo \in Nat /\ lo <= 14
  <2>1. Len(oid) \in 1 .. 12
    BY SmallOids
  <2> DEFINE n == Len(oid)
  <2>2. n \in Nat /\ n < 128 /\ n + 2 <= 14
    <3>1. n \in 1 .. 12
      BY <2>1
    <3> HIDE DEF n
    <3> QED BY <3>1
  <2>3. lo = Len(oid) + 2 /\ lo \in Nat
    BY <1>3, <2>2
  <2> QED BY <2>2, <2>3
<1>6. lc \in Nat /\ lc <= C + 4
  <2> DEFINE n == Len(req.community)
  <2>1. n \in Nat /\ n <= C
    BY <1>2
  <2> HIDE DEF n
  <2>2. TlvLen(n) \in Nat /\ TlvLen(n) <= n + 4
    BY <1>3, <2>1
  <2>3. TlvLen(n) <= C + 4
    BY <1>1, <2>1, <2>2
  <2> QED BY <2>2, <2>3 DEF n
<1>7. lid \in Nat /\ lid <= 6 /\ lv \in Nat /\ lv <= 6
  <2>1. lid \in 3 .. 6 /\ lv \in 3 .. 6
    BY <1>2, PutsInt DEF IsAsker
  <2> QED BY <2>1
<1>8. vv \in Nat /\ vv <= V + 4
  <2>1. IsValue(value)
    BY CodecAssumption DEF IsValue
  <2>2. CASE IsInt(value) /\ value.int32 \in Int32s
    <3>1. vv = IntTlvLen(value.int32)
      BY <2>2 DEF ValueTlvLen, NOERROR
    <3>2. vv \in 3 .. 6
      BY <2>2, <3>1, PutsInt
    <3> HIDE DEF vv
    <3> QED BY <1>1, <3>2
  <2>3. CASE ~IsInt(value) /\ value.octets \in Seq(Byte)
    <3> DEFINE n == Len(value.octets)
    <3>1. vv = TlvLen(n)
      BY <2>3 DEF ValueTlvLen, NOERROR
    <3>2. n \in Nat
      BY <2>3, LenProperties
    <3>3. n <= V
      BY <2>3 DEF AnswersFit
    <3> HIDE DEF n
    <3>4. TlvLen(n) \in Nat /\ TlvLen(n) <= n + 4
      BY <1>3, <3>2
    <3>5. TlvLen(n) <= V + 4
      BY <1>1, <3>2, <3>3, <3>4
    <3> QED BY <3>1, <3>4, <3>5
  <2> QED BY <2>1, <2>2, <2>3, ValueIs
<1> HIDE DEF lo, lc, lid, lv, vv
<1>9. rb \in Nat /\ rb <= V + 18
  BY <1>1, <1>5, <1>8
<1> HIDE DEF rb
<1>10. rl \in Nat /\ rl <= rb + 4
  BY <1>3, <1>9
<1> HIDE DEF rl
<1>11. tl \in Nat /\ tl <= rl + 4
  BY <1>3, <1>10
<1> HIDE DEF tl
<1>12. rp \in Nat /\ rp <= V + 38
  BY <1>1, <1>7, <1>9, <1>10, <1>11
<1> HIDE DEF rp
<1>13. tp \in Nat /\ tp <= rp + 4
  BY <1>3, <1>12
<1> HIDE DEF tp
<1>14. rm \in Nat /\ rm <= C + V + 52
  BY <1>1, <1>6, <1>7, <1>12, <1>13
<1> HIDE DEF rm
<1>15. tm \in Nat /\ tm <= rm + 4
  BY <1>3, <1>14
<1> HIDE DEF tm
<1>16. tm <= BufSize
  BY <1>1, <1>14, <1>15
<1> QED BY <1>4, <1>16

LEMMA AnswersIt ==
  ASSUME NEW C, NEW V, AnswersFit(C, V), Receives
  PROVE  AlwaysAnswered
<1> SUFFICES ASSUME NEW req \in Decode(Arrived)
             PROVE  LET found == Found(req)
                    IN  IF found # 0
                        THEN \A value \in Values :
                               BuildResponse(req, k_oid_table[found], NOERROR, 0, value) # {}
                        ELSE req.oid # <<>> =>
                               BuildResponse(req, req.oid, NOSUCHNAME, 1, Int32(0)) # {}
  BY DEF AlwaysAnswered
<1>1. IsAsker(req) /\ req.oid \in Seq(Byte)
  BY DecodedIs
<1>2. 0 \in Int32s /\ 1 \in Int32s /\ NOERROR \in Int32s /\ NOSUCHNAME \in Int32s
  BY SmallInts DEF NOERROR, NOSUCHNAME
<1>3. ASSUME Found(req) # 0, NEW value \in Values
      PROVE  BuildResponse(req, k_oid_table[Found(req)], NOERROR, 0, value) # {}
  <2> DEFINE oid == k_oid_table[Found(req)]
  <2>1. oid \in SmallOid
    BY <1>3, FoundIs, RowsAreSmall
  <2> HIDE DEF oid
  <2>2. oid \in Seq(Byte) /\ oid # <<>>
    <3>1. oid \in Seq(Byte) /\ Len(oid) \in 1 .. 12
      BY <2>1, SmallOids
    <3>2. Len(oid) # 0
      <4> DEFINE n == Len(oid)
      <4>1. n \in 1 .. 12
        BY <3>1
      <4> HIDE DEF n
      <4>2. n # 0
        BY <4>1
      <4> QED BY <4>2 DEF n
    <3>3. Len(<<>>) = 0
      BY EmptySeq
    <3> QED BY <3>1, <3>2, <3>3
  <2>3. IsValue(value)
    BY CodecAssumption DEF IsValue
  <2>4. TlvLen(MsgLen(req, oid, NOERROR, 0, value)) <= BufSize
    BY <2>1, ObjectFits
  <2>5. BuildResponse(req, oid, NOERROR, 0, value) # {}
    BY <1>1, <1>2, <2>2, <2>3, <2>4, Builds
  <2> QED BY <2>5 DEF oid
<1>4. ASSUME req.oid # <<>>
      PROVE  BuildResponse(req, req.oid, NOSUCHNAME, 1, Int32(0)) # {}
  <2>1. IsValue(Int32(0))
    BY <1>2 DEF IsValue, Int32
  <2> QED BY <1>1, <1>2, <1>4, <2>1, ErrorFits, Builds
<1> QED BY <1>3, <1>4

\* A request that fits the buffer and names anything is answered, whatever is found
\* for it: an error is not longer than the request, and the objects, with the texts
\* and the community the agent is built with, fit.  snmp_build_response() never
\* returns false for want of room.
THEOREM AlwaysAnsweredAlways ==
  ASSUME NEW CONSTANT C, NEW CONSTANT V, AnswersFit(C, V)
  PROVE  Spec => []AlwaysAnswered
<1>1. Init => Receives
  BY ReceivesInductive
<1>2. Receives /\ [Next]_vars => Receives'
  BY ReceivesInductive
<1>3. Receives => AlwaysAnswered
  BY AnswersIt
<1> QED BY <1>1, <1>2, <1>3, PTL DEF Spec
================================================================================
