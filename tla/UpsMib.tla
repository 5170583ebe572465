-------------------------------- MODULE UpsMib --------------------------------
(***************************************************************************)
(* How a manager names objects: by sub-identifiers, which BER writes in    *)
(* base 128 and RFC 1157 orders as numbers.  The agent (snmp_agent.c) only *)
(* sees the bytes.                                                         *)
(***************************************************************************)
EXTENDS Integers, SequencesExt

\* A sub-identifier in BER: base 128, the top bit set on all but the last byte.
Digits(n) == CHOOSE k \in 1 .. 5 :
               /\ k < 5 => n < 128 ^ k
               /\ k > 1 => n >= 128 ^ (k - 1)

BerSubId(n) ==
  [i \in 1 .. Digits(n) |->
     ((n \div 128 ^ (Digits(n) - i)) % 128) + (IF i < Digits(n) THEN 128 ELSE 0)]

Ber(subids) == FlattenSeq([i \in 1 .. Len(subids) |-> BerSubId(subids[i])])

\* RFC 1157's order: a prefix first, else the smaller number where they part.
Before(a, b) ==
  \E i \in 1 .. Len(b) :
    IsPrefix(SubSeq(b, 1, i - 1), a) /\ (Len(a) >= i => a[i] < b[i])
==============================================================================
