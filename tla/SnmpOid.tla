------------------------------- MODULE SnmpOid -------------------------------
(***************************************************************************)
(* The object identifiers the SNMP agent serves and the two searches it    *)
(* answers requests with (snmp_agent.c).  An OID is the sequence of bytes  *)
(* of its BER encoding, as in the source; an entry is named by its place   *)
(* in the table, from 1.                                                   *)
(***************************************************************************)
EXTENDS Integers, Sequences

CONSTANT Table   \* the OIDs of k_oid_table, a sequence

Oid == Seq(0 .. 255)

ASSUME TableAssumption == Table \in Seq(Oid)

Entries == 1 .. Len(Table)

\* What snmp_oid_compare() would be on signed bytes.
SignedByte(b) == IF b >= 128 THEN b - 256 ELSE b
PrecedesSigned(lhs, rhs) ==
  \E i \in 1 .. Len(rhs) :
    /\ \A j \in 1 .. i - 1 : j <= Len(lhs) /\ lhs[j] = rhs[j]
    /\ i <= Len(lhs) => SignedByte(lhs[i]) < SignedByte(rhs[i])

\* snmp_oid_compare(lhs, rhs) < 0: at the first place where they differ lhs has
\* the smaller byte, or ends.
Precedes(lhs, rhs) ==
  \E i \in 1 .. Len(rhs) :
    /\ \A j \in 1 .. i - 1 : j <= Len(lhs) /\ lhs[j] = rhs[j]
    /\ i <= Len(lhs) => lhs[i] < rhs[i]

\* What a loop over the table returns that stops at the first match: 0 if none.
FirstOf(matches) ==
  IF matches = {} THEN 0 ELSE CHOOSE i \in matches : \A j \in matches : i <= j

\* What snmp_lookup_exact() would be without comparing the lengths.
LookupPrefix(oid) ==
  FirstOf({i \in Entries : \A k \in 1 .. Len(oid) :
                              k <= Len(Table[i]) /\ Table[i][k] = oid[k]})

\* snmp_lookup_exact()
LookupExact(oid) == FirstOf({i \in Entries : Table[i] = oid})

\* What snmp_lookup_next() would be with >= for >.
LookupNextOrSame(oid) == FirstOf({i \in Entries : ~Precedes(Table[i], oid)})

\* snmp_lookup_next()
LookupNext(oid) == FirstOf({i \in Entries : Precedes(oid, Table[i])})

----------------------------------------------------------------------------
\* The table lists its entries in the order of the comparison, each once.
Sorted == \A i, j \in Entries : i < j => Precedes(Table[i], Table[j])
==============================================================================
