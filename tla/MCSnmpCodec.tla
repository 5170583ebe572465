----------------------------- MODULE MCSnmpCodec -----------------------------
(***************************************************************************)
(* SnmpCodec with requests of every shape the length field and the         *)
(* integers have, up to one that fills the buffer and one byte more, and   *)
(* with requests for OIDs around all 32 objects of the table.              *)
(***************************************************************************)
EXTENDS SnmpCodec

\* An OID of a given number of bytes: 43, and a remainder of one byte each before
\* sub-identifiers of five.
Long(length) ==
  IF length = 0 THEN <<>>
  ELSE <<43>> \o [i \in 1 .. (length - 1) % 5 |-> i]
              \o [i \in 1 .. (length - 1) \div 5 |-> 2147483647]

Ask(version, pdu, id, length) ==
  [version |-> version, community |-> <<112, 117, 98, 108, 105, 99>>, pdu |-> pdu,
   id |-> id, oid |-> Long(length)]

Ids == {0, 1, -1, 127, 128, -128, -129, 255, 256, 32767, 32768, -32768, -32769,
        8388607, 8388608, -8388608, -8388609, 2147483647, -2147483647 - 1}

Objects == {k_oid_table[i] : i \in Agent!Entries}

\* The boundaries of the bytes of a sub-identifier, and some the table uses.
SubIds == {0, 1, 3, 4, 9, 127, 128, 255, 16383, 16384, 2097152, 2147483647}

\* OIDs around the objects: where one of them is left, or gone on from.
Beginnings == UNION {{SubSeq(o, 1, n) : n \in 5 .. Len(o)} : o \in Objects}
Around == {Append(p, s) : p \in Beginnings, s \in SubIds}

MCRequests ==
  {Ask(1, GETNEXT, id, 3) : id \in Ids} \union
  {Ask(0, GET, 40000, length) : length \in {0, 12, 84, 85, 86, 92, 93, 94, 96, 97, 98,
       99, 100, 101, 102, 103, 104, 105, 106, 127, 128, 255, 256, 465, 466, 467, 468,
       469, 470}} \union
  {[Ask(1, pdu, 7, 0) EXCEPT !.oid = oid] :
     pdu \in {GET, GETNEXT}, oid \in Objects} \union
  {[Ask(0, GETNEXT, 7, 0) EXCEPT !.oid = oid] : oid \in Around \union {<<>>}}

MCValues ==
  {Int32(v) : v \in {0, 127, 128, -3277, 32767, 32768, 65535}} \union
  {Octets([i \in 1 .. 16 |-> 65]), Octets(<<65, 80, 67>>)}
==============================================================================
