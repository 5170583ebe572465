------------------------------ MODULE SnmpCodec ------------------------------
(***************************************************************************)
(* The BER decoder and encoder of the SNMP agent (snmp_agent.c), byte by   *)
(* byte.  The decoder works with positions in a datagram, 1 being its      *)
(* first byte and `end' the position after the last one it may read.  The  *)
(* encoder computes every length before it writes, innermost first, and    *)
(* writes the headers outermost first.                                     *)
(*                                                                         *)
(* The steps are those of one request: the bytes of it that arrive (a      *)
(* datagram can be cut short, and recvfrom() cuts it at the buffer), and   *)
(* the answer, about the object k_oid_table yields.  What the manager      *)
(* sends is external, in the encoding that the standard prescribes, with   *)
(* the shortest lengths or with long ones.                                 *)
(***************************************************************************)
EXTENDS Integers, Sequences, SequencesExt, OidTable, UpsMib

CONSTANTS
  Requests,   \* what managers ask, the OID by its sub-identifiers
  Values,     \* the values the agent may answer with
  BufSize     \* of rx_buf and tx_buf

VARIABLES
  sent,       \* the request, and the bytes of its datagram
  received,   \* how many of its bytes have arrived
  reply       \* the bytes of the answer, <<>> before

vars == <<sent, received, reply>>

INTEGER == 2
OCTETS == 4
NULL == 5
OID == 6
SEQUENCE == 48
GET == 160
GETNEXT == 161
RESPONSE == 162
NOERROR == 0
NOSUCHNAME == 2

----------------------------------------------------------------------------
(* Decoding.  A part read is where its value begins, where the next part   *)
(* begins, and where what encloses both ends.                              *)

Bad == [ok |-> FALSE, value |-> 1, next |-> 1, end |-> 1]
Part(value, len, end) ==
  IF end - value >= len
  THEN [ok |-> TRUE, value |-> value, next |-> value + len, end |-> end] ELSE Bad

\* snmp_read_len() and what follows it: the length in one byte, or in the one
\* or two bytes after a count.
ReadValue(pkt, p, end) ==
  IF p >= end THEN Bad
  ELSE IF pkt[p] < 128 THEN Part(p + 1, pkt[p], end)
  ELSE IF pkt[p] = 129 /\ end - p >= 2 THEN Part(p + 2, pkt[p + 1], end)
  ELSE IF pkt[p] = 130 /\ end - p >= 3
       THEN Part(p + 3, 256 * pkt[p + 1] + pkt[p + 2], end)
  ELSE Bad

\* snmp_expect_tlv(), for the first part inside another and for the one after it.
ExpectTlv(pkt, p, end, type) ==
  IF p < end /\ pkt[p] = type THEN ReadValue(pkt, p + 1, end) ELSE Bad
Inside(pkt, part, type) ==
  IF part.ok THEN ExpectTlv(pkt, part.value, part.next, type) ELSE Bad
After(pkt, part, type) ==
  IF part.ok THEN ExpectTlv(pkt, part.next, part.end, type) ELSE Bad

Bytes(pkt, part) == SubSeq(pkt, part.value, part.next - 1)

\* snmp_decode_int32(): at most four bytes, the first one's top bit the sign.
IsInt32(pkt, part) == part.ok /\ part.next - part.value \in 1 .. 4

\* What it would be without the sign.
DecodeUnsigned(bytes) == FoldLeft(LAMBDA v, b : 256 * v + b, 0, bytes)

DecodeInt32(bytes) ==
  FoldLeft(LAMBDA v, b : 256 * v + b, IF bytes[1] >= 128 THEN -1 ELSE 0, bytes)

\* snmp_decode_request(): the message, its version, community and request, in
\* which the id, two numbers passed over, and the OID of the first binding.
Decode(pkt) ==
  LET all       == [ok |-> TRUE, value |-> 1, next |-> Len(pkt) + 1]
      msg       == Inside(pkt, all, SEQUENCE)
      version   == Inside(pkt, msg, INTEGER)
      community == After(pkt, version, OCTETS)
      type      == IF community.ok /\ community.next < community.end
                   THEN pkt[community.next] ELSE 0
      pdu       == IF type \in {GET, GETNEXT} THEN After(pkt, community, type) ELSE Bad
      id        == Inside(pkt, pdu, INTEGER)
      status    == After(pkt, id, INTEGER)
      index     == After(pkt, status, INTEGER)
      list      == After(pkt, index, SEQUENCE)
      binding   == Inside(pkt, list, SEQUENCE)
      oid       == Inside(pkt, binding, OID)
  IN  IF oid.ok /\ IsInt32(pkt, version) /\ IsInt32(pkt, id)
      THEN {[version |-> DecodeInt32(Bytes(pkt, version)),
             community |-> Bytes(pkt, community), pdu |-> type,
             id |-> DecodeInt32(Bytes(pkt, id)), oid |-> Bytes(pkt, oid)]}
      ELSE {}

----------------------------------------------------------------------------
(* Encoding.                                                               *)

\* What snmp_len_field_size() would be with <= for <.
LenFieldSizeUpTo(len) == IF len <= 128 THEN 1 ELSE IF len <= 255 THEN 2 ELSE 3

LenFieldSize(len) == IF len < 128 THEN 1 ELSE IF len <= 255 THEN 2 ELSE 3

LenField(len) ==
  IF len < 128 THEN <<len>>
  ELSE IF len <= 255 THEN <<129, len>>
  ELSE <<130, (len \div 256) % 256, len % 256>>

\* The four bytes of an int32_t in two's complement.
Int32Bytes(value) ==
  <<(value \div 16777216) % 256, (value \div 65536) % 256,
    (value \div 256) % 256, value % 256>>

\* A leading byte that only repeats the sign of the next one.
Redundant(bytes, i) ==
  \/ bytes[i] = 0 /\ bytes[i + 1] < 128
  \/ bytes[i] = 255 /\ bytes[i + 1] >= 128

\* snmp_int32_encoded_len()
EncodedLen(value) ==
  LET bytes == Int32Bytes(value)
  IN  IF ~Redundant(bytes, 1) THEN 4
      ELSE IF ~Redundant(bytes, 2) THEN 3
      ELSE IF ~Redundant(bytes, 3) THEN 2
      ELSE 1

Header(type, len) == <<type>> \o LenField(len)
TlvLen(len) == 1 + LenFieldSize(len) + len

PutInt32(value) ==
  Header(INTEGER, EncodedLen(value)) \o
    SubSeq(Int32Bytes(value), 5 - EncodedLen(value), 4)
IntTlvLen(value) == TlvLen(EncodedLen(value))
PutOctets(bytes) == Header(OCTETS, Len(bytes)) \o bytes
PutOid(bytes) == Header(OID, Len(bytes)) \o bytes
PutNull == Header(NULL, 0)

\* A value: an int32_t, or bytes; none with an error.
Octets(bytes) == [octets |-> bytes]
Int32(value) == [int32 |-> value]
IsInt(value) == "int32" \in DOMAIN value

PutValue(status, value) ==
  IF status # NOERROR THEN PutNull
  ELSE IF IsInt(value) THEN PutInt32(value.int32) ELSE PutOctets(value.octets)

ValueTlvLen(status, value) ==
  IF status # NOERROR THEN 2
  ELSE IF IsInt(value) THEN IntTlvLen(value.int32) ELSE TlvLen(Len(value.octets))

\* The lengths snmp_build_response() computes.
BindingLen(oid, status, value) == TlvLen(Len(oid)) + ValueTlvLen(status, value)
PduLen(req, oid, status, index, value) ==
  IntTlvLen(req.id) + IntTlvLen(status) + IntTlvLen(index)
    + TlvLen(TlvLen(BindingLen(oid, status, value)))
MsgLen(req, oid, status, index, value) ==
  IntTlvLen(req.version) + TlvLen(Len(req.community))
    + TlvLen(PduLen(req, oid, status, index, value))

\* The bytes it writes.
Written(req, oid, status, index, value) ==
  Header(SEQUENCE, MsgLen(req, oid, status, index, value))
    \o PutInt32(req.version) \o PutOctets(req.community)
    \o Header(RESPONSE, PduLen(req, oid, status, index, value))
    \o PutInt32(req.id) \o PutInt32(status) \o PutInt32(index)
    \o Header(SEQUENCE, TlvLen(BindingLen(oid, status, value)))
    \o Header(SEQUENCE, BindingLen(oid, status, value))
    \o PutOid(oid) \o PutValue(status, value)

\* What it would be if it wanted a byte to spare.
BuildResponseShorter(req, oid, status, index, value) ==
  IF oid = <<>> \/ TlvLen(MsgLen(req, oid, status, index, value)) >= BufSize THEN {}
  ELSE {Written(req, oid, status, index, value)}

\* It returns false for an empty OID, when the message is longer than the
\* buffer, and when a write does not find the room.
BuildResponse(req, oid, status, index, value) ==
  IF \/ oid = <<>>
     \/ TlvLen(MsgLen(req, oid, status, index, value)) > BufSize
     \/ Len(Written(req, oid, status, index, value)) > BufSize
  THEN {}
  ELSE {Written(req, oid, status, index, value)}

----------------------------------------------------------------------------
(* The standard's encoding: a value is encoded before the header that tells *)
(* its length.  A manager may use the two-byte length for any; the agent    *)
(* uses the shortest.                                                       *)

LongTlv(type, content) ==
  <<type, 130, Len(content) \div 256, Len(content) % 256>> \o content

Tlv(type, content) ==
  LET n == Len(content)
  IN  IF n < 128 THEN <<type, n>> \o content
      ELSE IF n < 256 THEN <<type, 129, n>> \o content
      ELSE LongTlv(type, content)

\* The shortest two's complement.
SignedBytes(value) ==
  LET Fits(n) == n = 4 \/ value \in -(2 ^ (8 * n - 1)) .. 2 ^ (8 * n - 1) - 1
      n == CHOOSE k \in 1 .. 4 : Fits(k) /\ \A j \in 1 .. k - 1 : ~Fits(j)
  IN  [i \in 1 .. n |-> (value \div 256 ^ (n - i)) % 256]

Signed(value) == Tlv(INTEGER, SignedBytes(value))

Wrap(long, type, content) ==
  IF long THEN LongTlv(type, content) ELSE Tlv(type, content)

Message(long, req, type, status, index, oid, value) ==
  LET binding == Wrap(long, SEQUENCE, Tlv(OID, oid) \o value)
      list    == Wrap(long, SEQUENCE, binding)
      pdu     == Wrap(long, type, Signed(req.id) \o Signed(status) \o Signed(index)
                                    \o list)
  IN  Wrap(long, SEQUENCE, Signed(req.version) \o Tlv(OCTETS, req.community) \o pdu)

Datagram(ask, long) ==
  Message(long, ask, ask.pdu, 0, 0, Ber(ask.oid), Tlv(NULL, <<>>))

\* Bytes, the numbers of C's int32_t, and what managers may ask.
Byte == 0 .. 255
Int32s == {n \in Int : -2147483647 - 1 <= n /\ n <= 2147483647}
Asks == [version : Int32s, community : Seq(Byte), pdu : {GET, GETNEXT}, id : Int32s,
         oid : Seq(Nat)]

\* A datagram of UDP is no longer than this, nor is a buffer for one.
MaxDatagram == 65535

ASSUME CodecAssumption ==
  /\ \A ask \in Requests : ask \in Asks
  /\ \A ask \in Requests, long \in BOOLEAN : Len(Datagram(ask, long)) <= MaxDatagram
  /\ \A value \in Values : value \in [int32 : Int32s] \/ value \in [octets : Seq(Byte)]
  /\ BufSize \in Nat /\ BufSize <= MaxDatagram

----------------------------------------------------------------------------
Arrived == SubSeq(sent.bytes, 1, received)

Init ==
  /\ \E ask \in Requests, long \in BOOLEAN :
       sent = [ask |-> ask, bytes |-> Datagram(ask, long)]
  /\ received = 0
  /\ reply = <<>>

ByteArrives ==
  /\ reply = <<>>
  /\ received < Len(sent.bytes)
  /\ received < BufSize
  /\ received' = received + 1
  /\ UNCHANGED <<sent, reply>>

\* The place in the table of the object a request is answered with, 0 if none.
Agent == INSTANCE SnmpOid WITH Table <- k_oid_table

\* The table is in the order of snmp_oid_compare(): what a walk relies on.
ASSUME TableSorted == Agent!Sorted

Found(req) == IF req.pdu = GET THEN Agent!LookupExact(req.oid)
              ELSE Agent!LookupNext(req.oid)

\* The answers: the object that is found with its value, or the OID asked for
\* with an error.
Answers(req) ==
  LET found == Found(req)
  IN  IF found # 0
      THEN UNION {BuildResponse(req, k_oid_table[found], NOERROR, 0, value) :
                    value \in Values}
      ELSE BuildResponse(req, req.oid, NOSUCHNAME, 1, Int32(0))

Answer ==
  /\ reply = <<>>
  /\ \E req \in Decode(Arrived) : reply' \in Answers(req)
  /\ UNCHANGED <<sent, received>>

Next == ByteArrives \/ Answer

Spec == Init /\ [][Next]_vars

----------------------------------------------------------------------------
\* A datagram decodes to what the manager asked when all of it has arrived, and
\* to nothing when any part is missing.
DecodesWhatWasAsked ==
  Decode(Arrived) = IF received = Len(sent.bytes)
                    THEN {[sent.ask EXCEPT !.oid = Ber(@)]} ELSE {}

\* The answer is the standard's encoding of an object's OID and value, or of an
\* error: every length written before what it measures is right.
ReplyIsBer ==
  reply # <<>> =>
    \/ \E i \in Agent!Entries, value \in Values :
         reply = Message(FALSE, sent.ask, RESPONSE, 0, 0, k_oid_table[i],
                           IF IsInt(value) THEN Signed(value.int32)
                           ELSE Tlv(OCTETS, value.octets))
    \/ reply = Message(FALSE, sent.ask, RESPONSE, NOSUCHNAME, 1, Ber(sent.ask.oid),
                         Tlv(NULL, <<>>))

\* A request that fits the buffer and names anything is answered, whatever is
\* found for it: the answer fits too.
AlwaysAnswered ==
  \A req \in Decode(Arrived) :
    LET found == Found(req)
    IN  reply = <<>> =>
          IF found # 0
          THEN \A value \in Values :
                 BuildResponse(req, k_oid_table[found], NOERROR, 0, value) # {}
          ELSE req.oid # <<>> =>
                 BuildResponse(req, req.oid, NOSUCHNAME, 1, Int32(0)) # {}

\* The answer to a GETNEXT is the object that follows in the order of the MIB,
\* whatever the number of bytes a sub-identifier of the request takes: comparing
\* bytes puts no object on the wrong side.
NextInMibOrder ==
  \A req \in Decode(Arrived) :
    LET found == Found(req)
        after == {i \in Agent!Entries : Before(sent.ask.oid, k_oid_table[i])}
    IN  req.pdu = GETNEXT /\ reply = <<>> =>
          IF found = 0 THEN after = {}
          ELSE /\ found \in after
               /\ \A i \in after \ {found} : Before(k_oid_table[found], k_oid_table[i])
==============================================================================
