----------------------------- MODULE StunPacket -----------------------------
(***************************************************************************)
(* The wire format of p2p/go-stun/stun: packet.go, attribute.go, host.go   *)
(* and what response.go reads from a packet, as operators.  A packet on    *)
(* the wire is a sequence of bytes; positions count from 0, as in the      *)
(* code, and lengths are uint16.                                           *)
(***************************************************************************)
EXTENDS Naturals, Sequences, SequencesExt

Byte == 256
Word16 == 65536
Put16(x) == <<x \div Byte, x % Byte>>
Get16(b, pos) == b[pos + 1] * Byte + b[pos + 2]
\* A slice may reach past the end: the buffer is larger, and empty there.
Slice(b, from, to) == [k \in 1..(to - from) |-> IF from + k \in DOMAIN b THEN b[from + k] ELSE 0]
Zeros(k) == [j \in 1..k |-> 0]
\* The exclusive or of two bits, and of words of twice as many.
Xor1(x, y) == (x + y) % 2
Xor2(x, y) == 2 * Xor1(x \div 2, y \div 2) + Xor1(x % 2, y % 2)
Xor4(x, y) == 4 * Xor2(x \div 4, y \div 4) + Xor2(x % 4, y % 4)
Xor8(x, y) == 16 * Xor4(x \div 16, y \div 16) + Xor4(x % 16, y % 16)
Xor16(x, y) == Byte * Xor8(x \div Byte, y \div Byte) + Xor8(x % Byte, y % Byte)

Cookie == <<33, 18, 164, 66>>
FamilyIPv4 == 1
FamilyIPv6 == 2
MappedAddress == 1
ChangeRequest == 3
ChangedAddr == 5
XorMapped == 32
XorMappedExp == 32800
Software == 32802
Fingerprint == 32808
OtherAddr == 32812

\* No packet, which is an error, and no host.
Error == [types |-> 0, length |-> 0, transID |-> <<>>, attributes |-> <<>>]
Nil == [family |-> 0, ip |-> <<>>, port |-> 0]
-----------------------------------------------------------------------------
align(k) == 4 * (((k + 3) % Word16) \div 4)
padding(value) == value \o Zeros(align(Len(value)) - Len(value))

newAttribute(types, value) ==
  [types |-> types, length |-> Len(padding(value)) % Word16, value |-> padding(value)]

newPacket(types, id) ==
  [types |-> types, length |-> 0, transID |-> Cookie \o id, attributes |-> <<>>]

addAttribute(v, a) == [v EXCEPT !.attributes = Append(@, a),
                                !.length = (@ + align(a.length) + 4) % Word16]

bytes(v) == Put16(v.types) \o Put16(v.length) \o v.transID \o
            FlattenSeq([k \in DOMAIN v.attributes |->
              LET a == v.attributes[k] IN Put16(a.types) \o Put16(a.length) \o a.value])

\* Where the attribute after one of a length begins.
Step(length) == align(length) + 4

\* The attribute ends after the packet.  Fault: its own header is forgotten.
ValueTooLong(b, pos, length) == (pos + length) % Word16 > Len(b)
TooLong(b, pos, length) == (pos + 4 + length) % Word16 > Len(b)

\* The attribute at position pos of b, added to what was read before it.
NextAttribute(b, read) ==
  LET pos == read.pos
      length == Get16(b, pos + 2) IN
    IF read.v = Error \/ pos >= Len(b) THEN read
    ELSE IF TooLong(b, pos, length) THEN [read EXCEPT !.v = Error]
    ELSE [v |-> addAttribute(read.v,
                  newAttribute(Get16(b, pos), Slice(b, pos + 4, pos + 4 + length))),
          pos |-> (pos + Step(length)) % Word16]

\* The length field is kept, and the attributes are added to it once more.
newPacketFromBytes(b) ==
  LET v == [types |-> Get16(b, 0), length |-> Get16(b, 2),
            transID |-> Slice(b, 4, 20), attributes |-> <<>>]
      loop[k \in 0..Len(b)] == IF k = 0 THEN [v |-> v, pos |-> 20]
                                       ELSE NextAttribute(b, loop[k - 1])
  IN  IF Len(b) < 24 THEN Error ELSE loop[Len(b) \div 4].v
-----------------------------------------------------------------------------
newChangeReqAttribute(ip, port) ==
  newAttribute(ChangeRequest, <<0, 0, 0, (IF ip THEN 4 ELSE 0) + (IF port THEN 2 ELSE 0)>>)

\* The checksum of the library, here any function that tells texts apart enough.
crc(b) == LET sum == FoldLeft(LAMBDA x, y : (3 * x + y) % Word16, 0, b)
          IN  <<0, 0>> \o Put16(sum)
newFingerprintAttribute(v) == newAttribute(Fingerprint, crc(bytes(v)))

\* The header already has the length of the fingerprint while that is computed.
\* Fault: it has not.
LengthNow(v) == v.length
LengthThen(v) == v.length + 8

\* What sendBindingReq sends.
Request(id, name, ip, port) ==
  LET named == addAttribute(newPacket(1, id), newAttribute(Software, name))
      v == IF ip \/ port THEN addAttribute(named, newChangeReqAttribute(ip, port)) ELSE named
  IN  addAttribute(v, newFingerprintAttribute([v EXCEPT !.length = LengthThen(v)]))
-----------------------------------------------------------------------------
\* An IPv4 address that is written as one of IPv6 is shown in the form of IPv4.
To4(ip) == IF Len(ip) = 16 /\ SubSeq(ip, 1, 12) = Zeros(10) \o <<255, 255>>
             THEN SubSeq(ip, 13, 16) ELSE ip
Host(family, ip, port) == [family |-> family, ip |-> To4(ip), port |-> port]

Family(ip) == IF Len(To4(ip)) = 4 THEN FamilyIPv4 ELSE FamilyIPv6
newHostFromStr(host) == Host(Family(host.ip), host.ip, host.port)

\* Truncated for IPv4, otherwise the whole rest is the address.
OfFamily(family, ip) == IF family = FamilyIPv4 THEN SubSeq(ip, 1, 4) ELSE ip
rawAddr(value) ==
  Host(value[2], OfFamily(value[2], Slice(value, 4, Len(value))), Get16(value, 2))

xorAddr(value, transID) ==
  LET rest == [k \in 1..(Len(value) - 4) |-> Xor8(value[k + 4], transID[k])] IN
    Host(value[2], OfFamily(value[2], rest \o Zeros(16 - Len(rest))),
         Xor16(Get16(value, 2), Get16(transID, 0)))

\* The attributes of a type; the first one counts.
OfType(attributes, types) == {k \in DOMAIN attributes : attributes[k].types = types}
getRawAddr(v, types) ==
  IF OfType(v.attributes, types) = {} THEN Nil
  ELSE rawAddr(v.attributes[Min(OfType(v.attributes, types))].value)
getXorAddr(v, types) ==
  IF OfType(v.attributes, types) = {} THEN Nil
  ELSE xorAddr(v.attributes[Min(OfType(v.attributes, types))].value, v.transID)
getXorMappedAddr(v) == IF getXorAddr(v, XorMapped) # Nil THEN getXorAddr(v, XorMapped)
                       ELSE getXorAddr(v, XorMappedExp)

Resolved(host) == IF host = Nil THEN Nil ELSE newHostFromStr(host)
newResponse(v) ==
  [mapped |-> IF getXorMappedAddr(v) # Nil THEN getXorMappedAddr(v) ELSE getRawAddr(v, MappedAddress),
   changed |-> Resolved(getRawAddr(v, ChangedAddr)),
   other |-> Resolved(getRawAddr(v, OtherAddr))]
-----------------------------------------------------------------------------
(* The external server.  An attribute it sends has a type, data, which is  *)
(* the IP address if the type is one of an address, and a port.  It names  *)
(* the length of an attribute without the padding, whatever that is.       *)
XorTypes == {XorMapped, XorMappedExp}
AddressTypes == XorTypes \union {MappedAddress, ChangedAddr, OtherAddr}
WireFamily(ip) == IF Len(ip) = 4 THEN FamilyIPv4 ELSE FamilyIPv6

Value(id, a) ==
  LET key == IF a.types \in XorTypes THEN Cookie \o id ELSE Zeros(16) IN
    IF a.types \notin AddressTypes THEN a.data
    ELSE <<0, WireFamily(a.data)>> \o Put16(Xor16(a.port, Get16(key, 0)))
           \o [k \in DOMAIN a.data |-> Xor8(a.data[k], key[k])]

Encoded(id, a) ==
  LET value == Value(id, a)
  IN  Put16(a.types) \o Put16(Len(value)) \o value
        \o [k \in 1..(align(Len(value)) - Len(value)) |-> 32]

Wire(id, sent) ==
  LET all == FlattenSeq([k \in DOMAIN sent |-> Encoded(id, sent[k])])
  IN  Put16(257) \o Put16(Len(all)) \o Cookie \o id \o all

\* The host that an attribute names, and that of the first one of a type.
SentHost(a) == Host(WireFamily(a.data), a.data, a.port)
FirstSent(sent, types) ==
  IF OfType(sent, types) = {} THEN Nil ELSE SentHost(sent[Min(OfType(sent, types))])
-----------------------------------------------------------------------------
\* The length of a datagram is that of uint16.
Fits(b) == Len(b) < Word16

\* A request arrives: the packet is well-formed, has the same type, id and attributes,
\* and its fingerprint is that of all bytes before it.
Carried(id, name, ip, port) ==
  LET v == Request(id, name, ip, port)
      b == bytes(v)
      parsed == newPacketFromBytes(b) IN
    /\ Get16(b, 2) = Len(b) - 20 /\ Len(b) % 4 = 0
    /\ parsed # Error
    /\ [parsed EXCEPT !.length = v.length] = v
    /\ Slice(b, Len(b) - 4, Len(b)) = crc(Slice(b, 0, Len(b) - 8))

\* The addresses a server sends are read as it has sent them, whichever attributes
\* it adds, in whatever order, and of several forms of the mapped address the one
\* that routers do not rewrite is taken.
AddressesRead(id, sent) ==
  LET v == newPacketFromBytes(Wire(id, sent))
      response == newResponse(v)
      Sends(types) == OfType(sent, types) # {} IN
    /\ v # Error
    /\ Sends(XorMapped) => response.mapped = FirstSent(sent, XorMapped)
    /\ ~Sends(XorMapped) /\ Sends(XorMappedExp) =>
         response.mapped = FirstSent(sent, XorMappedExp)
    /\ ~Sends(XorMapped) /\ ~Sends(XorMappedExp) =>
         response.mapped = FirstSent(sent, MappedAddress)
    /\ response.changed = Resolved(FirstSent(sent, ChangedAddr))
    /\ response.other = Resolved(FirstSent(sent, OtherAddr))

\* Of a response that is longer than the buffer, whose size is a multiple of four,
\* either nothing is taken, or the attributes before the cut as they were sent.
CutIsPrefix(id, sent) ==
  LET b == Wire(id, sent)
      v == newPacketFromBytes(b) IN
    \A size \in 0..Len(b) :
      LET cut == newPacketFromBytes(Slice(b, 0, size)) IN
        size % 4 = 0 => cut = Error \/ IsPrefix(cut.attributes, v.attributes)
-----------------------------------------------------------------------------
(* Requests and responses to check the operators with.                     *)
Id == <<1, 2, 3, 250, 5, 6, 7, 8, 9, 10, 11, 12>>
Names == {<<>>, <<97>>, <<97, 98, 99>>, <<97, 98, 99, 100>>}

V4(k) == <<198, 51, 100, k>>
V6(k) == <<32, 1, 13, 184>> \o Zeros(11) \o <<k>>
V4In6(k) == Zeros(10) \o <<255, 255>> \o V4(k)
Ip(form, k) == CASE form = "4" -> V4(k) [] form = "6" -> V6(k) [] form = "4in6" -> V4In6(k)

\* The k-th attribute: another address in each.
Attribute(types, form, k) ==
  [types |-> types, port |-> 60000 + k,
   data |-> IF types = Software THEN <<118, 49, 46>> ELSE Ip(form, k)]
Responses ==
  {[k \in 1..3 |-> Attribute(types[k], form, k)] :
     types \in [1..3 -> AddressTypes \union {Software}], form \in {"4", "6", "4in6"}}

\* What a client sends arrives, with or without a change request.
RequestsArrive == \A name \in Names, ip, port \in BOOLEAN : Carried(Id, name, ip, port)

\* What is read of a response is what was sent, of a whole one and of one cut short.
ResponsesArrive == \A sent \in Responses : AddressesRead(Id, sent) /\ CutIsPrefix(Id, sent)
=============================================================================
