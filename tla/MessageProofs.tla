---------------------------- MODULE MessageProofs ----------------------------
(***************************************************************************)
(* Proofs about the messages and how they travel: what a tracker reads is  *)
(* what another one wrote, and what it reports of a packet and does with   *)
(* it, for any number of trackers and Meshtastic nodes, any hop limit,     *)
(* relay modes and relay bytes, and any topology.                          *)
(***************************************************************************)
EXTENDS Flood, Credentials, SequenceTheorems, TLAPS

-----------------------------------------------------------------------------
(* Formats *)

\* What gnss.cpp can report: positions on Earth, speeds and accuracies not negative.
Positions ==
  {p \in [latitude : Int, longitude : Int, altitude : Int, speedMps : Nat, heading : Nat,
          accuracy : Nat, fixTime : Nat, urlHash : Nat] :
     /\ -9000000000 <= p.latitude /\ p.latitude <= 9000000000
     /\ -18000000000 <= p.longitude /\ p.longitude <= 18000000000
     /\ p.heading <= Turn /\ p.fixTime <= 4294967295 /\ p.urlHash <= 65535}

\* putU16 keeps what fits 16 bits.
LEMMA U16RoundTrip == ASSUME NEW v \in Int, 0 <= v, v <= 65535 PROVE GetU16(PutU16(v)) = v
<1>1. PICK q \in Int, r \in Int : v = 256 * q + r /\ 0 <= r /\ r <= 255
  <2>1. /\ v = 256 * (v \div 256) + (v % 256) /\ v \div 256 \in Int
        /\ v % 256 \in Int /\ 0 <= v % 256 /\ v % 256 <= 255
    BY SMT
  <2> QED
    BY <2>1, SMT
<1>2. 0 <= q /\ q <= 255
  BY <1>1, SMT
<1> QED
  BY <1>1, <1>2, SMT DEF GetU16, PutU16

\* So does the cast to int16_t.
LEMMA I16RoundTrip == ASSUME NEW v \in Int, -32768 <= v, v <= 32767 PROVE GetI16(PutU16(v)) = v
<1>1. PICK q \in Int, r \in Int : v = 256 * q + r /\ 0 <= r /\ r <= 255
  <2>1. /\ v = 256 * (v \div 256) + (v % 256) /\ v \div 256 \in Int
        /\ v % 256 \in Int /\ 0 <= v % 256 /\ v % 256 <= 255
    BY SMT
  <2> QED
    BY <2>1, SMT
<1>2. -128 <= q /\ q <= 127
  BY <1>1, SMT
<1> QED
  BY <1>1, <1>2, SMT DEF GetI16, PutU16, Signed

\* putU32 keeps what fits 32 bits.
LEMMA U32RoundTrip == ASSUME NEW v \in Int, 0 <= v, v <= 4294967295 PROVE GetU32(PutU32(v)) = v
<1>1. PICK v1 \in Int, r0 \in Int : v = 256 * v1 + r0 /\ 0 <= r0 /\ r0 <= 255
  <2>1. /\ v = 256 * (v \div 256) + (v % 256) /\ v \div 256 \in Int
        /\ v % 256 \in Int /\ 0 <= v % 256 /\ v % 256 <= 255
    BY SMT
  <2> QED
    BY <2>1, SMT
<1>2. PICK v2 \in Int, r1 \in Int : v1 = 256 * v2 + r1 /\ 0 <= r1 /\ r1 <= 255
  <2>1. /\ v1 = 256 * (v1 \div 256) + (v1 % 256) /\ v1 \div 256 \in Int
        /\ v1 % 256 \in Int /\ 0 <= v1 % 256 /\ v1 % 256 <= 255
    BY SMT
  <2> QED
    BY <2>1, SMT
<1>3. PICK q \in Int, r2 \in Int : v2 = 256 * q + r2 /\ 0 <= r2 /\ r2 <= 255
  <2>1. /\ v2 = 256 * (v2 \div 256) + (v2 % 256) /\ v2 \div 256 \in Int
        /\ v2 % 256 \in Int /\ 0 <= v2 % 256 /\ v2 % 256 <= 255
    BY SMT
  <2> QED
    BY <2>1, SMT
<1>4. 0 <= q /\ q <= 255
  BY <1>1, <1>2, <1>3, SMT
<1>5. q % 256 = q
  BY <1>4, SMT
<1>6. v = 256 * (256 * (256 * q + r2) + r1) + r0
  BY <1>1, <1>2, <1>3, SMT
<1>7. /\ v \div 256 = v1 /\ v % 256 = r0
      /\ v1 \div 256 = v2 /\ v1 % 256 = r1
      /\ v2 \div 256 = q /\ v2 % 256 = r2
  BY <1>1, <1>2, <1>3, SMT
<1>8. PutU32(v) = <<r0, r1, r2, q>>
  BY <1>5, <1>7, SMT DEF PutU32
<1> QED
  BY <1>4, <1>6, <1>8, SMT DEF GetU32

\* So does the cast to int32_t.
LEMMA I32RoundTrip == ASSUME NEW v \in Int, -2147483648 <= v, v <= 2147483647 PROVE GetI32(PutU32(v)) = v
<1>1. PICK v1 \in Int, r0 \in Int : v = 256 * v1 + r0 /\ 0 <= r0 /\ r0 <= 255
  <2>1. /\ v = 256 * (v \div 256) + (v % 256) /\ v \div 256 \in Int
        /\ v % 256 \in Int /\ 0 <= v % 256 /\ v % 256 <= 255
    BY SMT
  <2> QED
    BY <2>1, SMT
<1>2. PICK v2 \in Int, r1 \in Int : v1 = 256 * v2 + r1 /\ 0 <= r1 /\ r1 <= 255
  <2>1. /\ v1 = 256 * (v1 \div 256) + (v1 % 256) /\ v1 \div 256 \in Int
        /\ v1 % 256 \in Int /\ 0 <= v1 % 256 /\ v1 % 256 <= 255
    BY SMT
  <2> QED
    BY <2>1, SMT
<1>3. PICK q \in Int, r2 \in Int : v2 = 256 * q + r2 /\ 0 <= r2 /\ r2 <= 255
  <2>1. /\ v2 = 256 * (v2 \div 256) + (v2 % 256) /\ v2 \div 256 \in Int
        /\ v2 % 256 \in Int /\ 0 <= v2 % 256 /\ v2 % 256 <= 255
    BY SMT
  <2> QED
    BY <2>1, SMT
<1>4. -128 <= q /\ q <= 127
  BY <1>1, <1>2, <1>3, SMT
<1>5. PICK b \in Int : b = q % 256 /\ Signed(b) = q
  BY <1>4, SMT DEF Signed
<1>6. v = 256 * (256 * (256 * q + r2) + r1) + r0
  BY <1>1, <1>2, <1>3, SMT
<1>7. /\ v \div 256 = v1 /\ v % 256 = r0
      /\ v1 \div 256 = v2 /\ v1 % 256 = r1
      /\ v2 \div 256 = q /\ v2 % 256 = r2
  BY <1>1, <1>2, <1>3, SMT
<1>8. PutU32(v) = <<r0, r1, r2, b>>
  BY <1>5, <1>7, SMT DEF PutU32
<1>9. GetI32(<<r0, r1, r2, b>>) = r0 + 256 * r1 + 65536 * r2 + 16777216 * q
  BY <1>5, SMT DEF GetI32
<1> QED
  BY <1>6, <1>8, <1>9, SMT

\* A relay and a receiver read the hop limit, the hop start and the flags that were
\* written (writeHeader, readHeader).
THEOREM FlagsRoundTrip == ASSUME NEW h \in Flags PROVE ReadFlags(WriteFlags(h)) = h
  BY SMT DEF ReadFlags, WriteFlags, Flags

\* A gateway posts the position that the tracker measured: encodePosition loses
\* half a step of each quantity at most, as long as it fits the field, never the sign
\* of an altitude, and neither the time nor the hash that decide what becomes of it.
\* A heading of a full turn becomes 0, one within half a step of it is cut off to the
\* last step before it.
THEOREM PositionRoundTrip ==
  ASSUME NEW p \in Positions
  PROVE  LET d == decodePosition(encodePosition(p)) IN
           /\ 10 * d.latitude - p.latitude <= 5 /\ p.latitude - 10 * d.latitude <= 5
           /\ 10 * d.longitude - p.longitude <= 5 /\ p.longitude - 10 * d.longitude <= 5
           /\ -327680 <= p.altitude /\ p.altitude <= 327670 =>
                10 * d.altitude - p.altitude <= 5 /\ p.altitude - 10 * d.altitude <= 5
           /\ p.speedMps <= 655350 =>
                10 * d.speedMps - p.speedMps <= 5 /\ p.speedMps - 10 * d.speedMps <= 5
           /\ p.accuracy <= 655350 =>
                10 * d.accuracy - p.accuracy <= 5 /\ p.accuracy - 10 * d.accuracy <= 5
           /\ p.heading < Turn =>
                /\ 10 * d.heading - p.heading <= 5
                /\ p.heading - 10 * d.heading <= IF p.heading <= Turn - 5 THEN 5 ELSE 9
           /\ p.heading = Turn => d.heading = 0
           /\ d.fixTime = p.fixTime /\ d.urlHash = p.urlHash
<1> DEFINE d == decodePosition(encodePosition(p))
           lat == ClampRound(p.latitude, -900000000, 900000000)
           lon == ClampRound(p.longitude, -1800000000, 1800000000)
           alt == ClampRound(p.altitude, -32768, 32767)
           spd == ClampRound(p.speedMps, 0, 65535)
           hdg == ClampRound(Heading(p.heading), 0, 35999)
           acc == ClampRound(p.accuracy, 0, 65535)
<1>1. /\ p.latitude \in Int /\ -9000000000 <= p.latitude /\ p.latitude <= 9000000000
      /\ p.longitude \in Int /\ -18000000000 <= p.longitude /\ p.longitude <= 18000000000
      /\ p.altitude \in Int /\ p.speedMps \in Int /\ p.speedMps >= 0
      /\ p.accuracy \in Int /\ p.accuracy >= 0
      /\ p.heading \in Int /\ 0 <= p.heading /\ p.heading <= 360000
      /\ p.fixTime \in Int /\ 0 <= p.fixTime /\ p.fixTime <= 4294967295
      /\ p.urlHash \in Int /\ 0 <= p.urlHash /\ p.urlHash <= 65535
  BY SMT DEF Positions, Turn
<1>2. Heading(p.heading) = IF p.heading = 360000 THEN 0 ELSE p.heading
  BY <1>1, SMT DEF Heading, Turn
<1>3. /\ lat \in Int /\ -900000000 <= lat /\ lat <= 900000000
      /\ 10 * lat - p.latitude <= 5 /\ p.latitude - 10 * lat <= 5
  BY <1>1, SMT DEF ClampRound, Round, Clamp
<1>4. /\ lon \in Int /\ -1800000000 <= lon /\ lon <= 1800000000
      /\ 10 * lon - p.longitude <= 5 /\ p.longitude - 10 * lon <= 5
  BY <1>1, SMT DEF ClampRound, Round, Clamp
<1>5. /\ alt \in Int /\ -32768 <= alt /\ alt <= 32767
      /\ -327680 <= p.altitude /\ p.altitude <= 327670 =>
           10 * alt - p.altitude <= 5 /\ p.altitude - 10 * alt <= 5
  BY <1>1, SMT DEF ClampRound, Round, Clamp
<1>6. /\ spd \in Int /\ 0 <= spd /\ spd <= 65535
      /\ p.speedMps <= 655350 => 10 * spd - p.speedMps <= 5 /\ p.speedMps - 10 * spd <= 5
  BY <1>1, SMT DEF ClampRound, Round, Clamp
<1>7. /\ acc \in Int /\ 0 <= acc /\ acc <= 65535
      /\ p.accuracy <= 655350 => 10 * acc - p.accuracy <= 5 /\ p.accuracy - 10 * acc <= 5
  BY <1>1, SMT DEF ClampRound, Round, Clamp
<1>8. /\ hdg \in Int /\ 0 <= hdg /\ hdg <= 35999
      /\ p.heading < 360000 => /\ 10 * hdg - p.heading <= 5
                               /\ p.heading - 10 * hdg <= IF p.heading <= 359995 THEN 5 ELSE 9
      /\ p.heading = 360000 => hdg = 0
  BY <1>1, <1>2, SMT DEF ClampRound, Round, Clamp
<1> HIDE DEF lat, lon, alt, spd, hdg, acc
<1>9. GetI32(PutU32(lat)) = lat
  BY <1>3, I32RoundTrip, SMT
<1>10. GetI32(PutU32(lon)) = lon
  BY <1>4, I32RoundTrip, SMT
<1>11. GetI16(PutU16(alt)) = alt
  BY <1>5, I16RoundTrip, SMT
<1>12. GetU16(PutU16(spd)) = spd
  BY <1>6, U16RoundTrip, SMT
<1>13. GetU16(PutU16(acc)) = acc
  BY <1>7, U16RoundTrip, SMT
<1>14. GetU16(PutU16(hdg)) = hdg
  BY <1>8, U16RoundTrip, SMT
<1>15. GetU32(PutU32(p.fixTime)) = p.fixTime /\ GetU16(PutU16(p.urlHash)) = p.urlHash
  BY <1>1, U16RoundTrip, U32RoundTrip, SMT
<1>16. /\ d.latitude = lat /\ d.longitude = lon /\ d.altitude = alt /\ d.speedMps = spd
       /\ d.accuracy = acc /\ d.heading = hdg
       /\ d.fixTime = p.fixTime /\ d.urlHash = p.urlHash
  BY <1>9, <1>10, <1>11, <1>12, <1>13, <1>14, <1>15, SMT
     DEF decodePosition, encodePosition, lat, lon, alt, spd, hdg, acc
<1> HIDE DEF d
<1> QED
  BY <1>3, <1>4, <1>5, <1>6, <1>7, <1>8, <1>16, SMT DEF d, Turn

-----------------------------------------------------------------------------
(* Credentials *)

\* The two pieces of a URL with the prefix make up the URL again.
LEMMA PrefixAndBody ==
  ASSUME UrlPrefix \in Seq(Char), NEW url \in Seq(Char), HasPrefix(url)
  PROVE  UrlPrefix \o Body(url) = url
<1> DEFINE n == Len(UrlPrefix)
<1>1. n \in Nat /\ Len(url) \in Nat /\ n < Len(url)
  BY DEF HasPrefix
<1>2. 1 \in 1..Len(url) + 1 /\ n \in 1 - 1..Len(url) /\ Len(url) \in n..Len(url)
  BY <1>1
<1>3. SubSeq(url, 1, n) \o SubSeq(url, n + 1, Len(url)) = SubSeq(url, 1, Len(url))
  BY <1>2, ConcatAdjacentSubSeq, Zenon
<1>4. SubSeq(url, 1, Len(url)) = url
  BY SubSeqFull, Zenon
<1>5. UrlPrefix = SubSeq(url, 1, n) /\ Body(url) = SubSeq(url, n + 1, Len(url))
  BY DEF HasPrefix, Body
<1> QED
  BY <1>3, <1>4, <1>5

\* Every URL that is sent at all arrives unchanged, whether its prefix was
\* left out or not: a receiver takes it for credentials, its length and hash
\* pass the checks of decodeCredentials, and the decoded URL is the one sent
\* (meshproto.cpp:174-191, 233-241).
THEOREM UrlArrives ==
  ASSUME UrlPrefix \in Seq(Char), NEW url \in Seq(Char), CanBeSent(url), IsHttp(url)
  PROVE  /\ DecodedUrl(encodeCredentials(url)) = url
         /\ decodeCredentials(encodeCredentials(url))
<1> DEFINE m == encodeCredentials(url)
<1>1. Len(Body(url)) > 0
  <2>1. CASE HasPrefix(url)
    <3>1. Len(UrlPrefix) \in Nat /\ Len(url) \in Nat /\ Len(UrlPrefix) < Len(url)
      BY <2>1 DEF HasPrefix
    <3>2. \A i \in Len(UrlPrefix) + 1..Len(url) : url[i] \in Char
      BY <3>1
    <3>3. Len(SubSeq(url, Len(UrlPrefix) + 1, Len(url))) = Len(url) - Len(UrlPrefix)
      BY <3>1, <3>2
    <3> QED
      BY <2>1, <3>1, <3>3 DEF Body
  <2>2. CASE ~HasPrefix(url)
    BY <2>2 DEF Body, CanBeSent
  <2> QED
    BY <2>1, <2>2
<1>2. DecodedUrl(m) = url
  <2>1. CASE HasPrefix(url)
    BY <2>1, PrefixAndBody DEF DecodedUrl, encodeCredentials
  <2>2. CASE ~HasPrefix(url)
    BY <2>2, ConcatEmptySeq DEF DecodedUrl, encodeCredentials, Body
  <2> QED
    BY <2>1, <2>2
<1>3. m.body = Body(url) /\ m.urlHash = urlHash(url)
  BY DEF encodeCredentials
<1> QED
  BY <1>1, <1>2, <1>3 DEF decodeCredentials, IsCredentials, CanBeSent

-----------------------------------------------------------------------------
(* Flood *)

AllCopies == [flags : 0..255, byte : 0..255, count : Nat, last : Nodes]

\* The assumptions on the constants as the steps use them.
LEMMA Roles ==
  /\ Origin \in Trackers /\ Origin \in Nodes /\ Origin \notin Others
  /\ Others \subseteq Nodes /\ Trackers \subseteq Nodes /\ Meshtastic \subseteq Nodes
  /\ Trackers \cap Meshtastic = {}
  /\ HopLimit \in 1..7 /\ NodeByte \in [Nodes -> 0..255] /\ NoCopy \notin AllCopies
  BY FloodAssumption DEF Nodes, Others, AllCopies

\* The flags fit a byte and are read as they were written.
LEMMA FlagsKept ==
  ASSUME NEW h \in Flags
  PROVE  ReadFlags(WriteFlags(h)) = h /\ WriteFlags(h) \in 0..255
<1>1. ReadFlags(WriteFlags(h)) = h
  BY SMT DEF ReadFlags, WriteFlags, Flags
<1>2. h.hopLimit \in 0..7 /\ h.hopStart \in 0..7 /\ h.wantAck \in BOOLEAN /\ h.viaMqtt \in BOOLEAN
  BY DEF Flags
<1>3. WriteFlags(h) \in 0..255
  BY <1>2, SMT DEF WriteFlags
<1> QED
  BY <1>1, <1>3

Header(hops) == [hopLimit |-> hops, wantAck |-> FALSE, viaMqtt |-> FALSE, hopStart |-> HopLimit]

LEMMA HeaderFits == ASSUME NEW hops \in 0..7 PROVE Header(hops) \in Flags
  BY Roles DEF Header, Flags

\* The first copy tells that it has not been relayed.
LEMMA FirstTells == FirstCopy \in AllCopies /\ FirstCopy.last = Origin /\ TellsItsWay(FirstCopy)
<1> DEFINE c == FirstCopy
<1>1. HopLimit \in Nat /\ HopLimit \in 0..7 /\ NodeByte[Origin] \in 0..255
  BY Roles
<1>2. /\ c.flags = WriteFlags(Header(HopLimit)) /\ c.byte = NodeByte[Origin]
      /\ c.count = 0 /\ c.last = Origin
      /\ c = [flags |-> c.flags, byte |-> c.byte, count |-> c.count, last |-> c.last]
  BY DEF FirstCopy, Copy, Header
<1> HIDE DEF c
<1>3. ReadFlags(c.flags) = Header(HopLimit) /\ c.flags \in 0..255
  BY <1>1, <1>2, FlagsKept, HeaderFits
<1>4. c \in AllCopies
  BY <1>1, <1>2, <1>3, Roles DEF AllCopies
<1>5. HopLimit - c.count = HopLimit
  BY <1>1, <1>2
<1>6. TellsItsWay(c)
  <2>1. ReadFlags(c.flags) = Header(HopLimit - c.count)
    BY <1>3, <1>5
  <2>2. c.count <= HopLimit /\ (c.count = 0 <=> c.last = Origin) /\ c.byte = NodeByte[c.last]
    BY <1>1, <1>2
  <2> QED
    BY <2>1, <2>2 DEF TellsItsWay, Header
<1> QED
  BY <1>2, <1>4, <1>6 DEF c

\* What a node makes of a copy with a hop left tells one relay more.
LEMMA RelayedTells ==
  ASSUME TypeOK, NEW c \in AllCopies, TellsItsWay(c), HopsLeft(c) > 0, NEW n \in Others
  PROVE  /\ Relayed(c, n) \in AllCopies /\ Relayed(c, n).last = n
         /\ TellsItsWay(Relayed(c, n)) /\ Relayed(c, n) # NoCopy
<1> DEFINE d == Relayed(c, n)
           h == ReadFlags(c.flags)
<1>1. /\ c.count \in Nat /\ c.count <= HopLimit /\ HopLimit \in 1..7
      /\ h = Header(HopLimit - c.count) /\ h.hopLimit = HopLimit - c.count
  BY Roles DEF AllCopies, TellsItsWay, Header
<1>2. /\ HopLimit - c.count > 0 /\ HopLimit - (c.count + 1) \in 0..7
      /\ NextHopLimit(h) = HopLimit - (c.count + 1)
      /\ ~(c.count > HopLimit)
  BY <1>1 DEF HopsLeft, NextHopLimit
<1>3. [h EXCEPT !.hopLimit = NextHopLimit(h)] = Header(HopLimit - (c.count + 1))
  <2>1. ASSUME NEW x \in Int, NEW y \in Int PROVE [Header(x) EXCEPT !.hopLimit = y] = Header(y)
    <3>1. Header(x) \in [hopLimit : Int, wantAck : BOOLEAN, viaMqtt : BOOLEAN, hopStart : Int]
      BY Roles DEF Header
    <3>2. Header(x).wantAck = FALSE /\ Header(x).viaMqtt = FALSE /\ Header(x).hopStart = HopLimit
      BY DEF Header
    <3> DEFINE r == [Header(x) EXCEPT !.hopLimit = y]
    <3>3. /\ r \in [hopLimit : Int, wantAck : BOOLEAN, viaMqtt : BOOLEAN, hopStart : Int]
          /\ r.hopLimit = y /\ r.wantAck = FALSE /\ r.viaMqtt = FALSE /\ r.hopStart = HopLimit
      BY <3>1, <3>2
    <3> HIDE DEF r
    <3>4. r = [hopLimit |-> r.hopLimit, wantAck |-> r.wantAck, viaMqtt |-> r.viaMqtt, hopStart |-> r.hopStart]
      BY <3>3
    <3>5. r = Header(y)
      BY <3>3, <3>4 DEF Header
    <3> QED
      BY <3>5 DEF r
  <2> HIDE DEF h
  <2> QED
    BY <1>1, <1>2, <2>1
<1>4. /\ d.flags = WriteFlags(Header(HopLimit - (c.count + 1)))
      /\ d.byte = (IF n \in untouched THEN c.byte ELSE NodeByte[n])
      /\ d.count = c.count + 1 /\ d.last = n
      /\ d = [flags |-> d.flags, byte |-> d.byte, count |-> d.count, last |-> d.last]
  BY <1>2, <1>3 DEF Relayed, Copy
<1> HIDE DEF d, h
<1>5. ReadFlags(d.flags) = Header(HopLimit - d.count) /\ d.flags \in 0..255
  BY <1>2, <1>4, FlagsKept, HeaderFits
<1>6. d.byte \in 0..255
  BY <1>4, Roles DEF AllCopies
<1>7. d \in AllCopies
  BY <1>1, <1>4, <1>5, <1>6, Roles DEF AllCopies
<1>8. d.count = 1 => c.count = 0
  BY <1>1, <1>4
<1>9. n \in untouched /\ c.last = Origin => c.byte = NodeByte[Origin]
  BY Roles DEF TellsItsWay, TypeOK
<1>10. TellsItsWay(d)
  <2>1. d.count <= HopLimit /\ (d.count = 0 <=> d.last = Origin)
    BY <1>1, <1>2, <1>4, Roles
  <2>2. d.byte = NodeByte[d.last] \/ (d.last \in untouched /\ (d.count = 1 => d.byte = NodeByte[Origin]))
    BY <1>4, <1>8, <1>9 DEF TellsItsWay
  <2> QED
    BY <1>5, <2>1, <2>2 DEF TellsItsWay, Header
<1> QED
  BY <1>4, <1>7, <1>10, Roles DEF d

\* A tracker concludes the truth from a copy that tells its way.
LEMMA ReportTrue ==
  ASSUME TypeOK, NEW c \in AllCopies, TellsItsWay(c), NEW n \in Trackers \ {Origin}, n # c.last
  PROVE  LET r == Report(n, c) IN
           /\ r.node = n /\ r.copy = c /\ r.hops = c.count /\ r.hops <= HopLimit
           /\ (/\ IsInjective(NodeByte) /\ Trackers \ {Origin, n} \subseteq heard[n]
               /\ c.last \in untouched => c.count = 1)
                => r.viaForeign = (c.last \in Meshtastic)
<1>1. c.count \in Nat /\ c.count <= HopLimit /\ HopLimit \in 1..7 /\ c.last \in Nodes
  BY Roles DEF AllCopies, TellsItsWay
<1>2. Hops(c) = c.count
  <2>1. ReadFlags(c.flags).hopLimit = HopLimit - c.count /\ ReadFlags(c.flags).hopStart = HopLimit
    BY DEF TellsItsWay
  <2> QED
    BY <1>1, <2>1 DEF Hops
<1>3. ASSUME IsInjective(NodeByte), Trackers \ {Origin, n} \subseteq heard[n],
             c.last \in untouched => c.count = 1
      PROVE  (Hops(c) # 0 /\ RelayedByForeign(n, c)) = (c.last \in Meshtastic)
  <2>1. \A x, y \in Nodes : NodeByte[x] = NodeByte[y] => x = y
    BY <1>3, Roles DEF IsInjective
  <2>2. heard[n] \subseteq Trackers /\ untouched \subseteq Meshtastic
    BY DEF TypeOK
  <2>3. CASE c.last = Origin
    BY <1>2, <2>3, Roles DEF TellsItsWay
  <2>4. CASE c.last # Origin /\ c.last \in Trackers
    <3>1. c.last \in heard[n] \ {Origin} /\ c.byte = NodeByte[c.last]
      BY <1>3, <2>2, <2>4, Roles DEF TellsItsWay
    <3> QED
      BY <2>4, <3>1, Roles DEF RelayedByForeign
  <2>5. CASE c.last \in Meshtastic
    <3>1. c.count # 0
      BY <2>5, Roles DEF TellsItsWay
    <3>2. c.byte = NodeByte[c.last] \/ c.byte = NodeByte[Origin]
      BY <1>3 DEF TellsItsWay
    <3>3. RelayedByForeign(n, c)
      BY <2>1, <2>2, <2>5, <3>2, Roles DEF RelayedByForeign
    <3> QED
      BY <1>2, <2>5, <3>1, <3>3
  <2> QED
    BY <1>1, <2>3, <2>4, <2>5 DEF Nodes
<1>4. /\ Report(n, c).node = n /\ Report(n, c).copy = c /\ Report(n, c).hops = Hops(c)
      /\ Report(n, c).viaForeign = (Hops(c) # 0 /\ RelayedByForeign(n, c))
  BY DEF Report
<1> QED
  BY <1>1, <1>2, <1>3, <1>4

\* Whoever receives a copy that tells its way keeps the invariant; if nothing was
\* to be relayed before, what a node has scheduled is waiting afterwards.
LEMMA ReceiveSound ==
  ASSUME IInv, NEW c \in AllCopies, TellsItsWay(c), NEW R \in SUBSET (Nodes \ {c.last}),
         NEW W \in SUBSET R, Receive(c, R, W), origin' \in {"awaits", "done"},
         UNCHANGED <<type, untouched>>,
         c.last # Origin \/ history.lost \/ \A n \in Others : relays[n] = NoCopy
  PROVE  IInv'
<1> DEFINE new == (R \ {Origin}) \ seen
           takers == {n \in new \ W : HopsLeft(c) > 0 /\ Willing(n)}
<1>1. /\ seen' = seen \cup new
      /\ relays' = [n \in Others |->
           IF n \in takers THEN Relayed(c, n)
           ELSE IF n \in R \/ n = c.last THEN NoCopy ELSE relays[n]]
      /\ reports' = {Report(n, c) : n \in new \cap Trackers}
      /\ heard' = [n \in Trackers |-> IF n \in new THEN heard[n] \cup {Origin} ELSE heard[n]]
      /\ history' = [history EXCEPT !.scheduled = @ \/ takers # {},
                                    !.relayed = @ \/ c.last # Origin]
  BY DEF Receive
<1>2. new \subseteq Others /\ takers \subseteq Others /\ c.last \notin new
  BY DEF Others
<1>3. takers # {} => HopsLeft(c) > 0
  OBVIOUS
<1> HIDE DEF takers, new
<1>4. \A n \in Others :
        /\ n \in takers => /\ relays'[n] \in AllCopies /\ relays'[n].last = n
                           /\ TellsItsWay(relays'[n]) /\ relays'[n] # NoCopy
        /\ n \notin takers => relays'[n] \in {NoCopy, relays[n]}
  BY <1>1, <1>3, RelayedTells DEF IInv
<1>5. TypeOK'
  <2>1. relays' \in [Others -> AllCopies \cup {NoCopy}]
    <3>1. relays \in [Others -> AllCopies \cup {NoCopy}]
      BY DEF IInv, TypeOK, AllCopies
    <3> QED
      BY <1>1, <1>4, <3>1
  <2>2. heard' \in [Trackers -> SUBSET Trackers] /\ seen' \subseteq Others
    BY <1>1, <1>2, Roles DEF IInv, TypeOK
  <2>3. history' \in [scheduled : BOOLEAN, relayed : BOOLEAN, lost : BOOLEAN]
    <3>1. (takers # {}) \in BOOLEAN /\ (c.last # Origin) \in BOOLEAN
      OBVIOUS
    <3> QED
      BY <1>1, <3>1 DEF IInv, TypeOK
  <2> QED
    BY <2>1, <2>2, <2>3 DEF IInv, TypeOK, AllCopies
<1>6. CopiesSound'
  <2>1. \A d : TellsItsWay(d)' <=> (TellsItsWay(d))
    BY DEF TellsItsWay
  <2>2. ASSUME NEW n \in Others, relays'[n] # NoCopy
        PROVE  relays'[n].last = n /\ TellsItsWay(relays'[n])
    BY <1>4, <2>2 DEF IInv, CopiesSound
  <2> QED
    BY <2>2 DEF CopiesSound, TellsItsWay
<1>7. NothingYet'
  BY DEF NothingYet
<1>8. ScheduledIsRelayed'
  <2>1. /\ history'.lost = history.lost
        /\ history'.scheduled = (history.scheduled \/ takers # {})
        /\ history'.relayed = (history.relayed \/ c.last # Origin)
    BY <1>1 DEF IInv, TypeOK
  <2>2. CASE takers # {}
    BY <1>2, <1>4, <2>2 DEF ScheduledIsRelayed
  <2>3. CASE takers = {}
    BY <2>1, <2>3 DEF IInv, ScheduledIsRelayed
  <2> QED
    BY <2>2, <2>3
<1>9. ReportsAreTrue'
  <2> SUFFICES ASSUME NEW r \in reports'
               PROVE  /\ r.hops = r.copy.count /\ r.hops <= HopLimit
                      /\ (/\ IsInjective(NodeByte)
                          /\ Trackers \ {Origin, r.node} \subseteq heard'[r.node]
                          /\ r.copy.last \in untouched' => r.copy.count = 1)
                           => r.viaForeign = (r.copy.last \in Meshtastic)
    BY DEF ReportsAreTrue
  <2>1. PICK n \in new \cap Trackers : r = Report(n, c)
    BY <1>1
  <2>2. n \in Trackers \ {Origin} /\ n # c.last
    BY <1>2, Roles
  <2>3. Trackers \ {Origin, n} \subseteq heard'[n] => Trackers \ {Origin, n} \subseteq heard[n]
    BY <1>1, <2>2
  <2>4. /\ r.node = n /\ r.copy = c /\ r.hops = c.count /\ r.hops <= HopLimit
        /\ (/\ IsInjective(NodeByte) /\ Trackers \ {Origin, n} \subseteq heard[n]
            /\ c.last \in untouched => c.count = 1)
             => r.viaForeign = (c.last \in Meshtastic)
    BY <2>1, <2>2, ReportTrue DEF IInv
  <2> QED
    BY <2>3, <2>4
<1> QED
  BY <1>5, <1>6, <1>7, <1>8, <1>9 DEF IInv

----------------------------------------------------------------------------

LEMMA InitSound == Init => IInv
<1> SUFFICES ASSUME Init PROVE IInv
  OBVIOUS
<1>1. TypeOK
  BY DEF Init, TypeOK
<1> QED
  BY <1>1 DEF Init, IInv, CopiesSound, NothingYet, ScheduledIsRelayed, ReportsAreTrue

LEMMA FirstSound == IInv /\ (SendsFirst \/ Repeats) => IInv'
<1> SUFFICES ASSUME IInv, SendsFirst \/ Repeats PROVE IInv'
  OBVIOUS
<1>1. PICK R \in SUBSET Others : \E W \in SUBSET R : Receive(FirstCopy, R, W)
  BY DEF SendsFirst, Repeats
<1>2. PICK W \in SUBSET R : Receive(FirstCopy, R, W)
  BY <1>1
<1>3. R \in SUBSET (Nodes \ {FirstCopy.last})
  BY FirstTells DEF Others
<1>4. origin' \in {"awaits", "done"} /\ UNCHANGED <<type, untouched>>
  BY DEF SendsFirst, Repeats
<1>5. history.lost \/ \A n \in Others : relays[n] = NoCopy
  BY DEF SendsFirst, Repeats, RepetitionDue, IInv, NothingYet
<1> QED
  BY <1>2, <1>3, <1>4, <1>5, FirstTells, ReceiveSound

LEMMA RelaysSound == ASSUME IInv, NEW n \in Others, Relays(n) PROVE IInv'
<1>1. PICK R \in SUBSET (Nodes \ {n}) : \E W \in SUBSET R :
        /\ Receive(relays[n], R, W)
        /\ origin' = IF Origin \in R /\ origin = "awaits" THEN "done" ELSE origin
  BY DEF Relays
<1>2. PICK W \in SUBSET R : Receive(relays[n], R, W)
  BY <1>1
<1>3. /\ relays[n] # NoCopy /\ relays[n] \in AllCopies
      /\ relays[n].last = n /\ TellsItsWay(relays[n])
  BY DEF Relays, IInv, TypeOK, CopiesSound, AllCopies
<1>4. origin' \in {"awaits", "done"}
  BY <1>1, <1>3 DEF IInv, TypeOK, NothingYet
<1>5. UNCHANGED <<type, untouched>>
  BY DEF Relays
<1>6. relays[n].last # Origin /\ R \in SUBSET (Nodes \ {relays[n].last})
  BY <1>3, Roles
<1> QED
  BY <1>2, <1>3, <1>4, <1>5, <1>6, ReceiveSound

\* What happens between the transmissions only takes copies away, and says so.
LEMMA QuietSound ==
  ASSUME IInv, UNCHANGED <<type, untouched>>, reports' = {},
         heard' \in [Trackers -> SUBSET Trackers], seen' \subseteq seen,
         relays' \in [Others -> AllCopies \cup {NoCopy}],
         \A n \in Others : relays'[n] \in {NoCopy, relays[n]},
         origin' \in {origin, "done"},
         history' = [history EXCEPT !.lost = TRUE] \/ (history' = history /\ relays' = relays)
  PROVE  IInv'
<1>1. /\ history'.scheduled = history.scheduled /\ history'.relayed = history.relayed
      /\ history' \in [scheduled : BOOLEAN, relayed : BOOLEAN, lost : BOOLEAN]
      /\ history'.lost \/ (history'.lost = history.lost /\ relays' = relays)
  BY DEF IInv, TypeOK
<1>2. TypeOK'
  BY <1>1 DEF IInv, TypeOK, AllCopies
<1>3. CopiesSound'
  BY DEF IInv, CopiesSound, TellsItsWay
<1>4. NothingYet' /\ ScheduledIsRelayed' /\ ReportsAreTrue'
  BY <1>1 DEF IInv, NothingYet, ScheduledIsRelayed, ReportsAreTrue
<1> QED
  BY <1>2, <1>3, <1>4 DEF IInv

LEMMA StepSound == IInv /\ [Next]_vars => IInv'
<1> SUFFICES ASSUME IInv, [Next]_vars PROVE IInv'
  OBVIOUS
<1>1. CASE UNCHANGED vars
  BY <1>1 DEF vars, IInv, TypeOK, CopiesSound, TellsItsWay, NothingYet, ScheduledIsRelayed, ReportsAreTrue
<1>2. /\ relays \in [Others -> AllCopies \cup {NoCopy}] /\ heard \in [Trackers -> SUBSET Trackers]
      /\ seen \subseteq Others
  BY DEF IInv, TypeOK, AllCopies
<1>3. ASSUME NEW n \in Others, Postpones(n) \/ GivesUp(n) \/ Forgets(n) PROVE IInv'
  BY <1>2, <1>3, QuietSound DEF Postpones, GivesUp, Forgets
<1>4. ASSUME NEW n \in Nodes, Restarts(n) PROVE IInv'
  <2>1. /\ UNCHANGED <<type, untouched>> /\ reports' = {} /\ seen' \subseteq seen
        /\ heard' \in [Trackers -> SUBSET Trackers] /\ origin' \in {origin, "done"}
    BY <1>2, <1>4 DEF Restarts
  <2>2. /\ relays' \in [Others -> AllCopies \cup {NoCopy}]
        /\ \A m \in Others : relays'[m] \in {NoCopy, relays[m]}
    BY <1>2, <1>4 DEF Restarts
  <2>3. history' = [history EXCEPT !.lost = TRUE] \/ (history' = history /\ relays' = relays)
    <3>1. history = [history EXCEPT !.lost = history.lost]
      BY DEF IInv, TypeOK
    <3>2. n = Origin \/ n \in Others
      BY DEF Others
    <3>3. CASE n # Origin /\ relays[n] # NoCopy
      BY <1>4, <3>3 DEF Restarts
    <3>4. CASE n = Origin
      BY <1>4, <3>1, <3>4 DEF Restarts, IInv, TypeOK
    <3>5. CASE n # Origin /\ relays[n] = NoCopy
      <4>1. relays' = relays
        BY <1>2, <1>4, <3>2, <3>5 DEF Restarts
      <4> QED
        BY <1>4, <3>1, <3>5, <4>1 DEF Restarts, IInv, TypeOK
    <3> QED
      BY <3>3, <3>4, <3>5
  <2> QED
    BY <2>1, <2>2, <2>3, QuietSound
<1> QED
  BY <1>1, <1>3, <1>4, FirstSound, RelaysSound DEF Next

LEMMA Inductive == Spec => []IInv
  BY InitSound, StepSound, PTL DEF Spec

\* In a mesh of any size and shape trackers are told truly how often a packet was
\* relayed, within the hop limit, and whether by a foreign node (mesh.cpp:221).
THEOREM ReportsTrue == Spec => []ReportsAreTrue
  BY Inductive, PTL DEF IInv

\* However many nodes cancel their relays for each other, a packet that one of them
\* meant to relay is relayed (mesh.cpp:454).
THEOREM ScheduledRelayed == Spec => []ScheduledIsRelayed
  BY Inductive, PTL DEF IInv
=============================================================================
