------------------------------ MODULE Formats ------------------------------
(***************************************************************************)
(* The conversions of meshproto.cpp: integers as bytes, the flags of the   *)
(* Meshtastic header, positions.  What the firmware keeps as a floating    *)
(* point number is an integer here, in tenths of the step it is rounded    *)
(* to; of a message, the fields are modelled and not their offsets.        *)
(***************************************************************************)
EXTENDS Integers, Sequences

\* putU16, putU32: the low bytes in two's complement, lowest first.
PutU16(v) == <<v % 256, (v \div 256) % 256>>
PutU32(v) ==
  LET v1 == v \div 256
      v2 == v1 \div 256
      v3 == v2 \div 256 IN <<v % 256, v1 % 256, v2 % 256, v3 % 256>>

\* getU16, getU32 and their casts to int16_t, int32_t.
Signed(b) == IF b < 128 THEN b ELSE b - 256
GetU16(b) == b[1] + 256 * b[2]
GetU32(b) == b[1] + 256 * b[2] + 65536 * b[3] + 16777216 * b[4]
GetI16(b) == b[1] + 256 * Signed(b[2])
GetI32(b) == b[1] + 256 * b[2] + 65536 * b[3] + 16777216 * Signed(b[4])

----------------------------------------------------------------------------
(* Byte 12 of the header: hop limit in 3 bits, want-ack, via-mqtt, hop start *)

WriteFlags(h) ==
  (h.hopLimit % 8) + (IF h.wantAck THEN 8 ELSE 0) + (IF h.viaMqtt THEN 16 ELSE 0)
    + (h.hopStart % 8) * 32
ReadFlags(b) ==
  [hopLimit |-> b % 8, wantAck |-> (b \div 8) % 2 = 1, viaMqtt |-> (b \div 16) % 2 = 1,
   hopStart |-> (b \div 32) % 8]

Flags == [hopLimit : 0..7, wantAck : BOOLEAN, viaMqtt : BOOLEAN, hopStart : 0..7]

----------------------------------------------------------------------------
(* Positions *)

\* clampRound; lround rounds halves away from zero.
Clamp(v, lo, hi) == IF v < lo THEN lo ELSE IF v > hi THEN hi ELSE v
Round(v) == IF v >= 0 THEN (v + 5) \div 10 ELSE -((5 - v) \div 10)
ClampRound(v, lo, hi) == Round(Clamp(v, 10 * lo, 10 * hi))

\* fmod(heading + 360, 360), for headings above -360 degrees.
Turn == 360000
Heading(h) == (h + Turn) % Turn

encodePosition(p) ==
  [latitude  |-> PutU32(ClampRound(p.latitude, -900000000, 900000000)),
   longitude |-> PutU32(ClampRound(p.longitude, -1800000000, 1800000000)),
   altitude  |-> PutU16(ClampRound(p.altitude, -32768, 32767)),
   speedMps  |-> PutU16(ClampRound(p.speedMps, 0, 65535)),
   heading   |-> PutU16(ClampRound(Heading(p.heading), 0, 35999)),
   accuracy  |-> PutU16(ClampRound(p.accuracy, 0, 65535)),
   fixTime   |-> PutU32(p.fixTime),
   urlHash   |-> PutU16(p.urlHash)]

decodePosition(m) ==
  [latitude  |-> GetI32(m.latitude),
   longitude |-> GetI32(m.longitude),
   altitude  |-> GetI16(m.altitude),
   speedMps  |-> GetU16(m.speedMps),
   heading   |-> GetU16(m.heading),
   accuracy  |-> GetU16(m.accuracy),
   fixTime   |-> GetU32(m.fixTime),
   urlHash   |-> GetU16(m.urlHash)]
=============================================================================
