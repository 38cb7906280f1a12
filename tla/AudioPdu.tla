-------------------------------- MODULE AudioPdu --------------------------------
(***************************************************************************)
(* How the PDUs of one frame are found and taken apart (frame.go process   *)
(* with fixHeader, parseHeader, parseLocation, parseHEF), as operators on  *)
(* a frame:                                                                *)
(*                                                                         *)
(*   bytes      the frame's bytes;                                         *)
(*   headers    where a header is that fixHeader can repair, and what it   *)
(*              says; anywhere else fixHeader fails;                       *)
(*   packets    the stretches, packet and check byte, for which crc8 is 0. *)
(*                                                                         *)
(* Offsets count from 0, as in the code.                                   *)
(***************************************************************************)
EXTENDS Hdlc

CONSTANTS
  HeaderLen,    \* bytes of a PDU before the locations (14)
  CodewordLen,  \* rsCodewordLen (96)
  AasSize       \* maxAASLen (8212)

ASSUME CodewordAssumption == HeaderLen \in Nat \ {0} /\ CodewordLen \in Nat /\ HeaderLen < CodewordLen
ASSUME AasSizeAssumption == AasSize \in Nat

MaxStreams == 2
Prog == 0..7

Slice(s, from, to) == SubSeq(s, from + 1, to)
Nth(s, o) == s[o + 1]

-----------------------------------------------------------------------------
(* The station: a PDU is its codec mode and stream, the fields of its header  *)
(* expansion, its program, and its packets, sequences of bytes; it carries    *)
(* program service data besides.                                              *)

Pdus == [codec: Nat, stream: Nat, hef: Seq(Seq(Byte)), prog: Prog, packets: Seq(Seq(Byte))]

\* calcLCBits: bits of a location.
LcBits(codec, stream) ==
  IF codec \in {10, 13} \/ (codec \in {1, 2, 3} /\ stream = 0) THEN 12 ELSE 16

LocBytes(bits, nop) == (bits * nop + 4) \div 8

\* Locations as the station packs them, two of 12 bits to three bytes.
Packed(locs, bits) ==
  LET At(i) == IF i + 1 \in 1..Len(locs) THEN locs[i + 1] ELSE 0
  IN [k \in 1..LocBytes(bits, Len(locs)) |->
        IF bits = 16 THEN (IF k % 2 = 1 THEN At(k \div 2) % 256 ELSE At(k \div 2 - 1) \div 256)
        ELSE LET pair == 2 * ((k - 1) \div 3) IN
             CASE (k - 1) % 3 = 0 -> At(pair) % 256
               [] (k - 1) % 3 = 1 -> (At(pair) \div 256) + 16 * (At(pair + 1) % 16)
               [] OTHER           -> At(pair + 1) \div 16]

Bits(pdu) == LcBits(pdu.codec, pdu.stream)

\* Offset in the PDU of the last byte of its program service data, n bytes, and of the
\* check byte of each packet.
LaLocation(pdu, n) ==
  HeaderLen + LocBytes(Bits(pdu), Len(pdu.packets)) + Len(Concat(pdu.hef)) + n - 1
Body(pdu) == [j \in 1..Len(pdu.packets) |-> Append(pdu.packets[j], 0)]
Locations(pdu, n) == [j \in 1..Len(pdu.packets) |-> LaLocation(pdu, n) + Len(Prefixes(Body(pdu))[j])]
PduLen(pdu, n) == LaLocation(pdu, n) + 1 + Len(Concat(Body(pdu)))

\* The PDU at offset start of the frame, the packets in bad damaged on the way; check
\* bytes and the bytes of the header are 0 here.
Encoded(pdu, psd, start, bad) ==
  LET la == LaLocation(pdu, Len(psd))
      locs == Locations(pdu, Len(psd))
  IN [bytes   |-> [i \in 1..HeaderLen |-> 0] \o Packed(locs, Bits(pdu)) \o Concat(pdu.hef) \o psd
                    \o Concat(Body(pdu)),
      header  |-> [at |-> start, codec |-> pdu.codec, stream |-> pdu.stream,
                   nop |-> Len(locs), hef |-> pdu.hef # << >>, la |-> la],
      packets |-> {<<start + locs[j] - Len(pdu.packets[j]), start + locs[j]>> : j \in DOMAIN locs \ bad}]

\* The frame with one more PDU, its header damaged beyond repair or not.
WithPdu(frame, pdu, psd, bad, lost) ==
  LET e == Encoded(pdu, psd, Len(frame.bytes), bad) IN
  [bytes |-> frame.bytes \o e.bytes,
   headers |-> IF lost THEN frame.headers ELSE frame.headers \cup {e.header},
   packets |-> frame.packets \cup e.packets]
NoPdus == [bytes |-> << >>, headers |-> {}, packets |-> {}]

-----------------------------------------------------------------------------
(* The receiver. *)

\* parseLocation.
ParseLocation(bytes, at, bits, i) ==
  LET b(k) == Nth(bytes, at + k) IN
  IF bits = 16 THEN b(2*i + 1) * 256 + b(2*i)
  ELSE LET t == (i \div 2) * 3 IN
       IF i % 2 = 0 THEN (b(t + 1) % 16) * 256 + b(t) ELSE b(t + 2) * 16 + b(t + 1) \div 16

ParseLocations(bytes, at, bits, nop) == [j \in 1..nop |-> ParseLocation(bytes, at, bits, j - 1)]

\* parseHEF: bytes of a field that begins with b, and the program number that it tells.
HefField(b) ==
  LET long == (b \div 8) % 2 = 1 IN
  CASE (b \div 16) % 8 = 1 -> IF b % 2 = 1 THEN 3 ELSE 1
    [] (b \div 16) % 8 = 2 -> 2
    [] (b \div 16) % 8 = 3 -> IF long THEN 5 ELSE 4
    [] (b \div 16) % 8 = 4 -> IF long THEN 4 ELSE 2
    [] OTHER               -> 1
TellsProg(b) == (b \div 16) % 8 = 1
ProgTold(b) == (b \div 2) % 8

\* The last byte of a field tells whether another one follows.
FirstByteTells(bytes, at, size) == Nth(bytes, at) >= 128  \* mutant
MoreFields(bytes, at, size) == Nth(bytes, at + size - 1) >= 128

\* parseHEF, one field: where the next one is, if there is one, and the program number;
\* end is where the bytes end.
HefStep(acc, bytes, end) ==
  IF ~acc.more THEN acc
  ELSE IF acc.at >= end THEN [acc EXCEPT !.more = FALSE]
  ELSE LET b == Nth(bytes, acc.at)
           size == HefField(b)
           fits == acc.at + size <= end
       IN [at   |-> IF fits THEN acc.at + size ELSE end,
           more |-> fits /\ MoreFields(bytes, acc.at, size),
           prog |-> IF TellsProg(b) THEN ProgTold(b) ELSE acc.prog]
ParseHEF(bytes, o, end) ==
  LET after[i \in 0..Len(bytes)] ==
        IF i = 0 THEN [at |-> o, more |-> TRUE, prog |-> 0] ELSE HefStep(after[i - 1], bytes, end)
  IN after[Len(bytes)]

\* The header checks of process: increasing locations between the program service
\* data and the end of the audio.
Sensible(hdr, loc, locEnd, audioEnd) ==
  /\ hdr.at + hdr.la + 1 >= locEnd /\ hdr.at + hdr.la < audioEnd
  /\ \A j \in 1..hdr.nop :
       /\ loc[j] > IF j = 1 THEN hdr.la ELSE loc[j - 1]
       /\ hdr.at + loc[j] < audioEnd

\* What a PDU's packets are pushed as: their bytes, and whether crc8 was 0.
Packets(frame, hdr, loc) ==
  [j \in 1..hdr.nop |->
     LET from == IF j = 1 THEN hdr.at + hdr.la + 1 ELSE hdr.at + loc[j - 1] + 1
         to == hdr.at + loc[j]
     IN [data |-> Slice(frame.bytes, from, to), ok |-> <<from, to>> \in frame.packets]]

\* process, the PDU with header hdr: where the next one is, what this one brings, the
\* parsers of the programs, and the messages aasPush took.  A stream the code does not
\* know is skipped by its number of packets, where the offset of its last packet is meant.
TakePdu(acc, frame, hdr, audioEnd, sent) ==
  LET bits == LcBits(hdr.codec, hdr.stream)
      locEnd == hdr.at + HeaderLen + LocBytes(bits, hdr.nop)
      loc == ParseLocations(frame.bytes, hdr.at + HeaderLen, bits, hdr.nop)
      hef == IF hdr.hef THEN ParseHEF(frame.bytes, locEnd, audioEnd)
             ELSE [at |-> locEnd, more |-> FALSE, prog |-> 0]
      data == Slice(frame.bytes, hef.at, hdr.at + hdr.la + 1)
      p == Parsed([on |-> acc.psd[hef.prog].on, buf |-> acc.psd[hef.prog].buf, out |-> acc.out],
                  data, AasSize, sent)
  IN IF ~Sensible(hdr, loc, locEnd, audioEnd) THEN acc
     ELSE IF hdr.stream >= MaxStreams THEN [acc EXCEPT !.at = @ + hdr.nop]
     ELSE [at   |-> hdr.at + (IF hdr.nop = 0 THEN hdr.la ELSE loc[hdr.nop]) + 1,
           pdus |-> Append(acc.pdus, [prog |-> hef.prog, stream |-> hdr.stream, psd |-> data,
                                      packets |-> Packets(frame, hdr, loc)]),
           psd  |-> [acc.psd EXCEPT ![hef.prog] = ParserOf(p)],
           out  |-> p.out]

\* process, all PDUs; once it has returned, nothing changes any more.
TakeNext(acc, frame, audioEnd, sent) ==
  LET there == {h \in frame.headers : h.at = acc.at} IN
  IF acc.at >= audioEnd - CodewordLen \/ there = {} THEN acc
  ELSE TakePdu(acc, frame, CHOOSE h \in there : TRUE, audioEnd, sent)
Walk(psd, frame, audioEnd, sent) ==
  LET after[i \in 0..Len(frame.bytes)] ==
        IF i = 0 THEN [at |-> 0, pdus |-> << >>, psd |-> psd, out |-> << >>]
        ELSE TakeNext(after[i - 1], frame, audioEnd, sent)
  IN after[Len(frame.bytes)]

-----------------------------------------------------------------------------
(* PDUs as a station sends them, with room for n bytes of service data: each  *)
(* field of the header expansion is as long as its first byte says and tells  *)
(* with its last whether another one follows, the last one that tells a       *)
(* program tells the PDU's; the locations fit their bits; there is room for   *)
(* the code word; and a stream the code does not know is not empty.           *)

FieldsRight(hef) ==
  \A k \in 1..Len(hef) :
    /\ hef[k] # << >> /\ Len(hef[k]) = HefField(hef[k][1])
    /\ (hef[k][Len(hef[k])] >= 128) <=> (k < Len(hef))
ProgRight(hef, prog) ==
  \E k \in 0..Len(hef) :
    /\ \A l \in k + 1..Len(hef) : ~TellsProg(hef[l][1])
    /\ IF k = 0 THEN prog = 0 ELSE TellsProg(hef[k][1]) /\ ProgTold(hef[k][1]) = prog

WellFormed(pdu, n) ==
  /\ pdu \in Pdus
  /\ FieldsRight(pdu.hef) /\ ProgRight(pdu.hef, pdu.prog)
  /\ PduLen(pdu, n) <= IF Bits(pdu) = 12 THEN 4096 ELSE 65536
  /\ PduLen(pdu, 0) > CodewordLen
  /\ pdu.stream >= MaxStreams => pdu.packets # << >>
=============================================================================
