------------------------------- MODULE FixedData -------------------------------
(***************************************************************************)
(* Fixed data (frame.go processFixedData), as operators on cccData of one  *)
(* logical channel.                                                        *)
(*                                                                         *)
(* Fixed data is the end of a frame: the subchannels, then a few bytes of  *)
(* the CCC, which tells their lengths, then a byte that tells how many     *)
(* bytes of the CCC there are.  processFixedCCC, which would read the CCC  *)
(* and set fixedReady, is called from nowhere: parseHDLC hands what it     *)
(* finds in the CCC to aasPush, and nothing behind the test of fixedReady  *)
(* in processFixedData is ever reached.                                    *)
(***************************************************************************)
EXTENDS Hdlc

CONSTANT CccSize  \* len(cccBuf) (32)

ASSUME CccSizeAssumption == CccSize \in Nat

\* The byte with which a station tells a width.
SyncByte(width) == IF width = 1 THEN 0 ELSE (width \div 2) * 17

NoFixed == [width |-> 0, count |-> 0, ccc |-> NoParser]
FixedState == [width: 0..30, count: 0..2, ccc: Parser]

SyncWidth(b) == IF b = 0 THEN 1 ELSE IF b \div 16 = b % 16 THEN (b % 16) * 2 ELSE 0

\* The width is believed when three frames in a row told the same, and for good.
Synced(rx, b) ==
  LET w == SyncWidth(b) IN
  IF rx.count = 2 THEN rx
  ELSE [rx EXCEPT !.count = IF w > 0 /\ w = rx.width THEN @ + 1 ELSE 0, !.width = w]

\* processFixedData on a frame of these bytes: cccData after it, where the audio
\* ends, and what aasPush took from the CCC, messages with a right check being sent.
ReadFixed(rx, bytes, sent) ==
  LET last == Len(bytes) - 1
      synced == Synced(rx, bytes[last + 1])
      p == last - synced.width
      acc == Parsed([on |-> synced.ccc.on, buf |-> synced.ccc.buf, out |-> << >>],
                    SubSeq(bytes, p + 1, last), CccSize, sent)
  IN IF synced.count < 2 THEN [rx |-> synced, audioEnd |-> last, out |-> << >>]
     ELSE [rx |-> [synced EXCEPT !.ccc = ParserOf(acc)], audioEnd |-> p, out |-> acc.out]

\* frame.reset.
ResetFixed(rx) == NoFixed
=============================================================================
