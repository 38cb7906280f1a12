---------------------------------- MODULE Hdlc ----------------------------------
(***************************************************************************)
(* HDLC framing (frame.go parseHDLC, unescapeHDLC, aasPush), as operators  *)
(* on one parser: program service data, the CCC and each subchannel have   *)
(* one of their own.                                                       *)
(*                                                                         *)
(* The check sequence is taken to be perfect: a message passes fcs16 when  *)
(* it is, byte for byte, one that was sent.                                *)
(***************************************************************************)
EXTENDS Integers, Sequences

Flag == 126      \* 0x7E
Escape == 125    \* 0x7D
Protocol == 33   \* 0x21
Byte == 0..255

\* Sequences one after the other: what there is after each of them, and after all.
Prefixes(seqs) ==
  LET upto[j \in 0..Len(seqs)] == IF j = 0 THEN << >> ELSE upto[j - 1] \o seqs[j] IN upto
Concat(seqs) == Prefixes(seqs)[Len(seqs)]

-----------------------------------------------------------------------------
(* The station: a schedule of messages, each with its protocol byte and check *)
(* sequence, of which it sends all bytes, or abandons the message after some. *)

Escaped(b) == IF b \in {Flag, Escape} THEN <<Escape, b - 32>> ELSE <<b>>
Framed(m) == Concat([i \in 1..Len(m) |-> Escaped(m[i])])
Whole(m) == [msg |-> m, bytes |-> Framed(m)]
Abandoned(m, n) == [msg |-> << >>, bytes |-> SubSeq(Framed(m), 1, n)]

\* The bytes of one turn of a schedule.  Each is sent with the message that it,
\* a flag, ends.
Items(entry) ==
  [i \in 1..Len(entry.bytes) |-> [b |-> entry.bytes[i], ends |-> << >>]]
    \o <<[b |-> Flag, ends |-> entry.msg]>>
Turns(schedule) == [i \in 1..Len(schedule) |-> Items(schedule[i])]
Stream(schedule) == Concat(Turns(schedule))

\* n items of a stream that repeats for ever, from position at on.
Turn(stream, at, n) == [i \in 1..n |-> stream[((at + i - 1) % Len(stream)) + 1]]
BytesOf(items) == [i \in 1..Len(items) |-> items[i].b]

-----------------------------------------------------------------------------
(* The receiver. *)

Parser == [on: BOOLEAN, buf: Seq(Byte)]

\* bufidx = -1: everything up to the next flag is skipped.
NoParser == [on |-> FALSE, buf |-> << >>]

WithBit5(b) == IF (b \div 32) % 2 = 1 THEN b ELSE b + 32

\* unescapeHDLC; an escape byte at the very end is dropped.
UnescapeByte(acc, b) ==
  IF acc.esc THEN [out |-> Append(acc.out, WithBit5(b)), esc |-> FALSE]
  ELSE IF b = Escape THEN [out |-> acc.out, esc |-> TRUE]
  ELSE [out |-> Append(acc.out, b), esc |-> FALSE]
Unescaped(raw) ==
  LET after[i \in 0..Len(raw)] ==
        IF i = 0 THEN [out |-> << >>, esc |-> FALSE] ELSE UnescapeByte(after[i - 1], raw[i])
  IN after[Len(raw)].out

\* aasPush on the frame raw: out collects the messages it takes, sent being those sent,
\* and Content is what it slices out of one for output.aasPush.
Accepted(m, sent) == m # << >> /\ m \in sent /\ m[1] = Protocol
AasPush(out, raw, sent) ==
  IF Accepted(Unescaped(raw), sent) THEN Append(out, Unescaped(raw)) ELSE out
Content(m) == SubSeq(m, 2, Len(m) - 3)

\* What the station put between protocol and check sequence.
SentContent(m) == SubSeq(m, 2, Len(m) - 2)

\* parseHDLC, one byte: a parser, and what aasPush took from it and those before.
Begun(acc, rest, sent) ==
  [on |-> TRUE, buf |-> rest, out |-> IF acc.on THEN AasPush(acc.out, acc.buf, sent) ELSE acc.out]
Off(acc) == [on |-> FALSE, buf |-> << >>, out |-> acc.out]
With(acc, b) == [on |-> TRUE, buf |-> Append(acc.buf, b), out |-> acc.out]
OneMore(acc, b, size, sent) ==  \* mutant
  IF b = Flag THEN Begun(acc, << >>, sent)
  ELSE IF ~acc.on THEN acc
  ELSE IF Len(acc.buf) > size THEN Off(acc) ELSE With(acc, b)
NeverEmptied(acc, b, size, sent) ==  \* mutant
  IF b = Flag THEN Begun(acc, acc.buf, sent)
  ELSE IF ~acc.on THEN acc
  ELSE IF Len(acc.buf) = size THEN Off(acc) ELSE With(acc, b)
ParseByte(acc, b, size, sent) ==
  IF b = Flag THEN Begun(acc, << >>, sent)
  ELSE IF ~acc.on THEN acc
  ELSE IF Len(acc.buf) = size THEN Off(acc) ELSE With(acc, b)

\* parseHDLC on a chunk of bytes.
Parsed(acc, chunk, size, sent) ==
  LET after[i \in 0..Len(chunk)] ==
        IF i = 0 THEN acc ELSE ParseByte(after[i - 1], chunk[i], size, sent)
  IN after[Len(chunk)]
ParserOf(acc) == [on |-> acc.on, buf |-> acc.buf]

-----------------------------------------------------------------------------
(* What a listener may expect: the messages that were received from the flag  *)
(* before to the flag after them, nothing of them lost, if the receiver has   *)
(* room for them and they are of the protocol it knows.                       *)

IsDue(m, size) == m # << >> /\ m[1] = Protocol /\ Len(Framed(m)) <= size

HeardItem(acc, item, size) ==
  IF item.b # Flag THEN acc
  ELSE [sound |-> TRUE,
        due |-> IF acc.sound /\ IsDue(item.ends, size) THEN Append(acc.due, item.ends) ELSE acc.due]
Heard(acc, items, size) ==
  LET after[i \in 0..Len(items)] ==
        IF i = 0 THEN acc ELSE HeardItem(after[i - 1], items[i], size)
  IN after[Len(items)]
=============================================================================
