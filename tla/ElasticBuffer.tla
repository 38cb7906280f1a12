----------------------------- MODULE ElasticBuffer -----------------------------
(***************************************************************************)
(* One program's elastic buffer (frame.go process, output.go), the station *)
(* that fills it through audio PDUs, and the windows that drain it.        *)
(*                                                                         *)
(* The station numbers its audio packets without end; the receiver sees    *)
(* the numbers modulo Len only, and where to play modulo Half only.  Here  *)
(* packet numbers are relative to the one the listener should hear next,   *)
(* so packet r belongs in slot (now + r) % Len.  acquire.process plays Per *)
(* packets at the start of every window (Advance); a PDU comes at the end  *)
(* of every avg \div Per windows.                                          *)
(***************************************************************************)
EXTENDS Integers, FiniteSets

CONSTANTS
  Half,    \* half of ELASTIC_BUFFER_LEN (32)
  Avgs,    \* calcAvgPackets: packets a PDU stands for (4 and 32)
  Per,     \* packets played in a window (2 in FM, 4 in AM)
  Seqs,    \* values of pduSeq (8)
  Latency, \* latency * 2 of the station's header
  MaxTrouble  \* bound on damaged packets, lost PDUs, lost windows and resets

Len == 2 * Half
Slot == 0..Len - 1

ASSUME HalfAssumption == Half \in Nat \ {0}
ASSUME PerAssumption == Per \in Nat \ {0} /\ Per <= Half
ASSUME LatencyAssumption == Latency \in 0..Len
ASSUME SeqsAssumption == Seqs \in Nat \ {0} /\ MaxTrouble \in Nat
ASSUME AvgsAssumption ==
  \A n \in Avgs : n \in Per..Half /\ n % Per = 0 /\ (Seqs * n) % Half = 0

VARIABLES
  slots,   \* elastic.packets: shape, the CRC flag, and what the slot holds
  offset,  \* elastic.audioOffset, -1 before the first PDU
  now,     \* station: the slot of the packet the listener should hear next
  avg,     \* station: packets per PDU
  wait,    \* station: windows until the next PDU is received
  pduSeq,  \* station: the next PDU's number
  lead,    \* station: the next PDU's first packet, relative to when it comes
  split,   \* station: that packet's front half was in the PDU before
  astray,  \* history: windows were lost, and no PDU received since
  doubt,   \* history: packets to play until nothing from before that is left
  gap,     \* history: packets to play until the last one lost has passed
  trouble  \* troubles so far

station == <<now, avg, wait, pduSeq, lead, split>>
vars == <<slots, offset, station, astray, doubt, gap, trouble>>

Empty == [shape |-> "none", ok |-> TRUE, of |-> "nothing"]

\* "due": the packet that belongs in this slot this turn; "missed": one whose
\* time has passed; "mixed": halves of two packets.
Packet == [shape: {"front", "full"}, ok: BOOLEAN, of: {"due", "missed", "mixed"}]

TypeOK ==
  /\ slots \in [Slot -> Packet \cup {Empty}]
  /\ offset \in -1..Len - 1
  /\ now \in Slot /\ avg \in Avgs /\ wait \in 0..avg \div Per
  /\ pduSeq \in 0..Seqs - 1 /\ lead \in 0..Half - 1 /\ split \in BOOLEAN
  /\ astray \in BOOLEAN /\ doubt \in 0..Len /\ gap \in 0..Len
  /\ trouble \in 0..MaxTrouble

-----------------------------------------------------------------------------
(* The station.  Its side of the agreement: when a PDU comes, pduSeq and   *)
(* latency name the packet then due up to half a buffer, and the PDU's     *)
(* first packet is less than half a buffer ahead.                          *)

Bit(b) == IF b THEN 1 ELSE 0

\* The position in the header of PDU number k, a PDU standing for n packets.
Header(k, n) == (Len + k * n - Latency) % Len

\* Where the station may be, w windows before that PDU.
Agreed(w, k, n) == {(Header(k, n) + turn - w * Per) % Len : turn \in {0, Half}}

\* Packets to play before the first one of which no part was sent by now.
Unsent == wait * Per + lead + Bit(split)

AnyStation ==
  /\ avg \in Avgs /\ wait \in 0..avg \div Per /\ pduSeq \in 0..Seqs - 1
  /\ now \in Agreed(wait, pduSeq, avg)
  /\ lead \in 0..Half - 1 /\ split \in BOOLEAN

\* The PDU that comes now holds the packets lead to Last, and leaves the next
\* one with nextLead and nextSplit.
Last(nextLead, nextSplit) == nextLead + avg - 1 + Bit(nextSplit)

SendPdu(nextLead, nextSplit) ==
  /\ wait = 0
  /\ Last(nextLead, nextSplit) >= lead + Bit(split /\ nextSplit)
  /\ wait' = avg \div Per
  /\ pduSeq' = (pduSeq + 1) % Seqs
  /\ lead' = nextLead /\ split' = nextSplit
  /\ UNCHANGED <<now, avg>>

-----------------------------------------------------------------------------
(* The receiver. *)

Init ==
  /\ slots = [i \in Slot |-> Empty] /\ offset = -1
  /\ AnyStation
  /\ astray = FALSE /\ doubt = 0 /\ gap = Unsent /\ trouble = 0

\* process: the first packet's slot, from hdr.seq, which does not count a back half.
FirstSlot ==
  LET hdrSeq == (now + lead + Bit(split)) % Len IN (Len + hdrSeq - Bit(split)) % Len

\* process and align: the header's position or the one half a buffer on,
\* whichever has the first packet less than half a buffer ahead.
ShortHalf ==  \* mutant
  LET o == Header(pduSeq, avg) IN
  IF (Len + FirstSlot - o) % Len > Half THEN (o + Half) % Len ELSE o
OutputOffset ==
  LET o == Header(pduSeq, avg) IN
  IF (Len + FirstSlot - o) % Len >= Half THEN (o + Half) % Len ELSE o

\* push: a back half joins the front half in its slot or is dropped.
NeverJoin(old, shape, ok, of) ==  \* mutant
  IF shape = "back" THEN old ELSE [shape |-> shape, ok |-> ok, of |-> of]
Pushed(old, shape, ok, of) ==
  IF shape # "back" THEN [shape |-> shape, ok |-> ok, of |-> of]
  ELSE IF old.shape # "front" THEN old
  ELSE [shape |-> "full", ok |-> old.ok /\ ok, of |-> IF old.of = of THEN of ELSE "mixed"]

\* The buffer after the packets lead to last were pushed, those in bad with a
\* CRC error.
Filled(last, nextSplit, bad) ==
  [i \in Slot |->
     LET r == lead + ((i - FirstSlot) % Len) IN
     IF r > last THEN slots[i]
     ELSE Pushed(slots[i],
                 IF r = lead /\ split THEN "back"
                 ELSE IF r = last /\ nextSplit THEN "front" ELSE "full",
                 r \notin bad,
                 IF i = (now + r) % Len THEN "due" ELSE "missed")]

Trouble == trouble < MaxTrouble /\ trouble' = trouble + 1

Larger(m, n) == IF m >= n THEN m ELSE n

\* A PDU is received.
Receive(nextLead, nextSplit, bad) ==
  /\ SendPdu(nextLead, nextSplit)
  /\ offset' = OutputOffset
  /\ slots' = Filled(Last(nextLead, nextSplit), nextSplit, bad)
  /\ astray' = FALSE
  /\ doubt' = IF astray THEN Len ELSE doubt

Pdu ==
  \E nextLead \in 0..Half - 1, nextSplit \in BOOLEAN :
    /\ Receive(nextLead, nextSplit, {})
    /\ UNCHANGED <<gap, trouble>>

\* The same with a packet damaged.
PduDamaged ==
  \E nextLead \in 0..Half - 1, nextSplit \in BOOLEAN :
    \E r \in lead..Last(nextLead, nextSplit) :
      /\ Receive(nextLead, nextSplit, {r})
      /\ gap' = Larger(gap, r + 1)
      /\ Trouble

\* A PDU that process gives up on, or that never reaches it.
PduLost ==
  \E nextLead \in 0..Half - 1, nextSplit \in BOOLEAN :
    /\ SendPdu(nextLead, nextSplit)
    /\ gap' = Unsent'
    /\ Trouble
    /\ UNCHANGED <<slots, offset, astray, doubt>>

\* The Per slots from slot o on.
From(o) == {(o + j) % Len : j \in 0..Per - 1}

Less(n) == IF n > Per THEN n - Per ELSE 0

\* A window passes at the station: what was due in it is too late now.
TooLate == [i \in Slot |-> IF i \in From(now) /\ slots[i] # Empty
                            THEN [slots[i] EXCEPT !.of = "missed"] ELSE slots[i]]
Tick ==
  /\ wait > 0
  /\ now' = (now + Per) % Len
  /\ wait' = wait - 1
  /\ UNCHANGED <<avg, pduSeq, lead, split>>

\* advance: what is played is cleared, and the read position moves on.
Drained == IF offset = -1 THEN TooLate
           ELSE [i \in Slot |-> IF i \in From(offset) THEN Empty ELSE TooLate[i]]
NoWrap == IF offset = -1 THEN -1 ELSE offset + Per  \* mutant
NextOffset == IF offset = -1 THEN -1 ELSE (offset + Per) % Len

Advance ==
  /\ Tick
  /\ slots' = Drained
  /\ offset' = NextOffset
  /\ doubt' = IF astray THEN doubt ELSE Less(doubt)
  /\ gap' = Less(gap)
  /\ UNCHANGED <<astray, trouble>>

\* A window's samples are lost on the way: the station goes on, the receiver
\* does not.
LoseWindow ==
  /\ Tick
  /\ slots' = TooLate
  /\ astray' = TRUE /\ doubt' = Len
  /\ gap' = Unsent'
  /\ Trouble
  /\ UNCHANGED offset

\* More of them are: a buffer's worth, or another station's.
LoseMany ==
  /\ Trouble
  /\ slots' = [i \in Slot |-> IF slots[i] = Empty THEN Empty
                               ELSE [slots[i] EXCEPT !.of = "missed"]]
  /\ astray' = TRUE /\ doubt' = Len
  /\ avg' \in Avgs /\ wait' \in 0..avg' \div Per /\ pduSeq' \in 0..Seqs - 1
  /\ now' \in Agreed(wait', pduSeq', avg')
  /\ lead' \in 0..Half - 1 /\ split' \in BOOLEAN
  /\ gap' = Unsent'
  /\ UNCHANGED offset

\* output.reset, by Radio.Reset.
OnlyOffset == slots  \* mutant
ResetSlots == [i \in Slot |-> Empty]

Reset ==
  /\ slots' = ResetSlots /\ offset' = -1
  /\ astray' = FALSE /\ doubt' = 0
  /\ gap' = Larger(gap, Unsent)
  /\ Trouble
  /\ UNCHANGED station

Next == Pdu \/ PduDamaged \/ PduLost \/ Advance \/ LoseWindow \/ LoseMany \/ Reset

Spec == Init /\ [][Next]_vars

-----------------------------------------------------------------------------
(* What the next window plays. *)

\* advance, packet j of the window.
Played(j) ==
  LET i == (offset + j) % Len IN
  IF offset = -1 THEN "nothing"
  ELSE IF slots[i].shape # "full" \/ ~slots[i].ok THEN "silence"
  ELSE IF slots[i].of = "due" /\ i = (now + j) % Len THEN "due"
  ELSE "wrong"

\* Nothing out of its time is played: no packet early, late, twice or made of
\* halves of two packets, unless windows were lost less than one buffer length
\* of playing ago (align and push never clear what a slip leaves behind).
OnlyDue ==
  wait > 0 => \A j \in 0..Per - 1 : doubt <= j => Played(j) # "wrong"

\* No dropout: once the last lost or damaged packet has passed, the listener
\* hears every packet at its time, whatever the numbers of packets in PDUs and
\* however they are split (frame.go: the half-buffer correction and pfirst).
NoDropout ==
  wait > 0 => \A j \in 0..Per - 1 : gap <= j => Played(j) = "due"

\* A complete packet stays in its slot, untouched, until its time, lost windows
\* and resets aside: half a buffer of lead and a PDU's packets fit in the buffer
\* (push logs the packet it overwrites), and align never skips one.
DueKept ==
  [][\A i \in Slot :
       slots[i].shape = "full" /\ slots[i].of = "due" /\ slots'[i] # slots[i]
         => \/ i \in From(now) /\ now' # now
            \/ astray \/ astray' \/ offset' = -1]_vars
=============================================================================
