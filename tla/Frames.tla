--------------------------------- MODULE Frames ---------------------------------
(***************************************************************************)
(* The frames of one logical channel (frame.go push and process): audio    *)
(* PDUs with program service data, fixed data, or both, and the station    *)
(* that sends them.                                                        *)
(*                                                                         *)
(* The station repeats its program service data and its CCC message for    *)
(* ever; how much of the first a PDU carries is its choice, and frames are *)
(* lost or damaged on the way.                                             *)
(***************************************************************************)
EXTENDS AudioPdu, FixedData, Pci

CONSTANTS
  Shapes,      \* for each kind of frame, the sequences of PDUs one may hold
  PsdSchedule, \* program 0's service data
  MaxPsd,      \* most bytes of it in a PDU
  CccMessage,  \* the message in the CCC
  Width,       \* bytes of the CCC in a frame
  FixedLen,    \* bytes of the subchannels in a frame
  MaxTrouble   \* bound on frames lost or damaged and resets

Kind == {"audio", "audioFixed", "fixed"}
HasAudio(k) == k \in {"audio", "audioFixed"}
HasFixed(k) == k \in {"audioFixed", "fixed"}

PsdStream == Stream(PsdSchedule)
CccStream == Stream(<<Whole(CccMessage)>>)

\* Messages whose check sequence is right: those sent, and no others.
AasSent == {PsdSchedule[i].msg : i \in 1..Len(PsdSchedule)} \cup {CccMessage}

ASSUME ShapesAssumption ==
  \A k \in Kind : HasAudio(k) =>
    /\ Shapes[k] # {}
    /\ \A shape \in Shapes[k] :
         shape \in Seq(Pdus) /\ \A j \in 1..Len(shape) : WellFormed(shape[j], MaxPsd)
ASSUME BoundsAssumption ==
  /\ MaxPsd \in Nat /\ FixedLen \in Nat /\ MaxTrouble \in Nat
  /\ Width \in 1..30 /\ SyncWidth(SyncByte(Width)) = Width

\* An entry is a message, or what there is of one that was abandoned; that has no check
\* sequence, and none that would be right.
ASSUME ScheduleAssumption ==
  /\ PsdSchedule # << >>
  /\ PsdSchedule \in Seq([msg: Seq(Byte), bytes: Seq(Byte)])
  /\ \A i \in 1..Len(PsdSchedule) : LET e == PsdSchedule[i] IN
       /\ \A k \in 1..Len(e.bytes) : e.bytes[k] # Flag
       /\ IF e.msg # << >> THEN e = Whole(e.msg) ELSE ~Accepted(Unescaped(e.bytes), AasSent)

\* Nor do parts of the CCC's message make up a message of service data: that has some byte
\* more.
CccBytes == {Framed(CccMessage)[i] : i \in 1..Len(Framed(CccMessage))}
ASSUME CccAssumption ==
  /\ CccMessage \in Seq(Byte)
  /\ \A m \in AasSent : m # << >> /\ m[1] = Protocol =>
       \E i \in 1..Len(m) : m[i] \notin CccBytes \cup {WithBit5(b) : b \in CccBytes}

VARIABLES
  kind,      \* station: the PCI of its frames
  psdAt,     \* station: the next byte of program service data
  cccAt,     \* station: the next byte of the CCC
  psd,       \* psdBuf and psdIdx
  rx,        \* cccData of the channel
  pdus,      \* whether the last frame's PDUs brought what was put into them
  told,      \* and whether aasPush handed on the messages that ended in them
  sound,     \* history: all program service data since the last flag was received
  trouble    \* troubles so far

station == <<kind, psdAt, cccAt>>
outputs == <<pdus, told>>
vars == <<station, psd, rx, outputs, sound, trouble>>

TypeOK ==
  /\ kind \in Kind /\ psdAt \in 0..Len(PsdStream) - 1 /\ cccAt \in 0..Len(CccStream) - 1
  /\ psd \in [Prog -> Parser] /\ \A p \in Prog : Len(psd[p].buf) <= AasSize
  /\ rx \in FixedState /\ Len(rx.ccc.buf) <= CccSize
  /\ pdus \in {"asSent", "otherwise"} /\ told \in {"whole", "cut", "otherwise"}
  /\ sound \in BOOLEAN /\ trouble \in 0..MaxTrouble

Init ==
  /\ kind \in Kind
  /\ psdAt = 0
  /\ cccAt \in IF HasFixed(kind) THEN 0..Len(CccStream) - 1 ELSE {0}
  /\ psd = [p \in Prog |-> NoParser] /\ rx = NoFixed
  /\ pdus = "asSent" /\ told = "whole"
  /\ sound = FALSE /\ trouble = 0

-----------------------------------------------------------------------------
(* The station's frames. *)

\* n bytes of program service data for a PDU, from position at of the stream on.
Carries(pdu) == pdu.prog = 0 /\ pdu.stream = 0
PsdItems(pdu, at, n) ==
  IF Carries(pdu) THEN Turn(PsdStream, at, n)
  ELSE IF pdu.stream = 0 THEN [i \in 1..n |-> [b |-> Flag, ends |-> << >>]] ELSE << >>

\* What a listener hears of the service data items, after acc.
HeardPdu(acc, items, reaches) ==
  IF reaches THEN Heard([sound |-> acc.sound, due |-> acc.due], items, AasSize)
  ELSE [sound |-> acc.sound /\ items = << >>, due |-> acc.due]

\* A frame with one more PDU, its header lost or the packets bad damaged on the way: the
\* frame and where the service data goes on, what the PDUs should bring, and whether one
\* more behind them can: process gives up at a damaged header, and finds nothing behind a
\* PDU of a stream it does not know.
SentPdu(acc, pdu, n, lost, bad) ==
  LET items == PsdItems(pdu, acc.at, n)
      reaches == acc.reach /\ ~lost /\ pdu.stream < MaxStreams
      heard == IF Carries(pdu) THEN HeardPdu(acc, items, reaches)
               ELSE [sound |-> acc.sound, due |-> acc.due]
      brought == [prog |-> pdu.prog, stream |-> pdu.stream, psd |-> BytesOf(items),
                  packets |-> [i \in 1..Len(pdu.packets) |->
                                 [data |-> pdu.packets[i], ok |-> i \notin bad]]]
  IN [frame |-> WithPdu(acc.frame, pdu, BytesOf(items), bad, lost),
      at    |-> IF Carries(pdu) THEN (acc.at + n) % Len(PsdStream) ELSE acc.at,
      pdus  |-> IF reaches THEN Append(acc.pdus, brought) ELSE acc.pdus,
      reach |-> reaches,
      sound |-> heard.sound, due |-> heard.due]

\* The PDUs shape, with n[j] bytes of service data in PDU j.
Sent(shape, n, lost, bad) ==
  LET after[j \in 0..Len(shape)] ==
        IF j = 0 THEN [frame |-> NoPdus, at |-> psdAt, pdus |-> << >>, reach |-> TRUE,
                       sound |-> sound, due |-> << >>]
        ELSE SentPdu(after[j - 1], shape[j], n[j], j \in lost, bad[j])
  IN after[Len(shape)]

\* Fixed data, with sync for the byte that tells the width.
CccItems == Turn(CccStream, cccAt, Width)
FixedOf(sync) == [i \in 1..FixedLen |-> 0] \o BytesOf(CccItems) \o <<sync>>

\* A frame of fixed data alone is filled up.
Filler == [NoPdus EXCEPT !.bytes = [i \in 1..32 |-> 0]]

FrameOf(sent, sync) ==
  LET audio == IF HasAudio(kind) THEN sent.frame ELSE Filler
  IN IF HasFixed(kind) THEN [audio EXCEPT !.bytes = @ \o FixedOf(sync)] ELSE audio

SentFrame(sent) ==
  /\ psdAt' = sent.at
  /\ cccAt' = IF HasFixed(kind) THEN (cccAt + Width) % Len(CccStream) ELSE cccAt
  /\ sound' = sent.sound
  /\ UNCHANGED kind

-----------------------------------------------------------------------------
(* The receiver. *)

\* process: the fixed data, which tells where the audio ends, then the PDUs.
ProcessFixed(frame) ==
  IF HasFixed(kind) THEN ReadFixed(rx, frame.bytes, AasSent)
  ELSE [rx |-> rx, audioEnd |-> Len(frame.bytes), out |-> << >>]
ProcessAudio(frame, audioEnd) ==
  IF HasAudio(kind) THEN Walk(psd, frame, audioEnd, AasSent)
  ELSE [at |-> 0, pdus |-> << >>, psd |-> psd, out |-> << >>]

\* The messages aasPush took are those due, but for one at first that may have been
\* received in part before, and their contents are all there.
Contents(messages) == [i \in 1..Len(messages) |-> Content(messages[i])]
SentContents(messages) == [i \in 1..Len(messages) |-> SentContent(messages[i])]
Told(messages, due) ==
  IF messages = due \/ (~sound /\ messages # << >> /\ Tail(messages) = due)
  THEN IF Contents(messages) = SentContents(messages) THEN "whole" ELSE "cut"
  ELSE "otherwise"

Receive(sent, sync) ==
  \E frame \in {FrameOf(sent, sync)} :
  \E fixed \in {ProcessFixed(frame)} :
  \E audio \in {ProcessAudio(frame, fixed.audioEnd)} :
    /\ rx' = fixed.rx /\ psd' = audio.psd
    /\ pdus' = IF audio.pdus = sent.pdus THEN "asSent" ELSE "otherwise"
    /\ told' = Told(fixed.out \o audio.out, sent.due)

NoOutput == pdus' = "asSent" /\ told' = "whole"

Trouble == trouble < MaxTrouble /\ trouble' = trouble + 1

\* Frames the station may send: PDUs, and how much program service data in each.
ShapesNow == IF HasAudio(kind) THEN Shapes[kind] ELSE {<< >>}
Sizes(shape) ==
  {n \in [1..Len(shape) -> 0..MaxPsd] :
     \A j \in 1..Len(shape) : ~Carries(shape[j]) => n[j] <= IF shape[j].stream = 0 THEN 1 ELSE 0}
Undamaged(shape) == [j \in 1..Len(shape) |-> {}]

Frame ==
  \E shape \in ShapesNow : \E n \in Sizes(shape) :
  \E sent \in {Sent(shape, n, {}, Undamaged(shape))} :
    Receive(sent, SyncByte(Width)) /\ SentFrame(sent) /\ UNCHANGED trouble

\* A PDU's header is damaged, or one of its packets.
PduDamaged ==
  \E shape \in ShapesNow : \E n \in Sizes(shape), j \in 1..Len(shape) :
  \E sent \in {Sent(shape, n, {j}, Undamaged(shape))}
                \cup {Sent(shape, n, {}, [Undamaged(shape) EXCEPT ![j] = {i}])
                        : i \in 1..Len(shape[j].packets)} :
    Receive(sent, SyncByte(Width)) /\ SentFrame(sent) /\ Trouble

\* The byte that tells the width is, but never so that three frames in a row tell the
\* same wrong one.
SyncDamaged ==
  /\ HasFixed(kind)
  /\ \E shape \in ShapesNow : \E n \in Sizes(shape), b \in {SyncByte(8), 1} :
     \E sent \in {Sent(shape, n, {}, Undamaged(shape))} :
       /\ ~(rx.count = 1 /\ SyncWidth(b) = rx.width /\ rx.width # Width)
       /\ Receive(sent, b) /\ SentFrame(sent)
  /\ Trouble

\* The whole frame is, or there is none for lack of synchronisation.
FrameLost ==
  \E shape \in ShapesNow : \E n \in Sizes(shape) :
  \E sent \in {Sent(shape, n, 1..Len(shape), Undamaged(shape))} :
    /\ SentFrame(sent) /\ NoOutput /\ Trouble
    /\ UNCHANGED <<psd, rx>>

\* frame.reset.
Reset ==
  /\ psd' = [p \in Prog |-> NoParser]
  /\ rx' = ResetFixed(rx)
  /\ sound' = FALSE
  /\ NoOutput /\ Trouble
  /\ UNCHANGED station

Next == Frame \/ PduDamaged \/ SyncDamaged \/ FrameLost \/ Reset

Spec == Init /\ [][Next]_vars

-----------------------------------------------------------------------------

\* Every PDU of a frame, up to one with a damaged header or of an unknown stream, is
\* found and taken apart as it was put together: its program, service data, packets
\* and which of them are damaged; fixed data behind it is not taken for audio, and no
\* audio for fixed data, while the width is not yet known, is told wrong once, or is
\* known (frame.go:516, 453).
PdusAsSent == pdus = "asSent"

\* Each message of a program whose bytes were all received is handed on once, in its
\* turn, however PDUs cut it, whatever was abandoned, damaged, lost or too long before
\* it, and nothing else is, from the CCC neither (frame.go:379, 373).
FramesHanded == told # "otherwise"

\* A frame is taken for what it is with any four bits of its PCI damaged, in every length
\* of frame (frame.go:639), though words of 22 bits are no further apart than 9.
PciRead == kind \in KindsRead

\* aasPush is to remove protocol and fcs fields (frame.go:363), and nothing else.
AasWhole == told # "cut"
=============================================================================
