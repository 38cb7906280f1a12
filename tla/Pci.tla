----------------------------------- MODULE Pci -----------------------------------
(***************************************************************************)
(* The protocol control information of a frame (frame.go push, fuzzyPCI,   *)
(* hasAudio, hasFixed): a word of 24 bits, strewn over the frame, that     *)
(* says what the frame holds.  A word is the set of its bits that are 1,   *)
(* bit 23 sent first.                                                      *)
(***************************************************************************)
EXTENDS Integers, FiniteSets

\* frame.push: where the bits of the header are in a frame of each length.
Layouts ==
  {[len |-> 146176, start |-> 146176 - 30000, offset |-> 1248],
   [len |-> 4608,   start |-> 120,            offset |-> 184],
   [len |-> 2304,   start |-> 120,            offset |-> 88],
   [len |-> 3750,   start |-> 120,            offset |-> 160],
   [len |-> 24000,  start |-> 120,            offset |-> 992],
   [len |-> 30000,  start |-> 120,            offset |-> 1240]}

AlwaysWhole(layout) == 24  \* mutant
PciLen(layout) == IF layout.len = 3750 THEN 22 ELSE 24

\* Bits of the header that are found; those that are not stay 0.
Found(layout) ==
  {23 - h : h \in {k \in 0..PciLen(layout) - 1 : layout.start + k * layout.offset < layout.len}}

Power[k \in 0..23] == IF k = 0 THEN 1 ELSE 2 * Power[k - 1]
BitsOf(n) == {k \in 0..23 : (n \div Power[k]) % 2 = 1}
\* 0x38D8D3, 0xCE3634, 0xE3634C, 0x8D8D33, 0x3634CE, 0x8D338D, 0xD8D338, 0x634CE3
Possibilities ==
  <<BitsOf(3725523), BitsOf(13514292), BitsOf(14902092), BitsOf(9276723),
    BitsOf(3552462), BitsOf(9253773), BitsOf(14209848), BitsOf(6507747)>>
MaxErrors == 4

\* hasAudio and hasFixed.
Holds(i) ==
  CASE i \in {1, 2} -> "audio" [] i \in {3, 4} -> "audioFixed" [] i = 5 -> "fixed" [] OTHER -> "nothing"

\* fuzzyPCI: the first word near enough, by its number; 0 if there is none.
Differ(v, w) == (v \ w) \cup (w \ v)
FuzzyPCI(header, pciLen) ==
  LET near == {i \in DOMAIN Possibilities :
                 Cardinality({k \in Differ(header, Possibilities[i]) : k >= 24 - pciLen}) <= MaxErrors}
  IN IF near = {} THEN 0 ELSE CHOOSE i \in near : \A j \in near : i <= j

\* What a frame is taken to hold of whose word, number i, some bits are damaged.
Read(i, found, pciLen, damaged) ==
  Holds(FuzzyPCI(Differ(Possibilities[i] \cap found, damaged), pciLen))

\* Kinds of frames whose words may have up to four of their bits damaged.
Misread ==
  {i \in DOMAIN Possibilities :
     \E m \in {[found |-> Found(l), len |-> PciLen(l)] : l \in Layouts} :
       \E a \in m.found : \E b \in m.found \cap a..23 :
       \E c \in m.found \cap b..23 : \E d \in m.found \cap c..23 :
         Read(i, m.found, m.len, {a, b, c, d}) # Holds(i)}
KindsRead == {Holds(i) : i \in DOMAIN Possibilities} \ {Holds(i) : i \in Misread}
================================================================================
