-------------------------------- MODULE Windows --------------------------------
(***************************************************************************)
(* What sync sees of the antenna: windows of BlkSz symbols, cut by acquire *)
(* out of a station's endless repetition of frames of NB blocks of BlkSz   *)
(* symbols.  blk and off say where the window starts in the frame, resid   *)
(* whether the carrier is still off by whole bins.  The receiver sees none *)
(* of the three.                                                           *)
(***************************************************************************)
EXTENDS Integers

CONSTANTS
  BlkSz,  \* symbols of a block (BLKSZ, 32)
  NB      \* blocks of a frame (16 in FM, 8 in AM)

ASSUME SizesAssumption == BlkSz \in Nat \ {0, 1} /\ NB \in Nat \ {0, 1}

VARIABLES blk, off, resid

Block == 0..NB - 1

\* The window holds exactly one block, and the carrier is right: the references
\* decode.
Aligned == off = 0 /\ ~resid

\* findRefFM, findRefAM on a well received window: where the next block begins.
PatternAt == (BlkSz - off) % BlkSz

\* setKeepExtra, from the symbol at which the pattern was found.
KeepTooFew(found) == found  \* mutant
KeepExtra(found) == (BlkSz - found) % BlkSz

\* acquire keeps the 33rd symbol and extra more: the next window starts
\* BlkSz - extra symbols later.
Shift(extra) ==
  LET o == off + BlkSz - extra IN
  /\ blk' = IF o >= BlkSz THEN (blk + 1) % NB ELSE blk
  /\ off' = IF o >= BlkSz THEN o - BlkSz ELSE o

\* Samples lost, or another station: the window starts anywhere.
Anywhere == blk' \in Block /\ off' \in 0..BlkSz - 1
=============================================================================
