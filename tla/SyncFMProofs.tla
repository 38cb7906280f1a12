------------------------------ MODULE SyncFMProofs ------------------------------
(***************************************************************************)
(* Safety of SyncFM for any size of blocks and frames, any wait and depth  *)
(* of the interleaver, any service modes and any number of troubles.       *)
(***************************************************************************)
EXTENDS SyncFM, TLAPS

-----------------------------------------------------------------------------
(* Facts about numbers. *)

\* From the last number below n the count goes on with 0.
LEMMA NextRound ==
  ASSUME NEW n \in Nat \ {0}, NEW b \in 0..n - 1
  PROVE  (b + 1) % n = (IF b = n - 1 THEN 0 ELSE b + 1) /\ (b + 1) % n \in 0..n - 1
<1>1. CASE b = n - 1
  BY <1>1
<1>2. CASE b # n - 1
  BY <1>2
<1> QED
  BY <1>1, <1>2

\* What is missing to a full round.
LEMMA RestOfRound ==
  ASSUME NEW n \in Nat \ {0}, NEW b \in 0..n - 1
  PROVE  (n - b) % n = (IF b = 0 THEN 0 ELSE n - b) /\ (n - b) % n \in 0..n - 1
<1>1. CASE b = 0
  BY <1>1
<1>2. CASE b # 0
  BY <1>2
<1> QED
  BY <1>1, <1>2

-----------------------------------------------------------------------------
\* While a frame is collected, the blocks below bc arrived one window apart, the
\* last of them in the last window.
FrameInOrder ==
  state = "fine" /\ startedPM => \A b \in Block : b < bc => age[b] = bc - 1 - b

\* Between the two halves of a pair, the first has just arrived.
HalfFresh == state = "fine" /\ px.started /\ bc % 2 = 1 => px.half = 0

\* A mode without PX partitions never starts the interleaver.
PxOnlyExtended == state = "fine" /\ ~Extended(psmi) => ~px.started

\* The interleaver is ready only when its memory has been filled since the reset.
FilledWhenReady == IF px.ready THEN px.fill = PxDepth ELSE px.fill = px.i

IInv ==
  /\ TypeOK
  /\ EventsMatchState
  /\ TracksStation
  /\ FrameInOrder /\ NoMixedFrame
  /\ HalfFresh /\ PxOnlyExtended /\ FilledWhenReady /\ NoMixedPx

-----------------------------------------------------------------------------
(* Windows. *)

\* Blocks are counted up to the last one and over again.
LEMMA CountedUp ==
  ASSUME NEW b \in Block
  PROVE  /\ (b + 1) % NB = IF b = NB - 1 THEN 0 ELSE b + 1
         /\ (b + 1) % NB \in Block
  BY NextRound, SizesAssumption DEF Block

\* What is kept beside the overlap is less than a block.
LEMMA KeepExtraIs ==
  ASSUME NEW found \in 0..BlkSz - 1
  PROVE  /\ KeepExtra(found) = IF found = 0 THEN 0 ELSE BlkSz - found
         /\ KeepExtra(found) \in 0..BlkSz - 1
  BY RestOfRound, SizesAssumption DEF KeepExtra

\* The next window is a window, and the next block's when nothing more is kept.
LEMMA ShiftIs ==
  ASSUME blk \in Block, off \in 0..BlkSz - 1, NEW extra \in 0..BlkSz - 1, Shift(extra)
  PROVE  /\ blk' \in Block /\ off' \in 0..BlkSz - 1
         /\ extra = 0 => off' = off /\ blk' = (blk + 1) % NB
  BY CountedUp, SizesAssumption DEF Shift

-----------------------------------------------------------------------------

\* The block counter counts up to the last block and starts over.
LEMMA NextBlockIs ==
  ASSUME NEW b \in Block
  PROVE  NextBlock(b) = IF b = NB - 1 THEN 0 ELSE b + 1
  BY CountedUp DEF NextBlock

\* Windows that keep their place stay at the place, in the next block.
LEMMA ShiftKeeps ==
  ASSUME TypeOK, NEW extra \in 0..BlkSz - 1, Shift(extra)
  PROVE  /\ blk' \in Block /\ off' \in 0..BlkSz - 1
         /\ extra = 0 => off' = off /\ blk' = NextBlock(blk)
  BY ShiftIs DEF TypeOK, NextBlock

USE DEF signal

\* The invariant holds before synchronisation.
LEMMA InitIInv == Init => IInv
<1> SUFFICES ASSUME Init PROVE IInv
  OBVIOUS
<1>1. NB \in Nat /\ NB > 1 /\ PxDepth \in Nat /\ MaxTrouble \in Nat /\ Wait \in Nat
  BY SizesAssumption, WaitAssumption
<1>2. TypeOK
  <2>1. px \in [started: BOOLEAN, ready: BOOLEAN, i: 0..PxDepth, half: 0..NB, fill: 0..PxDepth]
    BY <1>1 DEF Init, Fresh
  <2>2. age \in [Block -> 0..NB] /\ good \in [Block -> BOOLEAN] /\ bc \in Block
    BY <1>1 DEF Init, Block
  <2>3. psmi \in 0..63 /\ cfoWait \in 0..Wait /\ trouble \in 0..MaxTrouble
    BY <1>1 DEF Init
  <2>4. /\ state \in {"none", "coarse", "fine"} /\ startedPM \in BOOLEAN
        /\ blk \in Block /\ off \in 0..BlkSz - 1 /\ resid \in BOOLEAN /\ mode \in Modes
        /\ lastEvent \in {"nothing", "Sync", "LostSync"} /\ slipped \in BOOLEAN
        /\ p1 \in {"nothing", "whole", "mixed"} /\ pxOut \in {"nothing", "full", "mixed"}
    BY DEF Init
  <2> QED
    BY <2>1, <2>2, <2>3, <2>4 DEF TypeOK
<1> QED
  BY <1>2 DEF Init, IInv, EventsMatchState, TracksStation, FrameInOrder, NoMixedFrame,
     HalfFresh, PxOnlyExtended, FilledWhenReady, NoMixedPx, Fresh

\* decode.reset empties the PX interleaver, of which only the buffer stays.
LEMMA PxAfterResetIs ==
  ASSUME TypeOK
  PROVE  /\ PxAfterReset \in [started: BOOLEAN, ready: BOOLEAN, i: 0..PxDepth, half: 0..NB,
                             fill: 0..PxDepth]
         /\ ~PxAfterReset.started /\ ~PxAfterReset.ready
         /\ PxAfterReset.i = 0 /\ PxAfterReset.fill = 0
<1>1. PxDepth \in Nat /\ 0 \in 0..PxDepth /\ px.half \in 0..NB
  BY WaitAssumption DEF TypeOK
<1>2. PxAfterReset = [started |-> FALSE, ready |-> FALSE, i |-> 0, half |-> px.half, fill |-> 0]
  BY DEF PxAfterReset, Fresh
<1>3. PxAfterReset \in [started: BOOLEAN, ready: BOOLEAN, i: 0..PxDepth, half: 0..NB,
                        fill: 0..PxDepth]
  <2>1. FALSE \in BOOLEAN
    OBVIOUS
  <2> QED
    BY <1>1, <1>2, <2>1, Zenon
<1>4. ~PxAfterReset.started /\ ~PxAfterReset.ready /\ PxAfterReset.i = 0 /\ PxAfterReset.fill = 0
  BY <1>2
<1> QED
  BY <1>3, <1>4

\* A window without a block for the decoder leaves the receiver out of sync.
LEMMA NoBlockIInv ==
  ASSUME IInv, NoBlock, SetSyncState("coarse"), cfoWait' \in 0..Wait, UNCHANGED slipped,
         trouble' \in 0..MaxTrouble, resid' \in BOOLEAN,
         blk' \in Block, off' \in 0..BlkSz - 1
  PROVE  IInv'
<1>1. NB \in Nat /\ NB > 1
  BY SizesAssumption
<1>2. \A n \in 0..NB : Older(n) \in 0..NB
  BY <1>1 DEF Older
<1>3. px' \in [started: BOOLEAN, ready: BOOLEAN, i: 0..PxDepth, half: 0..NB, fill: 0..PxDepth]
      /\ px'.ready = px.ready /\ px'.fill = px.fill /\ px'.i = px.i
  BY <1>2 DEF NoBlock, IInv, TypeOK
<1>4. age' \in [Block -> 0..NB]
  BY <1>2 DEF NoBlock, IInv, TypeOK
<1>5. state' = "coarse" /\ lastEvent' \in {"nothing", "Sync", "LostSync"} /\ lastEvent' # "Sync"
  BY DEF SetSyncState, Reported, IInv, TypeOK, EventsMatchState
<1>6. TypeOK'
  BY <1>3, <1>4, <1>5 DEF NoBlock, IInv, TypeOK
<1>7. FilledWhenReady'
  BY <1>3 DEF FilledWhenReady, IInv
<1>8. NoMixedFrame' /\ NoMixedPx'
  BY DEF NoBlock, NoMixedFrame, NoMixedPx
<1> QED
  BY <1>5, <1>6, <1>7, <1>8 DEF IInv, EventsMatchState, TracksStation, FrameInOrder, HalfFresh,
     PxOnlyExtended

\* A block of number b enters the decoder: if the blocks of the frame and the pair
\* were in order before it, they are with it, and what comes out is of one session.
LEMMA PushInOrder ==
  ASSUME TypeOK, NEW b \in Block, NEW m, NEW started \in BOOLEAN, NEW clear \in BOOLEAN,
         NEW p \in [started: BOOLEAN, ready: BOOLEAN, i: 0..PxDepth, half: 0..NB,
                    fill: 0..PxDepth],
         Push(b, m, p, started, clear),
         started => \A a \in Block : a < b => age[a] = b - 1 - a,
         p.started /\ b % 2 = 1 => p.half = 0,
         ~Extended(m) => ~p.started,
         IF p.ready THEN p.fill = PxDepth ELSE p.fill = p.i
  PROVE  /\ bc' \in Block /\ bc' = NextBlock(b)
         /\ age' \in [Block -> 0..NB] /\ good' \in [Block -> BOOLEAN]
         /\ startedPM' \in BOOLEAN
         /\ startedPM' => \A a \in Block : a < bc' => age'[a] = bc' - 1 - a
         /\ p1' \in {"nothing", "whole"}
         /\ px' \in [started: BOOLEAN, ready: BOOLEAN, i: 0..PxDepth, half: 0..NB,
                     fill: 0..PxDepth]
         /\ px'.started /\ bc' % 2 = 1 => px'.half = 0
         /\ ~Extended(m) => ~px'.started
         /\ FilledWhenReady'
         /\ pxOut' \in {"nothing", "full"}
<1>1. NB \in Nat /\ NB > 1 /\ PxDepth \in Nat /\ PxDepth > 0
  BY SizesAssumption, WaitAssumption
<1>2. b \in 0..NB - 1
  BY DEF Block
<1>3. bc' = NextBlock(b) /\ NextBlock(b) = IF b = NB - 1 THEN 0 ELSE b + 1
  BY NextBlockIs DEF Push
<1>4. bc' \in Block
  BY <1>1, <1>2, <1>3 DEF Block
<1>5. \A n \in 0..NB : Older(n) \in 0..NB /\ (n < NB => Older(n) = n + 1)
  BY <1>1 DEF Older
<1>6. age' = [a \in Block |-> IF a = b THEN 0 ELSE Older(age[a])]
  BY DEF Push
<1>7. age \in [Block -> 0..NB]
  BY DEF TypeOK
<1>8. age' \in [Block -> 0..NB]
  BY <1>1, <1>5, <1>6, <1>7
<1>9. good' \in [Block -> BOOLEAN]
  BY DEF Push, TypeOK, Aligned
<1>10. startedPM' = (started \/ b = 0)
  BY DEF Push
<1>11. ASSUME startedPM', NEW a \in Block, a <= b PROVE age'[a] = b - a
  <2>1. a \in 0..NB - 1
    BY DEF Block
  <2>2. CASE a = b
    BY <1>2, <1>6, <2>2
  <2>3. CASE a # b
    <3>1. started /\ a < b
      BY <1>2, <1>10, <1>11, <2>1, <2>3
    <3>2. age[a] = b - 1 - a
      BY <3>1
    <3>3. age'[a] = Older(age[a])
      BY <1>6, <2>3
    <3> QED
      BY <1>1, <1>2, <1>5, <2>1, <3>1, <3>2, <3>3
  <2> QED
    BY <2>2, <2>3
<1>12. ASSUME startedPM', NEW a \in Block, a < bc' PROVE age'[a] = bc' - 1 - a
  <2>1. a \in 0..NB - 1
    BY DEF Block
  <2>2. bc' = b + 1 /\ a <= b
    BY <1>1, <1>2, <1>3, <1>12, <2>1
  <2>3. age'[a] = b - a
    BY <1>11, <1>12, <2>2
  <2> QED
    BY <1>2, <2>1, <2>2, <2>3
<1>13. p1' \in {"nothing", "whole"}
  <2>1. CASE startedPM' /\ b = NB - 1
    <3>1. \A a \in Block : a <= b
      BY <1>1, <2>1 DEF Block
    <3>2. WholeFrame
      BY <1>11, <2>1, <3>1 DEF WholeFrame
    <3> QED
      BY <2>1, <3>2 DEF Push
  <2>2. CASE ~(startedPM' /\ b = NB - 1)
    BY <2>2 DEF Push
  <2> QED
    BY <2>1, <2>2
<1>14. /\ px' \in [started: BOOLEAN, ready: BOOLEAN, i: 0..PxDepth, half: 0..NB,
                   fill: 0..PxDepth]
       /\ px'.started /\ bc' % 2 = 1 => px'.half = 0
       /\ IF px'.ready THEN px'.fill = PxDepth ELSE px'.fill = px'.i
       /\ ~Extended(m) => ~px'.started
       /\ pxOut' \in {"nothing", "full"}
  <2>1. p.half \in 0..NB /\ Older(p.half) \in 0..NB
    BY <1>5
  <2>2. bc' % 2 = 1 => b % 2 = 0
    BY <1>1, <1>2, <1>3
  <2>3. CASE ~Extended(m)
    <3>1. px' = p /\ pxOut' = "nothing"
      BY <2>3 DEF Push
    <3> QED
      BY <2>3, <3>1
  <2>4. CASE Extended(m) /\ b % 2 = 0
    <3>1. px' = [p EXCEPT !.started = TRUE, !.half = 0]
      BY <2>4 DEF Push, PushPX
    <3>2. pxOut' = "nothing"
      BY <2>4 DEF Push, PxResult
    <3>3. px'.half = 0 /\ px'.ready = p.ready /\ px'.fill = p.fill /\ px'.i = p.i
      BY <3>1
    <3>4. px' \in [started: BOOLEAN, ready: BOOLEAN, i: 0..PxDepth, half: 0..NB, fill: 0..PxDepth]
      <4>1. 0 \in 0..NB /\ TRUE \in BOOLEAN
        BY <1>1
      <4> QED
        BY <3>1, <4>1, Zenon
    <3> QED
      BY <2>4, <3>2, <3>3, <3>4
  <2>5. CASE Extended(m) /\ b % 2 = 1 /\ ~p.started
    <3>1. px' = [p EXCEPT !.half = Older(@)]
      BY <2>5 DEF Push, PushPX
    <3>2. pxOut' = "nothing"
      BY <2>1, <2>5 DEF Push, PxResult, PushPX
    <3>3. ~px'.started /\ px'.ready = p.ready /\ px'.fill = p.fill /\ px'.i = p.i
      BY <2>5, <3>1
    <3>4. px' \in [started: BOOLEAN, ready: BOOLEAN, i: 0..PxDepth, half: 0..NB, fill: 0..PxDepth]
      BY <2>1, <3>1
    <3> QED
      BY <2>5, <3>2, <3>3, <3>4
  <2>6. CASE Extended(m) /\ b % 2 = 1 /\ p.started
    <3> DEFINE q == [p EXCEPT !.half = Older(@)]
    <3>1. px' = StepIV(q)
      BY <2>6 DEF Push, PushPX
    <3>2. q.half = 1 /\ q.i = p.i /\ q.fill = p.fill /\ q.ready = p.ready /\ q.started
      BY <1>1, <1>5, <2>6
    <3>3. q \in [started: BOOLEAN, ready: BOOLEAN, i: 0..PxDepth, half: 0..NB, fill: 0..PxDepth]
      BY <2>1
    <3>4. /\ px'.started /\ px'.half = 1 /\ px'.ready = (p.ready \/ p.i = PxDepth)
          /\ px'.i = IF p.i = PxDepth THEN 1 ELSE p.i + 1
          /\ px'.fill = IF p.fill < PxDepth THEN p.fill + 1 ELSE p.fill
          /\ px' \in [started: BOOLEAN, ready: BOOLEAN, i: 0..PxDepth, half: 0..NB,
                      fill: 0..PxDepth]
      <4> HIDE DEF q
      <4>1. px' = [q EXCEPT !.i = IF q.i = PxDepth THEN 1 ELSE q.i + 1,
                            !.ready = q.ready \/ q.i = PxDepth,
                            !.fill = IF q.fill < PxDepth THEN q.fill + 1 ELSE q.fill]
        BY <3>1 DEF StepIV
      <4>2. /\ (IF q.i = PxDepth THEN 1 ELSE q.i + 1) \in 0..PxDepth
            /\ (IF q.fill < PxDepth THEN q.fill + 1 ELSE q.fill) \in 0..PxDepth
        BY <1>1, <3>3
      <4>3. (q.ready \/ q.i = PxDepth) \in BOOLEAN
        OBVIOUS
      <4>4. px' \in [started: BOOLEAN, ready: BOOLEAN, i: 0..PxDepth, half: 0..NB,
                    fill: 0..PxDepth]
        BY <3>3, <4>1, <4>2, <4>3, Zenon
      <4>5. px'.started = q.started /\ px'.half = q.half
        BY <3>3, <4>1, Zenon
      <4>6. px'.ready = (q.ready \/ q.i = PxDepth)
        BY <3>3, <4>1, Zenon
      <4>7. /\ px'.i = IF q.i = PxDepth THEN 1 ELSE q.i + 1
            /\ px'.fill = IF q.fill < PxDepth THEN q.fill + 1 ELSE q.fill
        BY <3>3, <4>1, Zenon
      <4> QED
        BY <3>2, <4>4, <4>5, <4>6, <4>7, Zenon
    <3>5. pxOut' \in {"nothing", "full"}
      <4>1. px'.ready => p.fill = PxDepth
        BY <1>1, <3>4
      <4>2. PushPX(p, b) = px'
        BY <2>6 DEF Push
      <4> QED
        BY <2>6, <3>4, <4>1, <4>2 DEF Push, PxResult
    <3>6. IF px'.ready THEN px'.fill = PxDepth ELSE px'.fill = px'.i
      BY <1>1, <3>4
    <3> QED
      BY <2>2, <2>6, <3>4, <3>5, <3>6
  <2> QED
    BY <1>2, <2>3, <2>4, <2>5, <2>6
<1> QED
  BY <1>3, <1>4, <1>8, <1>9, <1>10, <1>12, <1>13, <1>14 DEF FilledWhenReady

\* Whether the block enters as the first of a session or as another one, the
\* invariant holds after the frame was taken or refused.
LEMMA BlockIInv ==
  ASSUME IInv, NEW b \in Block, NEW m \in 0..63, NEW started \in BOOLEAN,
         NEW clear \in BOOLEAN,
         NEW p \in [started: BOOLEAN, ready: BOOLEAN, i: 0..PxDepth, half: 0..NB,
                    fill: 0..PxDepth],
         Push(b, m, p, started, clear), AfterBlock("Sync"), psmi' = m,
         started => \A a \in Block : a < b => age[a] = b - 1 - a,
         p.started /\ b % 2 = 1 => p.half = 0,
         ~Extended(m) => ~p.started,
         IF p.ready THEN p.fill = PxDepth ELSE p.fill = p.i,
         ~slipped' => Aligned /\ b = blk,
         slipped' \in BOOLEAN, cfoWait' = cfoWait, trouble' \in 0..MaxTrouble
  PROVE  IInv'
<1>1. TypeOK /\ 0 \in 0..BlkSz - 1
  BY SizesAssumption DEF IInv
<1>2. Shift(0) /\ resid' = resid /\ mode' = mode
  BY DEF Push
<1>3. blk' \in Block /\ off' \in 0..BlkSz - 1
      /\ off' = off /\ blk' = NextBlock(blk)
  BY <1>1, <1>2, ShiftKeeps
<1>4. /\ bc' \in Block /\ bc' = NextBlock(b)
      /\ age' \in [Block -> 0..NB] /\ good' \in [Block -> BOOLEAN]
      /\ startedPM' \in BOOLEAN
      /\ startedPM' => \A a \in Block : a < bc' => age'[a] = bc' - 1 - a
      /\ p1' \in {"nothing", "whole"}
      /\ px' \in [started: BOOLEAN, ready: BOOLEAN, i: 0..PxDepth, half: 0..NB,
                  fill: 0..PxDepth]
      /\ px'.started /\ bc' % 2 = 1 => px'.half = 0
      /\ ~Extended(m) => ~px'.started
      /\ FilledWhenReady'
      /\ pxOut' \in {"nothing", "full"}
  BY <1>1, PushInOrder
<1>5. \/ state' = "fine" /\ lastEvent' = "Sync"
      \/ state' = "none" /\ lastEvent' = "LostSync"
  BY DEF AfterBlock
<1>6. TypeOK'
  <2>1. cfoWait' \in 0..Wait /\ resid' \in BOOLEAN /\ mode' \in Modes
    BY <1>1, <1>2, <1>3 DEF TypeOK
  <2>2. state' \in {"none", "coarse", "fine"} /\ lastEvent' \in {"nothing", "Sync", "LostSync"}
        /\ p1' \in {"nothing", "whole", "mixed"} /\ pxOut' \in {"nothing", "full", "mixed"}
    BY <1>4, <1>5
  <2> QED
    BY <1>3, <1>4, <2>1, <2>2 DEF TypeOK
<1>7. EventsMatchState'
  BY <1>5 DEF EventsMatchState
<1>8. TracksStation'
  BY <1>2, <1>3, <1>4 DEF TracksStation, Aligned
<1>9. FrameInOrder' /\ NoMixedFrame' /\ NoMixedPx'
  BY <1>4 DEF FrameInOrder, NoMixedFrame, NoMixedPx
<1>10. HalfFresh' /\ PxOnlyExtended'
  BY <1>4 DEF HalfFresh, PxOnlyExtended
<1> QED
  BY <1>4, <1>6, <1>7, <1>8, <1>9, <1>10 DEF IInv

\* Every step keeps the invariant.
LEMMA NextIInv == IInv /\ [Next]_vars => IInv'
<1> SUFFICES ASSUME IInv, [Next]_vars PROVE IInv'
  OBVIOUS
<1>1. BlkSz \in Nat /\ BlkSz > 1 /\ NB \in Nat /\ NB > 1 /\ Wait \in Nat /\ MaxTrouble \in Nat
      /\ PxDepth \in Nat
  BY SizesAssumption, WaitAssumption
<1>2. TypeOK /\ 0 \in 0..BlkSz - 1
  BY <1>1 DEF IInv
<1>3. ASSUME NEW found \in 0..BlkSz - 1 PROVE KeepExtra(found) \in 0..BlkSz - 1
  BY <1>1, KeepExtraIs
<1>4. CASE DetectCFO
  <2>1. PatternAt \in 0..BlkSz - 1
    BY <1>2, <1>3 DEF TypeOK, PatternAt, KeepExtra
  <2>2. KeepExtra(PatternAt) \in 0..BlkSz - 1
    BY <1>3, <2>1
  <2>3. Shift(KeepExtra(PatternAt))
    BY <1>4 DEF DetectCFO
  <2>4. blk' \in Block /\ off' \in 0..BlkSz - 1
    BY <1>2, <2>2, <2>3, ShiftKeeps
  <2>5. cfoWait' = Wait /\ resid' = FALSE /\ UNCHANGED <<slipped, trouble>>
    BY <1>4 DEF DetectCFO
  <2>6. cfoWait' \in 0..Wait /\ trouble' \in 0..MaxTrouble
    BY <1>1, <1>2, <2>4, <2>5 DEF TypeOK
  <2> QED
    BY <1>4, <2>4, <2>5, <2>6, NoBlockIInv DEF DetectCFO
<1>5. CASE FalseDetect
  <2>1. PICK found \in 0..BlkSz - 1 : Shift(KeepExtra(found))
    BY <1>5 DEF FalseDetect
  <2>2. KeepExtra(found) \in 0..BlkSz - 1
    BY <1>3
  <2>3. blk' \in Block /\ off' \in 0..BlkSz - 1
    BY <1>2, <2>1, <2>2, ShiftKeeps
  <2>4. cfoWait' \in 0..Wait /\ resid' \in BOOLEAN
        /\ UNCHANGED slipped /\ trouble' \in 0..MaxTrouble
    BY <1>1, <1>2, <1>5, <2>3 DEF FalseDetect, TypeOK
  <2> QED
    BY <1>5, <2>3, <2>4, NoBlockIInv DEF FalseDetect
<1>6. CASE Wait1 \/ NoisyWindow \/ NoMajority
  <2>1. Shift(0) /\ NoBlock /\ SetSyncState("coarse") /\ UNCHANGED <<slipped, resid>>
    BY <1>6 DEF Wait1, NoisyWindow, NoMajority
  <2>2. cfoWait' \in 0..Wait /\ trouble' \in 0..MaxTrouble
    BY <1>1, <1>2, <1>6 DEF Wait1, NoisyWindow, NoMajority, TypeOK
  <2>3. blk' \in Block /\ off' \in 0..BlkSz - 1
    BY <1>2, <2>1, ShiftKeeps
  <2>4. resid' \in BOOLEAN
    BY <1>2, <2>1, <2>3 DEF TypeOK
  <2> QED
    BY <2>1, <2>2, <2>3, <2>4, NoBlockIInv
<1>7. CASE Synchronise
  <2>1. PxAfterReset \in [started: BOOLEAN, ready: BOOLEAN, i: 0..PxDepth, half: 0..NB,
                          fill: 0..PxDepth]
        /\ ~PxAfterReset.started /\ ~PxAfterReset.ready
        /\ PxAfterReset.i = 0 /\ PxAfterReset.fill = 0
    BY <1>2, PxAfterResetIs
  <2>2. mode \in 0..63 /\ blk \in Block /\ trouble' \in 0..MaxTrouble /\ slipped' = FALSE
    BY <1>2, <1>7, ModesAssumption DEF Synchronise, TypeOK
  <2>3. Push(blk, mode, PxAfterReset, FALSE, TRUE) /\ AfterBlock("Sync") /\ psmi' = mode
        /\ Aligned /\ cfoWait' = cfoWait
    BY <1>7 DEF Synchronise, StartedAfterReset
  <2> QED
    BY <2>1, <2>2, <2>3, BlockIInv
<1>8. ASSUME NEW clear \in BOOLEAN, FineBlock(clear) PROVE IInv'
  <2>1. state = "fine" /\ lastEvent = "Sync"
    BY <1>8 DEF FineBlock, IInv, EventsMatchState
  <2>2. Push(bc, psmi, px, startedPM, clear) /\ AfterBlock("Sync") /\ psmi' = psmi
        /\ cfoWait' = cfoWait /\ slipped' = slipped
    BY <1>8, <2>1 DEF FineBlock
  <2>3. bc \in Block /\ psmi \in 0..63 /\ startedPM \in BOOLEAN /\ slipped' \in BOOLEAN
        /\ px \in [started: BOOLEAN, ready: BOOLEAN, i: 0..PxDepth, half: 0..NB, fill: 0..PxDepth]
    BY <1>2, <2>2 DEF TypeOK
  <2>4. trouble' \in 0..MaxTrouble
    BY <1>1, <1>2, <1>8 DEF FineBlock, TypeOK
  <2>5. /\ startedPM => \A a \in Block : a < bc => age[a] = bc - 1 - a
        /\ px.started /\ bc % 2 = 1 => px.half = 0
        /\ ~Extended(psmi) => ~px.started
        /\ IF px.ready THEN px.fill = PxDepth ELSE px.fill = px.i
        /\ ~slipped' => Aligned /\ bc = blk
    BY <2>1, <2>2 DEF IInv, FrameInOrder, HalfFresh, PxOnlyExtended, FilledWhenReady,
       TracksStation
  <2> QED
    BY <2>2, <2>3, <2>4, <2>5, BlockIInv
<1>9. CASE Slip
  <2>1. TypeOK'
    BY <1>1, <1>2, <1>9 DEF Slip, Anywhere, TypeOK
  <2> QED
    BY <1>9, <2>1 DEF Slip, IInv, EventsMatchState, TracksStation, FrameInOrder, NoMixedFrame,
       HalfFresh, PxOnlyExtended, FilledWhenReady, NoMixedPx
<1>10. CASE Reset
  <2>1. px' \in [started: BOOLEAN, ready: BOOLEAN, i: 0..PxDepth, half: 0..NB, fill: 0..PxDepth]
        /\ ~px'.ready /\ px'.i = 0 /\ px'.fill = 0
    BY <1>2, <1>10, PxAfterResetIs DEF Reset
  <2>2. psmi' \in 0..63 /\ cfoWait' \in 0..Wait /\ trouble' \in 0..MaxTrouble
    BY <1>1, <1>2, <1>10 DEF Reset, TypeOK
  <2>3. state' = "none" /\ lastEvent' \in {"nothing", "LostSync"}
    BY <1>10 DEF Reset, SetSyncState, Reported, IInv, TypeOK, EventsMatchState
  <2>4. TypeOK'
    BY <1>2, <1>10, <2>1, <2>2, <2>3 DEF Reset, Anywhere, TypeOK
  <2> QED
    BY <1>10, <2>1, <2>3, <2>4 DEF Reset, IInv, EventsMatchState, TracksStation, FrameInOrder,
       NoMixedFrame, HalfFresh, PxOnlyExtended, FilledWhenReady, NoMixedPx
<1>11. CASE UNCHANGED vars
  BY <1>11 DEF vars, IInv, TypeOK, EventsMatchState, TracksStation, FrameInOrder, NoMixedFrame,
     HalfFresh, PxOnlyExtended, FilledWhenReady, NoMixedPx, Aligned
<1> QED
  BY <1>4, <1>5, <1>6, <1>7, <1>8, <1>9, <1>10, <1>11 DEF Next, Window, Trouble

-----------------------------------------------------------------------------

\* The inductive invariant holds of every behaviour of the receiver.
LEMMA InductiveInvariant == Spec => []IInv
  BY InitIInv, NextIInv, PTL DEF Spec

\* Every field keeps its type: counters and indices stay in their ranges.
THEOREM TypeCorrect == Spec => []TypeOK
<1>1. IInv => TypeOK
  BY DEF IInv
<1> QED
  BY <1>1, InductiveInvariant, PTL

\* The application knows of every sync and of every loss of it.
THEOREM EventsTellState == Spec => []EventsMatchState
<1>1. IInv => EventsMatchState
  BY DEF IInv
<1> QED
  BY <1>1, InductiveInvariant, PTL

\* The block count follows the station for as long as no samples are lost.
THEOREM StationTracked == Spec => []TracksStation
<1>1. IInv => TracksStation
  BY DEF IInv
<1> QED
  BY <1>1, InductiveInvariant, PTL

\* No P1 frame mixes two sync sessions, and no P3 or P4 frame comes from a memory
\* not filled in this one.
THEOREM FramesUnmixed == Spec => []SessionsUnmixed
<1>1. IInv => SessionsUnmixed
  BY DEF IInv, SessionsUnmixed
<1> QED
  BY <1>1, InductiveInvariant, PTL
=============================================================================
