-------------------------------- MODULE SyncAM --------------------------------
(***************************************************************************)
(* Acquisition, synchronisation and block collection in AM (acquire.go,    *)
(* sync.go, decode.go).                                                    *)
(*                                                                         *)
(* One step is one window through processAM.  Unlike FM there is no vote:  *)
(* the receiver locks on when the last four windows carried the last three *)
(* block numbers of a frame and the first of the next, and P1 frames are   *)
(* read a frame late, half of their bits out of a memory Delay frames deep.*)
(***************************************************************************)
EXTENDS Windows, Sequences

CONSTANTS
  Wait,       \* windows between two measurements (8)
  Delay,      \* frames in the diversity memory (diversityDelayAM / 18000, 3)
  MaxTrouble  \* bound on bad windows, lost samples and resets

ASSUME BoundsAssumption == Wait \in Nat \ {0} /\ Delay \in Nat \ {0} /\ MaxTrouble \in Nat
ASSUME PatternAssumption == NB > 3

VARIABLES
  state,          \* input.syncState
  bc, cfoWait,    \* sync: next block number, wait counter
  offsetHistory,  \* sync: the last block numbers seen in a row, at most four
  amDiversityWait,  \* decode: frames before the diversity memory is this session's
  age, good,      \* bufferPL and the others: windows since each block, and whether well received
  il,             \* what the last Delay + 1 runs of interleaverMA1 wrote, newest first
  p1,             \* history: what the last window handed to frame.push
  slipped,        \* history: samples were lost, or false numbers seen, since the first number
  trouble         \* troubles so far

signal == <<blk, off, resid>>
vars == <<signal, state, bc, cfoWait, offsetHistory, amDiversityWait, age, good, il, p1,
          slipped, trouble>>

Oldest == (Delay + 2) * NB
Older(n) == IF n < Oldest THEN n + 1 ELSE n
NeverSeen == [age |-> Oldest, whole |-> FALSE, good |-> {FALSE}]

TypeOK ==
  /\ blk \in Block /\ off \in 0..BlkSz - 1 /\ resid \in BOOLEAN
  /\ state \in {"none", "coarse", "fine"}
  /\ bc \in Block /\ cfoWait \in -1..Wait
  /\ offsetHistory \in Seq(Block) /\ Len(offsetHistory) <= 4
  /\ amDiversityWait \in 0..Delay + 1
  /\ age \in [Block -> 0..Oldest] /\ good \in [Block -> BOOLEAN]
  /\ il \in [1..Delay + 1 ->
               [age: 0..Oldest, whole: BOOLEAN, good: (SUBSET BOOLEAN) \ {{}}]]
  /\ p1 \in {"nothing", "whole", "mixed"}
  /\ slipped \in BOOLEAN /\ trouble \in 0..MaxTrouble

DivWait == Delay + 1  \* amDiversityWait = 4

Init ==
  /\ blk \in Block /\ off \in 0..BlkSz - 1 /\ resid \in BOOLEAN
  /\ state = "none"
  /\ bc = 0 /\ cfoWait = 0 /\ offsetHistory = <<>>
  /\ amDiversityWait = DivWait
  /\ age = [b \in Block |-> Oldest] /\ good = [b \in Block |-> FALSE]
  /\ il = [k \in 1..Delay + 1 |-> NeverSeen]
  /\ p1 = "nothing" /\ slipped = FALSE /\ trouble = 0

-----------------------------------------------------------------------------

\* Every window but the one that measures counts down, in FINE too and past zero:
\* -1 stands for everything below zero, from where no decrement leads back to it.
CountDown == IF cfoWait > -1 THEN cfoWait - 1 ELSE -1

\* offsetHistory << 4 | bc, of which the comparison sees four numbers.
ForgetNone(b) == Append(offsetHistory, b)  \* mutant
Remembered(b) ==
  LET h == Append(offsetHistory, b) IN IF Len(h) > 4 THEN Tail(h) ELSE h

\* 0x5670 in AM's frames of eight blocks.
AnyFour(h) == Len(h) = 4  \* mutant
LocksOn(h) == h = <<NB - 3, NB - 2, NB - 1, 0>>

\* Time passes for what the decoder keeps.
NoBlock ==
  /\ age' = [b \in Block |-> Older(age[b])]
  /\ il' = [k \in 1..Delay + 1 |-> [il[k] EXCEPT !.age = Older(@)]]
  /\ p1' = "nothing"
  /\ UNCHANGED <<bc, good, amDiversityWait>>

\* interleaverMA1: at the last block of a frame, the buffers go to the newest slot
\* and the memory moves up one.
Interleaved(older) ==
  LET new == [age |-> 0,
              whole |-> \A b \in Block : age'[b] = NB - 1 - b,
              good |-> {good'[b] : b \in Block}]
  IN [k \in 1..Delay + 1 |-> IF k = 1 THEN new ELSE older[k - 1]]

\* The P1 frame of block b: half of it was written at the end of the last frame,
\* half Delay frames earlier.
P1Whole(older, b) ==
  \A k \in {1, Delay + 1} : older[k].whole /\ older[k].age = b + 1 + (k - 1) * NB

\* pushPLPUT and processP1P3AM, with wait the frames still to be skipped.
Push(b, wait, clear) ==
  LET older == [k \in 1..Delay + 1 |-> [il[k] EXCEPT !.age = Older(@)]] IN
  /\ bc' = (b + 1) % NB
  /\ age' = [a \in Block |-> IF a = b THEN 0 ELSE Older(age[a])]
  /\ good' = [good EXCEPT ![b] = clear /\ Aligned /\ blk = b]
  /\ p1' = IF wait > 0 THEN "nothing" ELSE IF P1Whole(older, b) THEN "whole" ELSE "mixed"
  /\ il' = IF b = NB - 1 THEN Interleaved(older) ELSE older
  /\ amDiversityWait' = IF b = NB - 1 /\ wait > 0 THEN wait - 1 ELSE wait

\* The PCI fails when neither half was received, and may fail when some was not.
P1Received == UNION {il[k].good : k \in {1, Delay + 1}}

AfterBlock(p1Read) ==
  \/ ~(p1Read /\ P1Received = {FALSE}) /\ state' = "fine"
  \/ p1Read /\ FALSE \in P1Received /\ state' = "none"

\* decode.reset: the diversity memory must be filled anew.
WaitLess == Delay  \* mutant
WaitAfterReset == DivWait

\* The window gives a block number, or none (findBlockAM), and the receiver locks
\* on and treats it as block 0, or not.
Coarse(seen, clear) ==
  LET h == IF seen \in Block THEN Remembered(seen) ELSE <<>> IN
  IF LocksOn(h)
  THEN /\ offsetHistory' = <<>>
       /\ Push(0, WaitAfterReset, clear)
       /\ AfterBlock(FALSE)
  ELSE /\ offsetHistory' = h
       /\ state' = "coarse"
       /\ NoBlock

-----------------------------------------------------------------------------

\* A well received window without sync.  Out of step with the blocks, the pattern
\* is looked for once the wait is over; in step, there is nothing to correct and
\* the block tells its number.  acquire corrects the carrier every time.
CoarseWindow ==
  /\ state # "fine"
  /\ resid' = FALSE
  /\ Coarse(IF Aligned THEN blk ELSE NB, TRUE)
  /\ IF cfoWait = 0 /\ ~resid /\ off # 0
     THEN cfoWait' = Wait /\ Shift(KeepExtra(PatternAt))
     ELSE cfoWait' = (IF cfoWait = 0 THEN 0 ELSE CountDown) /\ Shift(0)
  /\ slipped' = (slipped /\ Aligned /\ offsetHistory # <<>>)
  /\ UNCHANGED trouble

\* A badly received one: a pattern anywhere or none, any block number or none, any
\* carrier.
CoarseNoise ==
  /\ state # "fine" /\ trouble < MaxTrouble
  /\ \E seen \in 0..NB : Coarse(seen, FALSE) /\ slipped' = (seen # NB)
  /\ resid' \in BOOLEAN
  /\ \/ /\ cfoWait = 0
        /\ \E found \in 1..BlkSz - 1 : cfoWait' = Wait /\ Shift(KeepExtra(found))
     \/ cfoWait' = (IF cfoWait = 0 THEN 0 ELSE CountDown) /\ Shift(0)
  /\ trouble' = trouble + 1

FineBlock(clear) ==
  /\ state = "fine"
  /\ clear \/ trouble < MaxTrouble
  /\ cfoWait' = CountDown
  /\ Push(bc, amDiversityWait, clear)
  /\ AfterBlock(amDiversityWait = 0)
  /\ Shift(0)
  /\ trouble' = IF clear THEN trouble ELSE trouble + 1
  /\ UNCHANGED <<offsetHistory, resid, slipped>>

Slip ==
  /\ trouble < MaxTrouble
  /\ Anywhere
  /\ slipped' = TRUE
  /\ trouble' = trouble + 1
  /\ UNCHANGED <<resid, state, bc, cfoWait, offsetHistory, amDiversityWait, age, good, il, p1>>

\* input.reset, after a retune.
Reset ==
  /\ trouble < MaxTrouble
  /\ state' = "none"
  /\ cfoWait' = 0 /\ offsetHistory' = <<>> /\ amDiversityWait' = WaitAfterReset
  /\ Anywhere /\ resid' \in BOOLEAN
  /\ p1' = "nothing" /\ slipped' = FALSE
  /\ trouble' = trouble + 1
  /\ UNCHANGED <<bc, age, good, il>>

Window == CoarseWindow \/ FineBlock(TRUE)

Next == Window \/ CoarseNoise \/ FineBlock(FALSE) \/ Slip \/ Reset

Spec == Init /\ [][Next]_vars

\* Samples keep coming, and well received windows with them.
FairSpec == Spec /\ WF_vars(Window)

-----------------------------------------------------------------------------
(* Properties *)

\* Locked on by four numbers truly received, the receiver counts with the station:
\* 5, 6, 7, 0 leave no doubt of where the window is (sync.go:663).
TracksStation == state = "fine" /\ ~slipped => Aligned /\ bc = blk

\* Both halves of a P1 frame were written by interleaverMA1 in this session, from
\* the blocks of one frame each, as far apart as the station sent them: four frames
\* of waiting are enough for a memory of three (decode.go:130, 553).
NoStaleDiversity == p1 # "mixed"

\* After the last trouble the receiver ends up in sync for good, or out of step with
\* the blocks and with a wait counter below zero: there is no other way not to come
\* back (sync.go:644).
SyncedOrStranded ==
  <>[](state = "fine" /\ Aligned /\ bc = blk) \/ <>[](state # "fine" /\ off # 0 /\ cfoWait < 0)

\* "Wait until the buffers have cleared before measuring again" (sync.go:356): a
\* receiver that waits out of step with the blocks measures again one day.
MeasuresAgain == state = "coarse" /\ off # 0 ~> cfoWait = 0 \/ off = 0
=============================================================================
