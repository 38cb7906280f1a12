-------------------------------- MODULE SyncFM --------------------------------
(***************************************************************************)
(* Acquisition, synchronisation and block collection in FM (acquire.go,    *)
(* sync.go, decode.go, input.go).                                          *)
(*                                                                         *)
(* One step is one call of acquire.process on a full window: BlkSz symbols *)
(* go through the FFT into sync, the last of them runs processFM, and      *)
(* processFM hands the block to decode.                                    *)
(***************************************************************************)
EXTENDS Windows

CONSTANTS
  Wait,       \* windows detectCFO waits before measuring again (8)
  Modes,      \* service modes a station may have (psmi, 0 to 63)
  PxDepth,    \* block pairs the type IV interleaver holds (16)
  MaxTrouble  \* bound on bad windows, lost samples and resets

ASSUME WaitAssumption  == Wait \in Nat /\ PxDepth \in Nat \ {0} /\ MaxTrouble \in Nat
ASSUME ModesAssumption == Modes \subseteq 0..63

VARIABLES
  state,            \* input.syncState
  bc, psmi, cfoWait,  \* sync: next block number, service mode, wait counter
  startedPM,        \* decode: a frame is being collected
  age,              \* decode.bufferPM: windows since each block was stored, at most NB
  good,             \* and whether it holds the block of that number, well received
  px,               \* the PX interleaver: started, ready, i, and age of the first half
  mode,             \* the station's service mode
  lastEvent,        \* history: last of Sync and LostSync reported
  slipped,          \* history: samples were lost since the last sync
  p1, pxOut,        \* history: what the last window handed to frame.push
  trouble           \* troubles so far

signal == <<blk, off, resid, mode>>
vars == <<state, bc, psmi, cfoWait, startedPM, age, good, px, signal, lastEvent,
          slipped, p1, pxOut, trouble>>

NoWrap(b) == b + 1  \* mutant
SameBlock(b) == b  \* mutant
NextBlock(b) == (b + 1) % NB

\* compatibilityMode: what the receiver treats a service mode as.
CompatibilityMode(m) ==
  IF m % 16 = 0 /\ m > 0 THEN 6
  ELSE <<0, 1, 2, 3, 1, 5, 6, 5, 6, 1, 2, 11, 1, 5, 6, 5>>[(m % 16) + 1]
Extended(m) == CompatibilityMode(m) \in {2, 3, 11}  \* carries the PX partitions

\* interleaverIVReset: the buffer keeps its half pair, h windows old.
Fresh(h) == [started |-> FALSE, ready |-> FALSE, i |-> 0, half |-> h, fill |-> 0]

TypeOK ==
  /\ state \in {"none", "coarse", "fine"}
  /\ bc \in Block /\ psmi \in 0..63 /\ cfoWait \in 0..Wait
  /\ startedPM \in BOOLEAN
  /\ age \in [Block -> 0..NB] /\ good \in [Block -> BOOLEAN]
  /\ px \in [started: BOOLEAN, ready: BOOLEAN, i: 0..PxDepth, half: 0..NB, fill: 0..PxDepth]
  /\ blk \in Block /\ off \in 0..BlkSz - 1 /\ resid \in BOOLEAN /\ mode \in Modes
  /\ lastEvent \in {"nothing", "Sync", "LostSync"}
  /\ slipped \in BOOLEAN
  /\ p1 \in {"nothing", "whole", "mixed"} /\ pxOut \in {"nothing", "full", "mixed"}
  /\ trouble \in 0..MaxTrouble

Init ==
  /\ state = "none"
  /\ bc = 0 /\ psmi = 1 /\ cfoWait = 0
  /\ startedPM = FALSE
  /\ age = [b \in Block |-> NB] /\ good = [b \in Block |-> FALSE]
  /\ px = Fresh(NB)
  /\ blk \in Block /\ off \in 0..BlkSz - 1 /\ resid \in BOOLEAN /\ mode \in Modes
  /\ lastEvent = "nothing" /\ slipped = FALSE
  /\ p1 = "nothing" /\ pxOut = "nothing"
  /\ trouble = 0

-----------------------------------------------------------------------------

\* setSyncState: nothing when the state is the same, LostSync on leaving FINE,
\* Sync on entering it.
SilentLoss(new) == IF new = "fine" /\ state # "fine" THEN "Sync" ELSE lastEvent  \* mutant
Reported(new) == IF new = state THEN lastEvent
                 ELSE IF new = "fine" THEN "Sync"
                 ELSE IF state = "fine" THEN "LostSync" ELSE lastEvent

SetSyncState(new) == state' = new /\ lastEvent' = Reported(new)

\* The window's blocks grow older by one window each.
Older(n) == IF n < NB THEN n + 1 ELSE NB

\* Nothing for the decoder in this window.
NoBlock ==
  /\ age' = [b \in Block |-> Older(age[b])]
  /\ px' = [px EXCEPT !.half = Older(@)]
  /\ p1' = "nothing" /\ pxOut' = "nothing"
  /\ UNCHANGED <<bc, psmi, startedPM, good, mode>>

\* processFM without sync, too few reference subcarriers decoded, and the wait
\* over: detectCFO finds the carrier and the start of the block.
DetectCFO ==
  /\ state # "fine" /\ cfoWait = 0 /\ ~Aligned
  /\ SetSyncState("coarse")
  /\ cfoWait' = Wait
  /\ resid' = FALSE
  /\ Shift(KeepExtra(PatternAt))
  /\ NoBlock
  /\ UNCHANGED <<slipped, trouble>>

\* The same on noise that happens to look like the pattern in three places.
FalseDetect ==
  /\ state # "fine" /\ cfoWait = 0 /\ trouble < MaxTrouble
  /\ SetSyncState("coarse")
  /\ cfoWait' = Wait
  /\ resid' \in BOOLEAN
  /\ \E found \in 0..BlkSz - 1 : Shift(KeepExtra(found))
  /\ NoBlock
  /\ trouble' = trouble + 1
  /\ UNCHANGED slipped

\* Too few references, and the wait not over.
Wait1 ==
  /\ state # "fine" /\ cfoWait > 0 /\ ~Aligned
  /\ SetSyncState("coarse")
  /\ cfoWait' = cfoWait - 1
  /\ Shift(0) /\ NoBlock
  /\ UNCHANGED <<resid, slipped, trouble>>

\* A noisy window: too few references and no pattern, or references enough that
\* do not agree (then cfoWait is left alone).
NoisyWindow ==
  /\ state # "fine" /\ trouble < MaxTrouble
  /\ SetSyncState("coarse")
  /\ cfoWait' \in {cfoWait} \cup (IF cfoWait > 0 THEN {cfoWait - 1} ELSE {})
  /\ Shift(0) /\ NoBlock
  /\ trouble' = trouble + 1
  /\ UNCHANGED <<resid, slipped>>

\* The votes are counted for psmi 0 to 15 only: any other mode has no majority.
PsmiVotes == 0..15

NoMajority ==
  /\ state # "fine" /\ Aligned /\ mode \notin PsmiVotes
  /\ SetSyncState("coarse")
  /\ Shift(0) /\ NoBlock
  /\ UNCHANGED <<cfoWait, resid, slipped, trouble>>

-----------------------------------------------------------------------------
(* A block of number b enters the decoder: pushPM, then pushPX1.           *)
(* started and p come from before, or from decode.reset.                   *)

\* interleaverIV: i wraps, and from then on the memory has been filled once.
StepIV(p) ==
  LET wrap == p.i = PxDepth IN
  [p EXCEPT !.i = IF wrap THEN 1 ELSE @ + 1,
            !.ready = @ \/ wrap,
            !.fill = IF @ < PxDepth THEN @ + 1 ELSE @]

PushPX(p, b) ==
  IF b % 2 = 0 THEN [p EXCEPT !.started = TRUE, !.half = 0]
  ELSE IF p.started THEN StepIV([p EXCEPT !.half = Older(@)])
  ELSE [p EXCEPT !.half = Older(@)]

\* What frame.push gets from pushPX1: pairs of neighbouring blocks only, and
\* nothing from a memory not yet filled.
PxResult(p, b) ==
  LET q == PushPX(p, b) IN
  IF b % 2 = 1 /\ q.started /\ q.ready
  THEN IF q.half = 1 /\ p.fill = PxDepth THEN "full" ELSE "mixed"
  ELSE "nothing"

WholeFrame == \A b \in Block : age'[b] = NB - 1 - b

\* Block b received in service mode m: clear says whether its symbols were.
Push(b, m, p, started, clear) ==
  /\ bc' = NextBlock(b)
  /\ age'  = [a \in Block |-> IF a = b THEN 0 ELSE Older(age[a])]
  /\ good' = [good EXCEPT ![b] = clear /\ Aligned /\ blk = b]
  /\ startedPM' = (started \/ b = 0)
  /\ p1' = IF startedPM' /\ b = NB - 1 THEN IF WholeFrame THEN "whole" ELSE "mixed"
                                       ELSE "nothing"
  /\ px' = IF Extended(m) THEN PushPX(p, b) ELSE p
  /\ pxOut' = IF Extended(m) THEN PxResult(p, b) ELSE "nothing"
  /\ Shift(0)
  /\ UNCHANGED <<resid, mode>>

\* The PCI of a P1 frame fails when nothing of it was received, and may fail
\* when some block was not; frame.push then gives the sync up.
P1Fails == p1' # "nothing" /\ \A b \in Block : ~good'[b]
P1MayFail == p1' # "nothing" /\ \E b \in Block : ~good'[b]

AfterBlock(new) ==
  \/ ~P1Fails /\ state' = "fine" /\ lastEvent' = new
  \/ P1MayFail /\ state' = "none" /\ lastEvent' = "LostSync"

\* decode.reset: the collection of a frame starts over.
StartedAfterReset == FALSE
KeepPx == px  \* mutant
PxAfterReset == Fresh(px.half)

\* processFM finds the majority, enters FINE, resets decode and frame, and goes
\* on to treat the window as its first block.
Synchronise ==
  /\ state # "fine" /\ Aligned /\ mode \in PsmiVotes
  /\ psmi' = mode
  /\ Push(blk, mode, PxAfterReset, StartedAfterReset, TRUE)
  /\ AfterBlock("Sync")
  /\ slipped' = FALSE
  /\ UNCHANGED <<cfoWait, trouble>>

\* processFM while in FINE.
FineBlock(clear) ==
  /\ state = "fine"
  /\ clear \/ trouble < MaxTrouble
  /\ Push(bc, psmi, px, startedPM, clear)
  /\ AfterBlock(lastEvent)
  /\ trouble' = IF clear THEN trouble ELSE trouble + 1
  /\ UNCHANGED <<psmi, cfoWait, slipped>>

-----------------------------------------------------------------------------

\* Samples are lost on the way: the next window starts elsewhere.
Slip ==
  /\ trouble < MaxTrouble
  /\ Anywhere
  /\ slipped' = TRUE
  /\ trouble' = trouble + 1
  /\ UNCHANGED <<state, bc, psmi, cfoWait, startedPM, age, good, px, resid, mode, lastEvent,
                 p1, pxOut>>

\* Radio.Reset, after a retune: input.reset, with acquire, decode and sync.  The
\* block number, which sync.reset leaves alone, means nothing until the next sync.
Reset ==
  /\ trouble < MaxTrouble
  /\ SetSyncState("none")
  /\ psmi' = 1 /\ cfoWait' = 0
  /\ startedPM' = FALSE /\ px' = PxAfterReset
  /\ Anywhere /\ resid' \in BOOLEAN /\ mode' \in Modes
  /\ trouble' = trouble + 1
  /\ p1' = "nothing" /\ pxOut' = "nothing"
  /\ UNCHANGED <<bc, age, good, slipped>>

Window ==
  \/ DetectCFO \/ Wait1 \/ NoMajority \/ Synchronise \/ FineBlock(TRUE)

Trouble == FalseDetect \/ NoisyWindow \/ FineBlock(FALSE) \/ Slip \/ Reset

Next == Window \/ Trouble

Spec == Init /\ [][Next]_vars

\* Samples keep coming, and well received windows with them.
FairSpec == Spec /\ WF_vars(Window)

-----------------------------------------------------------------------------
(* Properties *)

\* The application has been told Sync exactly while the receiver is in FINE:
\* every way out of it, a failed frame and a reset included, reports LostSync
\* once (input.go:74).
EventsMatchState == state = "fine" <=> lastEvent = "Sync"

\* In FINE, and as long as no samples are lost, windows start at blocks and bc is
\* the number of the next one: what detectCFO kept and processFM voted and
\* counted agree (sync.go:351, 603, acquire.go:570).
TracksStation == state = "fine" /\ ~slipped => Aligned /\ bc = blk

\* Every P1 frame consists of blocks of one sync session, received one after the
\* other: resynchronising in the middle of a frame does not mix two (decode.go:423).
NoMixedFrame == p1 # "mixed"

\* A P3 or P4 frame is made from pairs of neighbouring blocks, out of an
\* interleaver memory filled in this session (decode.go:387, 501).
NoMixedPx == pxOut # "mixed"

\* No frame that decode hands on mixes two sync sessions, in whatever block the second
\* begins and whichever of the memories the first left full.
SessionsUnmixed == NoMixedFrame /\ NoMixedPx

\* After the last trouble the receiver finds the station and stays with it
\* (acquire.go:418, sync.go:363).
StaysInSync == <>[](state = "fine" /\ Aligned /\ bc = blk)

\* It does so with every station whose service mode can win the vote (sync.go:411).
StaysIfVoted == <>[](mode \notin PsmiVotes) \/ StaysInSync
=============================================================================
