------------------------------- MODULE SampleFeed -------------------------------
(***************************************************************************)
(* From bytes to windows: the PipeSamples functions, Run and the worker's  *)
(* reads (radio.go), the grouping and decimation of samples (input.go) and *)
(* the buffer of acquire.go.                                               *)
(*                                                                         *)
(* A recording is fed unit by unit (byte, int16 or float), numbered modulo *)
(* Period.  A sample is known by the number of its first unit, and is      *)
(* Broken when its units do not follow each other from there.              *)
(***************************************************************************)
EXTENDS Integers, Sequences

CONSTANTS
  Stages,     \* halfband stages between the first and the output in AM (4)
  WindowLen,  \* samples of a window (fftcp * 33)
  Period,     \* units are numbered modulo this
  MaxChunk    \* most units in one call

\* Samples of the first stage that make one of stage k: 2^k.
Halved[k \in 0..Stages] == IF k = 0 THEN 1 ELSE 2 * Halved[k - 1]

ASSUME SizesAssumption ==
  /\ Stages \in Nat \ {0} /\ WindowLen \in Nat \ {0, 1} /\ MaxChunk \in Nat
  /\ Period \in Nat /\ Period % (4 * Halved[Stages]) = 0 /\ Period > WindowLen * 4 * Halved[Stages]

\* How a recording is fed: by the three functions, or by reads of Run or the worker.
Feeds == {"cu8", "cs16", "cf32", "read"}
HasLeftover == {"cu8", "cs16"}

VARIABLES
  feed, fed,  \* application: how it feeds, and its next unit
  mode,       \* Radio.mode
  left,       \* leftoverU8 and leftoverS16
  offset,     \* input.offset, of which the low Stages bits are used
  stages,     \* input.stages: both inputs of each stage
  inBuffer,   \* acquire.inBuffer[:idx]
  whole,      \* history: every window so far of this recording was what it should be
  next,       \* history: where the next window should start
  spoilt      \* history: units were dropped, or joined to those of another recording

vars == <<feed, fed, mode, left, offset, stages, inBuffer, whole, next, spoilt>>

Broken == -1
Number == 0..Period - 1
Sample == Number \cup {Broken}

Group == IF feed \in {"cu8", "read"} THEN 4 ELSE 2
UnitsOf(m) == IF m = "AM" /\ feed \in {"cu8", "read"} THEN Group * Halved[Stages] ELSE Group

TypeOK ==
  /\ feed \in Feeds /\ fed \in Number /\ mode \in {"FM", "AM"}
  /\ left \in [HasLeftover -> Seq(Sample)] /\ Len(left["cu8"]) < 4 /\ Len(left["cs16"]) < 2
  /\ offset \in 0..Halved[Stages] - 1
  /\ stages \in [0..Stages - 1 -> [{0, 1} -> Sample]]
  /\ inBuffer \in Seq(Sample) /\ Len(inBuffer) < WindowLen
  /\ whole \in BOOLEAN /\ next \in Number /\ spoilt \in BOOLEAN

Init ==
  /\ feed \in Feeds /\ fed = 0 /\ mode = "FM"
  /\ left = [f \in HasLeftover |-> << >>]
  /\ offset = 0 /\ stages = [k \in 0..Stages - 1 |-> [i \in {0, 1} |-> Broken]]
  /\ inBuffer = << >>
  /\ whole = TRUE /\ next = 0 /\ spoilt = FALSE

-----------------------------------------------------------------------------
(* Grouping. *)

\* Groups of a sequence of units, as many as there are whole ones.
Cut(units) == [j \in 1..Len(units) \div Group |-> SubSeq(units, (j - 1) * Group + 1, j * Group)]
Rest(units) == SubSeq(units, (Len(units) \div Group) * Group + 1, Len(units))

\* PipeSamplesCU8 and PipeSamplesCS16: what was left over is filled up first.
FilledUp(kept, chunk) ==
  LET room == IF kept = << >> THEN 0 ELSE Group - Len(kept) IN
  SubSeq(chunk, 1, IF room < Len(chunk) THEN room ELSE Len(chunk))

Piped(kept, chunk) ==
  LET more == FilledUp(kept, chunk)
      rest == SubSeq(chunk, Len(more) + 1, Len(chunk))
  IN [groups |-> Cut(kept \o more) \o Cut(rest), left |-> Rest(kept \o more) \o Rest(rest)]

\* A group as a sample.
Sampled(units) ==
  IF units[1] % Group = 0 /\ \A i \in 1..Group : units[i] = (units[1] + i - 1) % Period
  THEN units[1] ELSE Broken

\* Two samples of n units each as one.
Joined(a, b, n) == IF a # Broken /\ b = (a + n) % Period THEN a ELSE Broken

\* decimateSamples in AM: one group through as many stages as have two inputs.
Stage(d, g) ==
  LET Reached(k) == d.offset % Halved[k] = Halved[k] - 1
      through[k \in 0..Stages] ==
        IF k = 0 THEN g ELSE Joined(d.stages[k - 1][0], through[k - 1], Group * Halved[k - 1])
  IN [offset |-> (d.offset + 1) % Halved[Stages],
      stages |-> [k \in 0..Stages - 1 |->
                    IF Reached(k) THEN [d.stages[k] EXCEPT ![(d.offset \div Halved[k]) % 2] = through[k]]
                    ELSE d.stages[k]],
      out    |-> IF Reached(Stages) THEN Append(d.out, through[Stages]) ELSE d.out]

\* pushCU8, pushCS16 and pushCF32: the samples of these groups.
Decimated(groups) ==
  LET after[j \in 0..Len(groups)] ==
        IF j = 0 THEN [offset |-> offset, stages |-> stages, out |-> << >>]
        ELSE IF UnitsOf(mode) = Group
        THEN [after[j - 1] EXCEPT !.out = Append(@, Sampled(groups[j]))]
        ELSE Stage(after[j - 1], Sampled(groups[j]))
  IN after[Len(groups)]

-----------------------------------------------------------------------------
(* Windows. *)

Window(start) == [i \in 1..WindowLen |-> (start + (i - 1) * UnitsOf(mode)) % Period]

\* acquire.process keeps the end of a full buffer for the next window.
OneMoreKept(buf, keep) == SubSeq(buf, Len(buf) - keep, Len(buf))  \* mutant
LastOf(buf, keep) == SubSeq(buf, Len(buf) - keep + 1, Len(buf))

\* input.push, one sample: acquire.push takes what there is room for, and process
\* runs when the buffer is full, until all are taken.
Taken(acq, s, keep) ==
  LET buf == Append(acq.inBuffer, s) IN
  IF Len(buf) < WindowLen THEN [acq EXCEPT !.inBuffer = buf]
  ELSE [inBuffer |-> LastOf(buf, keep),
        whole    |-> acq.whole /\ buf = Window(acq.next),
        next     |-> (acq.next + (WindowLen - keep) * UnitsOf(mode)) % Period]

Push(groups, keep) ==
  LET d == Decimated(groups)
      after[j \in 0..Len(d.out)] ==
        IF j = 0 THEN [inBuffer |-> inBuffer, whole |-> whole, next |-> next]
        ELSE Taken(after[j - 1], d.out[j], keep)
      acq == after[Len(d.out)]
  IN /\ offset' = d.offset /\ stages' = d.stages
     /\ inBuffer' = acq.inBuffer /\ whole' = acq.whole /\ next' = acq.next

\* The next n units of the recording.
Units(n) == [i \in 1..n |-> (fed + i - 1) % Period]

\* A call of PipeSamplesCU8 or PipeSamplesCS16; how much of a window is kept
\* depends on the signal.  A recording is not followed beyond where it is spoilt.
Pipe ==
  /\ feed \in HasLeftover /\ ~spoilt
  /\ \E n \in 0..MaxChunk, keep \in 1..WindowLen - 1 :
       LET p == Piped(left[feed], Units(n)) IN
       /\ Push(p.groups, keep)
       /\ left' = [left EXCEPT ![feed] = p.left]
       /\ fed' = (fed + n) % Period
  /\ UNCHANGED <<feed, mode, spoilt>>

\* PipeSamplesCF32, and a read of Run or of the worker: units beyond a whole group
\* are dropped.
Read ==
  /\ feed \notin HasLeftover /\ ~spoilt
  /\ \E n \in 0..MaxChunk, keep \in 1..WindowLen - 1 :
       /\ Push(Cut(Units(n)), keep)
       /\ fed' = (fed + n) % Period
       /\ spoilt' = (spoilt \/ n % Group # 0)
  /\ UNCHANGED <<feed, mode, left>>

\* input.reset.  What is in the stages stays, and is Broken for what comes after.
OffsetKept ==  \* mutant
  /\ offset' = offset /\ inBuffer' = << >>
  /\ stages' = [k \in 0..Stages - 1 |-> [i \in {0, 1} |-> Broken]]
Restart ==
  /\ offset' = 0 /\ inBuffer' = << >>
  /\ stages' = [k \in 0..Stages - 1 |-> [i \in {0, 1} |-> Broken]]

\* Reset or SetMode, in the middle of a recording or before another one: neither
\* touches what PipeSamples left over.
Reset ==
  /\ mode' \in {"FM", "AM"}
  /\ Restart /\ whole' = TRUE
  /\ \/ /\ UNCHANGED <<feed, fed, left, spoilt>>
        /\ next' = IF feed \in HasLeftover THEN (fed + Period - Len(left[feed])) % Period ELSE fed
     \/ /\ feed' \in Feeds /\ fed' = 0 /\ next' = 0
        /\ left' = [f \in HasLeftover |-> [i \in DOMAIN left[f] |-> Broken]]
        /\ spoilt' = (feed' \in HasLeftover /\ left[feed'] # << >>)

Next == Pipe \/ Read \/ Reset

Spec == Init /\ [][Next]_vars

-----------------------------------------------------------------------------

\* However a recording is cut into calls, and whatever was fed before, the windows are
\* those of the recording in one piece: no unit lost, doubled or out of its place, each
\* sample of the units that belong together, and each window beginning as far before the
\* end of the last as acquire kept (radio.go:325, input.go:112, acquire.go:289, 578).  Not
\* where Run, the worker or PipeSamplesCF32 dropped units that made no group, nor for a
\* recording that follows a Reset with units of another left over.
WindowsWhole == ~spoilt => whole
=============================================================================
