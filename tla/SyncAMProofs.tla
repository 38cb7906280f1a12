------------------------------ MODULE SyncAMProofs ------------------------------
(***************************************************************************)
(* Safety of SyncAM for any size of blocks and frames of four blocks or    *)
(* more, any wait, any depth of the diversity memory and any number of     *)
(* troubles.                                                               *)
(***************************************************************************)
EXTENDS SyncAM, SequenceTheorems, TLAPS

-----------------------------------------------------------------------------
(* Facts about numbers. *)

\* From the last number below n the count goes on with 0.
LEMMA NextRound ==
  ASSUME NEW n \in Nat \ {0}, NEW b \in 0..n - 1
  PROVE  (b + 1) % n = (IF b = n - 1 THEN 0 ELSE b + 1) /\ (b + 1) % n \in 0..n - 1
<1>1. CASE b = n - 1
  BY <1>1
<1>2. CASE b # n - 1
  BY <1>2
<1> QED
  BY <1>1, <1>2

\* What is missing to a full round.
LEMMA RestOfRound ==
  ASSUME NEW n \in Nat \ {0}, NEW b \in 0..n - 1
  PROVE  (n - b) % n = (IF b = 0 THEN 0 ELSE n - b) /\ (n - b) % n \in 0..n - 1
<1>1. CASE b = 0
  BY <1>1
<1>2. CASE b # 0
  BY <1>2
<1> QED
  BY <1>1, <1>2

-----------------------------------------------------------------------------
\* The blocks of the frame under way arrived one window apart, the last of them in
\* the last window.
FrameInOrder == state = "fine" => \A b \in Block : b < bc => age[b] = bc - 1 - b

\* The memory holds as many whole frames of this session as were waited for, one
\* frame apart.
MemoryInOrder ==
  state = "fine" => \A k \in 1..DivWait - amDiversityWait :
                      il[k].whole /\ il[k].age = bc + (k - 1) * NB

IInv ==
  /\ TypeOK
  /\ TracksStation
  /\ NoStaleDiversity /\ FrameInOrder /\ MemoryInOrder

Run == [age: 0..Oldest, whole: BOOLEAN, good: (SUBSET BOOLEAN) \ {{}}]

USE DEF signal

-----------------------------------------------------------------------------
(* Windows. *)

\* Blocks are counted up to the last one and over again.
LEMMA CountedUp ==
  ASSUME NEW b \in Block
  PROVE  /\ (b + 1) % NB = IF b = NB - 1 THEN 0 ELSE b + 1
         /\ (b + 1) % NB \in Block
  BY NextRound, SizesAssumption DEF Block

\* What is kept beside the overlap is less than a block.
LEMMA KeepExtraIs ==
  ASSUME NEW found \in 0..BlkSz - 1
  PROVE  /\ KeepExtra(found) = IF found = 0 THEN 0 ELSE BlkSz - found
         /\ KeepExtra(found) \in 0..BlkSz - 1
  BY RestOfRound, SizesAssumption DEF KeepExtra

\* The next window is a window, and the next block's when nothing more is kept.
LEMMA ShiftIs ==
  ASSUME blk \in Block, off \in 0..BlkSz - 1, NEW extra \in 0..BlkSz - 1, Shift(extra)
  PROVE  /\ blk' \in Block /\ off' \in 0..BlkSz - 1
         /\ extra = 0 => off' = off /\ blk' = (blk + 1) % NB
  BY CountedUp, SizesAssumption DEF Shift

-----------------------------------------------------------------------------

\* Sizes and their products are numbers.
LEMMA Sizes ==
  /\ BlkSz \in Nat /\ BlkSz > 1 /\ NB \in Nat /\ NB > 3
  /\ Wait \in Nat /\ Wait > 0 /\ Delay \in Nat /\ Delay > 0 /\ MaxTrouble \in Nat
  /\ Oldest \in Nat /\ Oldest = Delay * NB + 2 * NB
<1>1. /\ BlkSz \in Nat /\ BlkSz > 1 /\ NB \in Nat /\ NB > 3
      /\ Wait \in Nat /\ Wait > 0 /\ Delay \in Nat /\ Delay > 0 /\ MaxTrouble \in Nat
  BY SizesAssumption, BoundsAssumption, PatternAssumption
<1>2. Delay * NB \in Nat
  BY <1>1
<1>3. Oldest = Delay * NB + 2 * NB
  BY <1>1 DEF Oldest
<1> QED
  BY <1>1, <1>2, <1>3

\* Ages grow up to the oldest one that is told apart.
LEMMA OlderIs ==
  ASSUME NEW n \in 0..Oldest
  PROVE  Older(n) \in 0..Oldest /\ (n < Oldest => Older(n) = n + 1)
  BY Sizes DEF Older

\* A memory a window later.
LEMMA Aged ==
  ASSUME NEW r \in Run
  PROVE  LET o == [r EXCEPT !.age = Older(@)] IN
         o \in Run /\ o.age = Older(r.age) /\ o.whole = r.whole
<1>1. r.age \in 0..Oldest /\ r.whole \in BOOLEAN /\ r.good \in (SUBSET BOOLEAN) \ {{}}
  BY DEF Run
<1>2. Older(r.age) \in 0..Oldest
  BY <1>1, OlderIs
<1>3. [r EXCEPT !.age = Older(@)] = [age |-> Older(r.age), whole |-> r.whole, good |-> r.good]
  BY DEF Run
<1>4. [age |-> Older(r.age), whole |-> r.whole, good |-> r.good] \in Run
  BY <1>1, <1>2, Zenon DEF Run
<1> QED
  BY <1>3, <1>4

\* The invariant holds before synchronisation.
LEMMA InitIInv == Init => IInv
<1> SUFFICES ASSUME Init PROVE IInv
  OBVIOUS
<1>1. NeverSeen \in Run
  <2>1. Oldest \in 0..Oldest
    BY Sizes
  <2>2. {FALSE} \in (SUBSET BOOLEAN) \ {{}}
    OBVIOUS
  <2> QED
    BY <2>1, <2>2 DEF NeverSeen, Run
<1>2. il \in [1..Delay + 1 -> Run]
  BY <1>1 DEF Init
<1>3. /\ bc \in Block /\ cfoWait \in -1..Wait /\ amDiversityWait \in 0..Delay + 1
      /\ age \in [Block -> 0..Oldest] /\ good \in [Block -> BOOLEAN]
      /\ trouble \in 0..MaxTrouble
  BY Sizes DEF Init, Block, DivWait
<1>4. offsetHistory \in Seq(Block) /\ Len(offsetHistory) <= 4
  BY DEF Init
<1>5. TypeOK
  BY <1>2, <1>3, <1>4 DEF Init, TypeOK, Run
<1> QED
  BY <1>5 DEF Init, IInv, TracksStation, NoStaleDiversity, FrameInOrder, MemoryInOrder

\* A sequence of four has a fourth element.
LEMMA FourElements ==
  ASSUME NEW S, NEW s \in Seq(S), Len(s) = 4
  PROVE  4 \in 1..Len(s) /\ s # << >> /\ Len(s) <= 4
  OBVIOUS

\* A number more, and no more than four.
LastFour(h, b) == IF Len(Append(h, b)) > 4 THEN Tail(Append(h, b)) ELSE Append(h, b)

\* offsetHistory holds at most the last four numbers, the newest at its end.
LEMMA LastFourIs ==
  ASSUME NEW S, NEW h \in Seq(S), Len(h) <= 4, NEW b \in S
  PROVE  /\ LastFour(h, b) \in Seq(S) /\ Len(LastFour(h, b)) <= 4
         /\ LastFour(h, b) # << >> /\ LastFour(h, b)[Len(LastFour(h, b))] = b
         /\ h = << >> => Len(LastFour(h, b)) = 1
<1> DEFINE a == Append(h, b)
<1>1. a \in Seq(S) /\ a # << >> /\ Len(a) = Len(h) + 1 /\ a[Len(a)] = b /\ Len(h) \in Nat
  BY AppendProperties, LenProperties
<1>2. LastFour(h, b) = IF Len(a) > 4 THEN Tail(a) ELSE a
  BY DEF LastFour
<1>3. /\ Tail(a) \in Seq(S) /\ Len(Tail(a)) = Len(a) - 1
      /\ \A i \in 1..Len(Tail(a)) : Tail(a)[i] = a[i + 1]
  BY <1>1, HeadTailProperties
<1>4. h = << >> => Len(h) = 0
  OBVIOUS
<1> HIDE DEF a
<1>5. CASE Len(a) > 4
  <2>1. Len(a) = 5 /\ Len(h) = 4 /\ Len(Tail(a)) = 4
    BY <1>1, <1>3, <1>5
  <2>2. LastFour(h, b) = Tail(a)
    BY <1>2, <1>5
  <2>3. Tail(a)[4] = b
    <3>1. 4 \in 1..Len(Tail(a))
      BY <1>3, <2>1, FourElements, Zenon
    <3>2. Tail(a)[4] = a[4 + 1]
      BY <1>3, <3>1, Zenon
    <3> QED
      BY <1>1, <2>1, <3>2
  <2>4. Tail(a) # << >> /\ Len(Tail(a)) <= 4
    BY <1>3, <2>1, FourElements, Zenon
  <2>5. h # << >>
    BY <1>4, <2>1
  <2> QED
    BY <1>3, <2>1, <2>2, <2>3, <2>4, <2>5, Zenon
<1>6. CASE ~(Len(a) > 4)
  <2>1. LastFour(h, b) = a
    BY <1>2, <1>6
  <2>2. Len(a) <= 4 /\ (h = << >> => Len(a) = 1)
    BY <1>1, <1>4, <1>6
  <2> QED
    BY <1>1, <2>1, <2>2
<1> QED
  BY <1>5, <1>6

\* The last of the numbers remembered is the one just seen.
LEMMA RememberedIs ==
  ASSUME offsetHistory \in Seq(Block), Len(offsetHistory) <= 4, NEW b \in Block
  PROVE  /\ Remembered(b) \in Seq(Block) /\ Len(Remembered(b)) <= 4
         /\ Remembered(b) # << >> /\ Remembered(b)[Len(Remembered(b))] = b
         /\ offsetHistory = << >> => Len(Remembered(b)) = 1
<1>1. Remembered(b) = LastFour(offsetHistory, b)
  BY DEF Remembered, LastFour
<1> HIDE DEF Block
<1> QED
  BY <1>1, LastFourIs

\* Frames before a run of the memory, in windows.
LEMMA Multiples ==
  ASSUME NEW k \in 1..Delay + 1
  PROVE  /\ (k - 1) * NB \in 0..Delay * NB
         /\ k # 1 => (k - 1) * NB = NB + (k - 1 - 1) * NB
<1>1. NB \in Nat /\ Delay \in Nat /\ k \in Int /\ k >= 1 /\ k <= Delay + 1
  BY Sizes
<1> DEFINE m == k - 1
           d == Delay - m
<1>2. m \in Nat /\ d \in Nat /\ Delay = m + d
  BY <1>1
<1> HIDE DEF m, d
<1>3. m * NB \in Nat /\ d * NB \in Nat
  BY <1>1, <1>2
<1>4. Delay * NB = m * NB + d * NB
  BY <1>1, <1>2
<1>5. m * NB \in 0..Delay * NB
  BY <1>3, <1>4
<1>6. m * NB = NB + (m - 1) * NB
  BY <1>1, <1>2
<1> QED
  BY <1>5, <1>6 DEF m

\* What the memory holds a window later.
LEMMA MemoryAged ==
  ASSUME TypeOK, NEW older, older = [k \in 1..Delay + 1 |-> [il[k] EXCEPT !.age = Older(@)]]
  PROVE  /\ older \in [1..Delay + 1 -> Run]
         /\ \A k \in 1..Delay + 1 : older[k].age = Older(il[k].age) /\ older[k].whole = il[k].whole
<1>1. \A k \in 1..Delay + 1 : il[k] \in Run
  BY DEF TypeOK, Run
<1>2. \A k \in 1..Delay + 1 : older[k] = [il[k] EXCEPT !.age = Older(@)]
  OBVIOUS
<1>3. \A k \in 1..Delay + 1 : /\ older[k] \in Run
                              /\ older[k].age = Older(il[k].age)
                              /\ older[k].whole = il[k].whole
  BY <1>1, <1>2, Aged, Zenon
<1> QED
  BY <1>3, Zenon

\* A window without a block.
LEMMA NoBlockTypes ==
  ASSUME TypeOK, NoBlock
  PROVE  /\ bc' \in Block /\ amDiversityWait' \in 0..Delay + 1
         /\ age' \in [Block -> 0..Oldest] /\ good' \in [Block -> BOOLEAN]
         /\ il' \in [1..Delay + 1 -> Run] /\ p1' = "nothing"
<1>1. age' \in [Block -> 0..Oldest]
  BY OlderIs DEF NoBlock, TypeOK
<1>2. il' \in [1..Delay + 1 -> Run]
  BY MemoryAged DEF NoBlock
<1> QED
  BY <1>1, <1>2 DEF NoBlock, TypeOK

\* A block of number b enters the decoder: if the blocks of the frame and the frames
\* of the memory were in order before it, they are with it, and the P1 frame that
\* comes out is whole.
LEMMA PushInOrder ==
  ASSUME TypeOK, NEW b \in Block, NEW wait \in 0..Delay + 1, NEW clear \in BOOLEAN,
         Push(b, wait, clear),
         \A a \in Block : a < b => age[a] = b - 1 - a,
         \A k \in 1..DivWait - wait : il[k].whole /\ il[k].age = b + (k - 1) * NB
  PROVE  /\ bc' \in Block /\ bc' = (b + 1) % NB
         /\ age' \in [Block -> 0..Oldest] /\ good' \in [Block -> BOOLEAN]
         /\ il' \in [1..Delay + 1 -> Run]
         /\ amDiversityWait' \in 0..Delay + 1
         /\ p1' \in {"nothing", "whole"}
         /\ \A a \in Block : a < bc' => age'[a] = bc' - 1 - a
         /\ \A k \in 1..DivWait - amDiversityWait' :
              il'[k].whole /\ il'[k].age = bc' + (k - 1) * NB
<1> DEFINE older == [k \in 1..Delay + 1 |-> [il[k] EXCEPT !.age = Older(@)]]
<1>1. b \in 0..NB - 1 /\ NB \in Nat /\ NB > 3 /\ Delay \in Nat /\ Oldest \in Nat
      /\ Oldest = Delay * NB + 2 * NB /\ Delay * NB \in Nat
  BY Sizes DEF Block
<1>2. bc' = (b + 1) % NB /\ bc' \in Block /\ bc' = IF b = NB - 1 THEN 0 ELSE b + 1
  BY CountedUp DEF Push
<1>3. /\ older \in [1..Delay + 1 -> Run]
      /\ \A k \in 1..Delay + 1 : older[k].age = Older(il[k].age) /\ older[k].whole = il[k].whole
  BY MemoryAged, Zenon
<1>4. age' = [a \in Block |-> IF a = b THEN 0 ELSE Older(age[a])]
  BY DEF Push
<1>5. age' \in [Block -> 0..Oldest]
  <2>1. \A a \in Block : Older(age[a]) \in 0..Oldest
    BY OlderIs DEF TypeOK
  <2>2. 0 \in 0..Oldest
    BY <1>1
  <2> HIDE DEF older
  <2> QED
    BY <1>4, <2>1, <2>2
<1>6. good' \in [Block -> BOOLEAN]
  BY DEF Push, TypeOK, Aligned
<1>7. amDiversityWait' = IF b = NB - 1 /\ wait > 0 THEN wait - 1 ELSE wait
  BY DEF Push
<1>8. amDiversityWait' \in 0..Delay + 1
  BY <1>1, <1>7
<1>9. \A a \in Block : a <= b => age'[a] = b - a
  <2> SUFFICES ASSUME NEW a \in Block, a <= b PROVE age'[a] = b - a
    OBVIOUS
  <2>1. a \in 0..NB - 1
    BY DEF Block
  <2>2. CASE a = b
    BY <1>1, <1>4, <2>2
  <2>3. CASE a # b
    <3>1. a < b /\ age[a] = b - 1 - a
      BY <1>1, <2>1, <2>3
    <3>2. age[a] \in 0..Oldest /\ age[a] < Oldest
      BY <1>1, <2>1, <3>1
    <3>3. age'[a] = age[a] + 1
      BY <1>4, <2>3, <3>2, OlderIs
    <3> QED
      BY <1>1, <2>1, <3>1, <3>3
  <2> QED
    BY <2>2, <2>3
<1>10. \A a \in Block : a < bc' => age'[a] = bc' - 1 - a
  <2>1. CASE b = NB - 1
    BY <1>1, <1>2, <2>1 DEF Block
  <2>2. CASE b # NB - 1
    BY <1>1, <1>2, <1>9, <2>2 DEF Block
  <2> QED
    BY <2>1, <2>2
<1>11. \A k \in 1..DivWait - wait : /\ k \in 1..Delay + 1
                                    /\ older[k].whole
                                    /\ older[k].age = b + 1 + (k - 1) * NB
  <2> SUFFICES ASSUME NEW k \in 1..DivWait - wait
               PROVE  /\ k \in 1..Delay + 1
                      /\ older[k].whole
                      /\ older[k].age = b + 1 + (k - 1) * NB
    OBVIOUS
  <2> HIDE DEF older
  <2>1. k \in 1..Delay + 1
    BY <1>1 DEF DivWait
  <2>2. il[k].whole /\ il[k].age = b + (k - 1) * NB
    OBVIOUS
  <2>3. (k - 1) * NB \in 0..Delay * NB
    BY <2>1, Multiples
  <2> DEFINE m == (k - 1) * NB
  <2> HIDE DEF m
  <2>4. b + m \in 0..Oldest /\ b + m < Oldest
    BY <1>1, <2>3 DEF m
  <2>5. Older(b + m) = b + m + 1
    BY <2>4, OlderIs
  <2>6. older[k].age = b + m + 1
    BY <1>3, <2>1, <2>2, <2>5 DEF m
  <2>7. older[k].age = b + 1 + m
    BY <1>1, <2>3, <2>6 DEF m
  <2>8. older[k].whole
    BY <1>3, <2>1, <2>2
  <2> QED
    BY <2>1, <2>7, <2>8 DEF m
<1>12. p1' \in {"nothing", "whole"}
  <2>1. p1' = IF wait > 0 THEN "nothing" ELSE IF P1Whole(older, b) THEN "whole" ELSE "mixed"
    BY DEF Push
  <2>2. CASE wait > 0
    BY <2>1, <2>2
  <2>3. CASE wait = 0
    <3>1. 1 \in 1..DivWait - wait /\ Delay + 1 \in 1..DivWait - wait
      BY <1>1, <2>3 DEF DivWait
    <3>2. \A k \in {1, Delay + 1} : older[k].whole /\ older[k].age = b + 1 + (k - 1) * NB
      BY <1>11, <3>1, Zenon
    <3>3. P1Whole(older, b)
      BY <3>2, Zenon DEF P1Whole
    <3> QED
      BY <2>1, <2>3, <3>3
  <2> QED
    BY <2>2, <2>3
<1>13. CASE b # NB - 1
  <2>1. il' = older
    BY <1>13, Zenon DEF Push
  <2>2. bc' = b + 1 /\ amDiversityWait' = wait
    BY <1>2, <1>7, <1>13
  <2>3. il' \in [1..Delay + 1 -> Run]
    BY <1>3, <2>1, Zenon
  <2>4. \A k \in 1..DivWait - amDiversityWait' :
          il'[k].whole /\ il'[k].age = bc' + (k - 1) * NB
    BY <1>11, <2>1, <2>2, Zenon
  <2> QED
    BY <1>2, <1>5, <1>6, <1>8, <1>10, <1>12, <2>3, <2>4, Zenon
<1>14. CASE b = NB - 1
  <2> DEFINE new == [age |-> 0,
                     whole |-> \A a \in Block : age'[a] = NB - 1 - a,
                     good |-> {good'[a] : a \in Block}]
  <2>1. il' = Interleaved(older)
    BY <1>14, Zenon DEF Push
  <2>2. il' = [k \in 1..Delay + 1 |-> IF k = 1 THEN new ELSE older[k - 1]]
    BY <2>1, Zenon DEF Interleaved
  <2>3. ASSUME NEW a \in Block PROVE age'[a] = NB - 1 - a
    <3>1. a \in 0..NB - 1
      BY DEF Block
    <3>2. a <= b
      BY <1>1, <1>14, <3>1
    <3>3. age'[a] = b - a
      BY <1>9, <3>2, Zenon
    <3> QED
      BY <1>14, <3>3
  <2>4. new \in Run
    <3>1. 0 \in Block
      BY <1>1 DEF Block
    <3>2. {good'[a] : a \in Block} \in (SUBSET BOOLEAN) \ {{}}
      BY <1>6, <3>1
    <3>3. 0 \in 0..Oldest /\ (\A a \in Block : age'[a] = NB - 1 - a) \in BOOLEAN
      BY <1>1, <2>3
    <3> QED
      BY <3>2, <3>3, Zenon DEF Run
  <2>5. new.age = 0 /\ new.whole
    BY <2>3
  <2> HIDE DEF new, older
  <2>6. \A k \in 1..Delay + 1 : k # 1 => k - 1 \in 1..Delay + 1
    BY <1>1
  <2>7. il' \in [1..Delay + 1 -> Run]
    BY <1>3, <2>2, <2>4, <2>6
  <2>8. bc' = 0 /\ amDiversityWait' = IF wait > 0 THEN wait - 1 ELSE 0
    BY <1>2, <1>7, <1>14
  <2>9. ASSUME NEW k \in 1..DivWait - amDiversityWait'
        PROVE  il'[k].whole /\ il'[k].age = bc' + (k - 1) * NB
    <3>1. k \in 1..Delay + 1
      BY <1>1, <1>8, <2>8 DEF DivWait
    <3>2. CASE k = 1
      <4>1. il'[k] = new
        BY <2>2, <3>1, <3>2
      <4>2. (k - 1) * NB = 0
        BY <1>1, <3>2
      <4> QED
        BY <2>5, <2>8, <4>1, <4>2
    <3>3. CASE k # 1
      <4>1. il'[k] = older[k - 1]
        BY <2>2, <3>1, <3>3
      <4>2. k - 1 \in 1..DivWait - wait
        BY <1>1, <2>8, <3>1, <3>3 DEF DivWait
      <4>3. older[k - 1].whole /\ older[k - 1].age = b + 1 + (k - 1 - 1) * NB
        BY <1>11, <4>2, Zenon
      <4>4. (k - 1) * NB = NB + (k - 1 - 1) * NB
        BY <3>1, <3>3, Multiples
      <4>5. b + 1 = NB /\ bc' = 0
        BY <1>1, <1>14, <2>8
      <4>6. (k - 1) * NB \in Int
        BY <1>1, <3>1, Multiples
      <4>7. (k - 1) * NB = bc' + (k - 1) * NB
        BY <4>5, <4>6
      <4>8. older[k - 1].age = (k - 1) * NB
        BY <4>3, <4>4, <4>5, Zenon
      <4> QED
        BY <4>1, <4>3, <4>7, <4>8, Zenon
    <3> QED
      BY <3>2, <3>3
  <2> QED
    BY <1>2, <1>5, <1>6, <1>8, <1>10, <1>12, <2>7, <2>9, Zenon
<1> QED
  BY <1>13, <1>14

\* Out of sync, the number seen, if any, decides; a lock is on the station unless the
\* number was false or the window moved.
LEMMA CoarseIInv ==
  ASSUME IInv, NEW seen \in 0..NB, NEW clear \in BOOLEAN, Coarse(seen, clear),
         cfoWait' \in -1..Wait, trouble' \in 0..MaxTrouble, slipped' \in BOOLEAN,
         blk' \in Block, off' \in 0..BlkSz - 1, resid' \in BOOLEAN,
         seen \in Block /\ ~slipped' => off' = 0 /\ ~resid' /\ blk' = (seen + 1) % NB
  PROVE  IInv'
<1> DEFINE h == IF seen \in Block THEN Remembered(seen) ELSE << >>
<1>1. TypeOK
  BY DEF IInv
<1>2. h \in Seq(Block) /\ Len(h) <= 4
  <2>1. CASE seen \in Block
    <3>1. Remembered(seen) \in Seq(Block) /\ Len(Remembered(seen)) <= 4
      BY <1>1, <2>1, RememberedIs DEF TypeOK
    <3> QED
      BY <2>1, <3>1, Zenon
  <2>2. CASE seen \notin Block
    <3>1. << >> \in Seq(Block) /\ Len(<< >>) <= 4
      OBVIOUS
    <3> QED
      BY <2>2, <3>1, Zenon
  <2> QED
    BY <2>1, <2>2
<1>3. CASE LocksOn(h)
  <2>1. Push(0, DivWait, clear) /\ AfterBlock(FALSE) /\ offsetHistory' = << >>
    BY <1>3, Zenon DEF Coarse, WaitAfterReset
  <2>2. state' = "fine"
    BY <2>1 DEF AfterBlock
  <2>3. seen \in Block /\ seen = 0
    <3>1. h = <<NB - 3, NB - 2, NB - 1, 0>>
      BY <1>3, Zenon DEF LocksOn
    <3>2. seen \in Block
      <4>1. << >> # <<NB - 3, NB - 2, NB - 1, 0>>
        OBVIOUS
      <4> QED
        BY <3>1, <4>1, Zenon
    <3>3. Remembered(seen) = <<NB - 3, NB - 2, NB - 1, 0>>
      BY <3>1, <3>2, Zenon
    <3>4. Remembered(seen)[Len(Remembered(seen))] = seen
      BY <1>1, <3>2, RememberedIs DEF TypeOK
    <3>5. Len(<<NB - 3, NB - 2, NB - 1, 0>>) = 4 /\ <<NB - 3, NB - 2, NB - 1, 0>>[4] = 0
      OBVIOUS
    <3>6. seen = 0
      BY <3>3, <3>4, <3>5, Zenon
    <3> QED
      BY <3>2, <3>6
  <2>4. \A a \in Block : a < 0 => age[a] = 0 - 1 - a
    BY Sizes DEF Block
  <2>5. \A k \in 1..DivWait - DivWait : il[k].whole /\ il[k].age = 0 + (k - 1) * NB
    BY Sizes DEF DivWait
  <2>6. 0 \in Block /\ DivWait \in 0..Delay + 1
    BY Sizes DEF Block, DivWait
  <2>7. /\ bc' \in Block /\ bc' = (0 + 1) % NB
        /\ age' \in [Block -> 0..Oldest] /\ good' \in [Block -> BOOLEAN]
        /\ il' \in [1..Delay + 1 -> Run]
        /\ amDiversityWait' \in 0..Delay + 1
        /\ p1' \in {"nothing", "whole"}
        /\ \A a \in Block : a < bc' => age'[a] = bc' - 1 - a
        /\ \A k \in 1..DivWait - amDiversityWait' :
             il'[k].whole /\ il'[k].age = bc' + (k - 1) * NB
    BY <1>1, <2>1, <2>4, <2>5, <2>6, PushInOrder
  <2>8. TypeOK'
    <3>1. << >> \in Seq(Block) /\ Len(<< >>) <= 4
      OBVIOUS
    <3>2. p1' \in {"nothing", "whole", "mixed"}
      BY <2>7
    <3> QED
      BY <2>1, <2>2, <2>7, <3>1, <3>2, Zenon DEF TypeOK, Run
  <2>9. TracksStation'
    BY <2>3, <2>7 DEF TracksStation, Aligned
  <2>10. NoStaleDiversity'
    BY <2>7 DEF NoStaleDiversity
  <2>11. FrameInOrder' /\ MemoryInOrder'
    BY <2>7, Zenon DEF FrameInOrder, MemoryInOrder, DivWait
  <2> QED
    BY <2>8, <2>9, <2>10, <2>11 DEF IInv
<1>4. CASE ~LocksOn(h)
  <2>1. offsetHistory' = h /\ state' = "coarse" /\ NoBlock
    BY <1>4, Zenon DEF Coarse
  <2>2. /\ bc' \in Block /\ amDiversityWait' \in 0..Delay + 1
        /\ age' \in [Block -> 0..Oldest] /\ good' \in [Block -> BOOLEAN]
        /\ il' \in [1..Delay + 1 -> Run] /\ p1' = "nothing"
    BY <1>1, <2>1, NoBlockTypes
  <2>3. TypeOK'
    <3>1. offsetHistory' \in Seq(Block) /\ Len(offsetHistory') <= 4
      BY <1>2, <2>1, Zenon
    <3>2. p1' \in {"nothing", "whole", "mixed"} /\ state' \in {"none", "coarse", "fine"}
      BY <2>1, <2>2
    <3> QED
      BY <2>2, <3>1, <3>2, Zenon DEF TypeOK, Run
  <2>4. state' # "fine"
    BY <2>1
  <2>5. p1' # "mixed"
    BY <2>2
  <2> QED
    BY <2>3, <2>4, <2>5, Zenon DEF IInv, TracksStation, NoStaleDiversity, FrameInOrder, MemoryInOrder
<1> QED
  BY <1>3, <1>4

\* Where the block of a window begins is a symbol of it, and so is what is kept.
LEMMA PatternIs ==
  ASSUME off \in 0..BlkSz - 1
  PROVE  PatternAt \in 0..BlkSz - 1
<1>1. BlkSz \in Nat /\ BlkSz > 1
  BY Sizes
<1>2. CASE off = 0
  BY <1>1, <1>2 DEF PatternAt
<1>3. CASE off # 0
  BY <1>1, <1>3 DEF PatternAt
<1> QED
  BY <1>2, <1>3

\* A clear window in COARSE keeps the invariant, and may lock.
LEMMA CoarseWindowIInv == IInv /\ CoarseWindow => IInv'
<1> SUFFICES ASSUME IInv, CoarseWindow PROVE IInv'
  OBVIOUS
<1> DEFINE seen == IF Aligned THEN blk ELSE NB
<1>1. TypeOK /\ BlkSz \in Nat /\ BlkSz > 1 /\ NB \in Nat /\ NB > 3 /\ Wait \in Nat
  BY Sizes DEF IInv
<1>2. blk \in Block /\ off \in 0..BlkSz - 1 /\ blk \in 0..NB - 1 /\ cfoWait \in -1..Wait
  BY <1>1 DEF TypeOK, Block
<1>3. seen \in 0..NB /\ (seen \in Block => Aligned /\ seen = blk)
  BY <1>1, <1>2 DEF Block
<1>4. cfoWait' \in -1..Wait
  BY <1>1, <1>2 DEF CoarseWindow, CountDown
<1>5. PICK extra \in 0..BlkSz - 1 : Shift(extra) /\ (Aligned => extra = 0)
  <2>1. KeepExtra(PatternAt) \in 0..BlkSz - 1 /\ 0 \in 0..BlkSz - 1
    BY <1>1, <1>2, PatternIs, KeepExtraIs
  <2>2. CASE cfoWait = 0 /\ ~resid /\ off # 0
    BY <2>1, <2>2, Zenon DEF CoarseWindow, Aligned
  <2>3. CASE ~(cfoWait = 0 /\ ~resid /\ off # 0)
    <3>1. Shift(0)
      BY <2>3, Zenon DEF CoarseWindow
    <3> QED
      BY <2>1, <3>1
  <2> QED
    BY <2>2, <2>3
<1>6. /\ blk' \in Block /\ off' \in 0..BlkSz - 1
      /\ extra = 0 => off' = off /\ blk' = (blk + 1) % NB
  BY <1>2, <1>5, ShiftIs
<1>7. seen \in Block => off' = 0 /\ blk' = (seen + 1) % NB
  BY <1>3, <1>5, <1>6 DEF Aligned
<1>8. resid' = FALSE /\ resid' \in BOOLEAN /\ slipped' \in BOOLEAN /\ trouble' \in 0..MaxTrouble
  <2>1. slipped' \in BOOLEAN
    BY DEF CoarseWindow
  <2> QED
    BY <1>1, <2>1 DEF CoarseWindow, TypeOK
<1>9. Coarse(seen, TRUE)
  BY Zenon DEF CoarseWindow
<1> HIDE DEF seen
<1> QED
  BY <1>3, <1>4, <1>6, <1>7, <1>8, <1>9, CoarseIInv

\* A noisy one does, whatever number it looks like.
LEMMA CoarseNoiseIInv == IInv /\ CoarseNoise => IInv'
<1> SUFFICES ASSUME IInv, CoarseNoise PROVE IInv'
  OBVIOUS
<1>1. TypeOK /\ BlkSz \in Nat /\ BlkSz > 1 /\ NB \in Nat /\ NB > 3 /\ Wait \in Nat
      /\ MaxTrouble \in Nat
  BY Sizes DEF IInv
<1>2. blk \in Block /\ off \in 0..BlkSz - 1 /\ cfoWait \in -1..Wait /\ trouble \in 0..MaxTrouble
  BY <1>1 DEF TypeOK
<1>3. PICK seen \in 0..NB : Coarse(seen, FALSE) /\ slipped' = (seen # NB)
  BY Zenon DEF CoarseNoise
<1>4. seen \in Block => slipped'
  <2>1. NB \notin Block
    BY <1>1 DEF Block
  <2> QED
    BY <1>3, <2>1, Zenon
<1>5. cfoWait' \in -1..Wait
  BY <1>1, <1>2 DEF CoarseNoise, CountDown
<1>6. PICK extra \in 0..BlkSz - 1 : Shift(extra)
  <2>1. \A found \in 1..BlkSz - 1 : KeepExtra(found) \in 0..BlkSz - 1
    BY <1>1, KeepExtraIs
  <2>2. 0 \in 0..BlkSz - 1
    BY <1>1
  <2> QED
    BY <2>1, <2>2, Zenon DEF CoarseNoise
<1>7. blk' \in Block /\ off' \in 0..BlkSz - 1
  BY <1>2, <1>6, ShiftIs
<1>8. trouble' \in 0..MaxTrouble
  BY <1>1, <1>2 DEF CoarseNoise
<1>9. resid' \in BOOLEAN /\ slipped' \in BOOLEAN
  <2>1. slipped' \in BOOLEAN
    BY <1>3
  <2> QED
    BY <2>1 DEF CoarseNoise
<1> QED
  BY <1>3, <1>4, <1>5, <1>7, <1>8, <1>9, CoarseIInv

\* In sync every window is a block, and leads out of sync or to the next one.
LEMMA FineBlockIInv ==
  ASSUME NEW clear \in BOOLEAN, IInv, FineBlock(clear)
  PROVE  IInv'
<1>1. TypeOK /\ BlkSz \in Nat /\ BlkSz > 1 /\ Wait \in Nat /\ MaxTrouble \in Nat
  BY Sizes DEF IInv
<1>2. state = "fine" /\ Push(bc, amDiversityWait, clear) /\ AfterBlock(amDiversityWait = 0)
      /\ Shift(0)
  BY Zenon DEF FineBlock
<1>3. bc \in Block /\ amDiversityWait \in 0..Delay + 1
  BY <1>1 DEF TypeOK
<1>4. /\ \A a \in Block : a < bc => age[a] = bc - 1 - a
      /\ \A k \in 1..DivWait - amDiversityWait : il[k].whole /\ il[k].age = bc + (k - 1) * NB
  BY <1>2, Zenon DEF IInv, FrameInOrder, MemoryInOrder
<1>5. /\ bc' \in Block /\ bc' = (bc + 1) % NB
      /\ age' \in [Block -> 0..Oldest] /\ good' \in [Block -> BOOLEAN]
      /\ il' \in [1..Delay + 1 -> Run]
      /\ amDiversityWait' \in 0..Delay + 1
      /\ p1' \in {"nothing", "whole"}
      /\ \A a \in Block : a < bc' => age'[a] = bc' - 1 - a
      /\ \A k \in 1..DivWait - amDiversityWait' :
           il'[k].whole /\ il'[k].age = bc' + (k - 1) * NB
  BY <1>1, <1>2, <1>3, <1>4, PushInOrder
<1>6. /\ blk' \in Block /\ off' \in 0..BlkSz - 1
      /\ off' = off /\ blk' = (blk + 1) % NB
  <2>1. 0 \in 0..BlkSz - 1 /\ blk \in Block /\ off \in 0..BlkSz - 1
    BY <1>1 DEF TypeOK
  <2> QED
    BY <1>2, <2>1, ShiftIs
<1>7. state' \in {"none", "coarse", "fine"}
  BY <1>2 DEF AfterBlock
<1>8. cfoWait' \in -1..Wait /\ trouble' \in 0..MaxTrouble
  BY <1>1 DEF FineBlock, CountDown, TypeOK
<1>9. /\ offsetHistory' = offsetHistory /\ resid' = resid /\ slipped' = slipped
  BY DEF FineBlock
<1>10. TypeOK'
  <2>1. p1' \in {"nothing", "whole", "mixed"}
    BY <1>5
  <2>2. /\ offsetHistory' \in Seq(Block) /\ Len(offsetHistory') <= 4
        /\ resid' \in BOOLEAN /\ slipped' \in BOOLEAN
    BY <1>1, <1>9, Zenon DEF TypeOK
  <2> QED
    BY <1>5, <1>6, <1>7, <1>8, <2>1, <2>2, Zenon DEF TypeOK, Run
<1>11. TracksStation'
  BY <1>2, <1>5, <1>6, <1>9 DEF IInv, TracksStation, Aligned
<1>12. NoStaleDiversity'
  BY <1>5 DEF NoStaleDiversity
<1>13. FrameInOrder' /\ MemoryInOrder'
  BY <1>5, Zenon DEF FrameInOrder, MemoryInOrder, DivWait
<1> QED
  BY <1>10, <1>11, <1>12, <1>13 DEF IInv

\* A slip of samples keeps it.
LEMMA SlipIInv == IInv /\ Slip => IInv'
<1> SUFFICES ASSUME IInv, Slip PROVE IInv'
  OBVIOUS
<1>1. TypeOK /\ MaxTrouble \in Nat
  BY Sizes DEF IInv
<1>2. trouble' \in 0..MaxTrouble
  BY <1>1 DEF Slip, TypeOK
<1>3. UNCHANGED <<resid, state, bc, cfoWait, offsetHistory, amDiversityWait, age, good, il, p1>>
  BY DEF Slip
<1>4. TypeOK'
  BY <1>1, <1>2, <1>3 DEF TypeOK, Slip, Anywhere
<1>5. TracksStation'
  BY DEF Slip, TracksStation
<1>6. NoStaleDiversity' /\ FrameInOrder' /\ MemoryInOrder'
  BY <1>3 DEF IInv, NoStaleDiversity, FrameInOrder, MemoryInOrder
<1> QED
  BY <1>4, <1>5, <1>6 DEF IInv

\* reset keeps it.
LEMMA ResetIInv == IInv /\ Reset => IInv'
<1> SUFFICES ASSUME IInv, Reset PROVE IInv'
  OBVIOUS
<1>1. TypeOK /\ MaxTrouble \in Nat
  BY Sizes DEF IInv
<1>2. trouble' \in 0..MaxTrouble
  BY <1>1 DEF Reset, TypeOK
<1>3. /\ state' = "none" /\ p1' = "nothing"
      /\ UNCHANGED <<bc, age, good, il>>
  BY DEF Reset
<1>4. cfoWait' \in -1..Wait /\ amDiversityWait' \in 0..Delay + 1
  BY Sizes DEF Reset, WaitAfterReset, DivWait
<1>5. offsetHistory' \in Seq(Block) /\ Len(offsetHistory') <= 4
  BY DEF Reset
<1>6. blk' \in Block /\ off' \in 0..BlkSz - 1 /\ resid' \in BOOLEAN /\ slipped' \in BOOLEAN
  BY DEF Reset, Anywhere
<1>7. TypeOK'
  BY <1>1, <1>2, <1>3, <1>4, <1>5, <1>6 DEF TypeOK
<1> QED
  BY <1>3, <1>7 DEF IInv, TracksStation, NoStaleDiversity, FrameInOrder, MemoryInOrder

\* A stutter keeps it.
LEMMA StutterIInv == IInv /\ UNCHANGED vars => IInv'
<1> SUFFICES ASSUME IInv, UNCHANGED vars PROVE IInv'
  OBVIOUS
<1>1. TypeOK'
  BY DEF IInv, TypeOK, vars
<1>2. TracksStation' /\ NoStaleDiversity'
  BY DEF IInv, TracksStation, NoStaleDiversity, Aligned, vars
<1>3. FrameInOrder' /\ MemoryInOrder'
  BY DEF IInv, FrameInOrder, MemoryInOrder, vars
<1> QED
  BY <1>1, <1>2, <1>3 DEF IInv

\* Every step keeps the invariant.
LEMMA NextIInv == IInv /\ [Next]_vars => IInv'
<1> SUFFICES ASSUME IInv, [Next]_vars PROVE IInv'
  OBVIOUS
<1>1. CASE CoarseWindow
  BY <1>1, CoarseWindowIInv
<1>2. CASE \E clear \in BOOLEAN : FineBlock(clear)
  BY <1>2, FineBlockIInv, Zenon
<1>3. CASE CoarseNoise
  BY <1>3, CoarseNoiseIInv
<1>4. CASE Slip
  BY <1>4, SlipIInv
<1>5. CASE Reset
  BY <1>5, ResetIInv
<1>6. CASE UNCHANGED vars
  BY <1>6, StutterIInv
<1> QED
  BY <1>1, <1>2, <1>3, <1>4, <1>5, <1>6, Zenon DEF Next, Window

-----------------------------------------------------------------------------

\* The invariant holds of the whole specification: a frame in order, a memory in
\* order, and a lock that is the station's.
THEOREM AlwaysIInv == Spec => []IInv
<1> HIDE DEF IInv
<1> QED
  BY InitIInv, NextIInv, PTL DEF Spec

\* The state stays of its types: the wait counter never below minus one, no more than
\* four numbers in offsetHistory, no more than Delay + 1 frames waited for.
THEOREM TypeCorrect == Spec => []TypeOK
<1>1. IInv => TypeOK
  BY DEF IInv
<1> HIDE DEF IInv, TypeOK
<1> QED
  BY <1>1, AlwaysIInv, PTL

\* A receiver in sync counts with the station, unless samples were lost or false
\* numbers seen.
THEOREM StationTracked == Spec => []TracksStation
<1>1. IInv => TracksStation
  BY DEF IInv
<1> HIDE DEF IInv, TracksStation
<1> QED
  BY <1>1, AlwaysIInv, PTL

\* No P1 frame has a half of another session or another frame in it, however the
\* station is lost, found again or left.
THEOREM DiversityFresh == Spec => []NoStaleDiversity
<1>1. IInv => NoStaleDiversity
  BY DEF IInv
<1> HIDE DEF IInv, NoStaleDiversity
<1> QED
  BY <1>1, AlwaysIInv, PTL
=============================================================================
