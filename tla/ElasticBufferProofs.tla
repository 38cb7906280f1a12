-------------------------- MODULE ElasticBufferProofs --------------------------
(***************************************************************************)
(* Safety of ElasticBuffer for any size of the buffer, any packets per PDU *)
(* and window, any latency and any number of troubles.                     *)
(***************************************************************************)
EXTENDS ElasticBuffer, FiniteSetTheorems, TLAPS

-----------------------------------------------------------------------------
(* Facts about numbers. *)

\* Division with remainder.
LEMMA Division ==
  ASSUME NEW n \in Nat \ {0}, NEW x \in Int
  PROVE  x % n \in 0..n - 1 /\ x \div n \in Int /\ x = n * (x \div n) + (x % n)
<1>1. x % n \in 0..n - 1
  OBVIOUS
<1>2. x \div n \in Int
  OBVIOUS
<1>3. x = n * (x \div n) + (x % n)
  OBVIOUS
<1> QED
  BY <1>1, <1>2, <1>3

\* The remainder is the only one below n.
LEMMA Remainder ==
  ASSUME NEW n \in Nat \ {0}, NEW x \in Int, NEW y \in 0..n - 1, NEW k \in Int, x = y + k * n
  PROVE  x % n = y
  OBVIOUS

-----------------------------------------------------------------------------
\* The station keeps to what it announced.
InStep == now \in Agreed(wait, pduSeq, avg)

\* Where nothing is played, nothing is kept.
EmptyBefore == offset = -1 => \A i \in Slot : slots[i] = Empty

\* A receiver that fell behind may have anything left, all around the buffer.
AstrayDoubts == astray => doubt = Len

\* One that did not reads where the station wants it to.
ReadsNow == offset # -1 /\ ~astray => offset = now

\* Packets from now to slot i.
Ahead(i) == (i - now) % Len

\* Beyond what is in doubt there are packets in their slots, or none.
DueBeyondDoubt ==
  \A i \in Slot : doubt <= Ahead(i) /\ slots[i] # Empty => slots[i].of = "due"

\* A packet that is due was sent.
DueWasSent ==
  \A i \in Slot : slots[i].shape = "full" /\ slots[i].of = "due" => Ahead(i) < wait * Per + lead

\* Of what was sent, all that comes after the last loss is in its slot, the half that
\* waits for the next PDU too.
SentIsThere ==
  \A d \in 0..Unsent - 1 : gap <= d =>
    slots[(now + d) % Len] =
      [shape |-> IF split /\ d = Unsent - 1 THEN "front" ELSE "full", ok |-> TRUE, of |-> "due"]

\* A receiver that cannot know where to read has lost all that was sent.
LostMeansGap == offset = -1 \/ astray => gap >= Unsent

IInv ==
  /\ TypeOK /\ InStep
  /\ EmptyBefore /\ AstrayDoubts /\ ReadsNow
  /\ DueBeyondDoubt /\ DueWasSent
  /\ SentIsThere /\ LostMeansGap

-----------------------------------------------------------------------------
(* Numbers around a buffer. *)

\* Multiples, one by one.
LEMMA OneMore ==
  ASSUME NEW m \in Nat, NEW n \in Nat
  PROVE  (m + 1) * n = m * n + n /\ m * n \in Nat
  OBVIOUS

\* What the assumptions say of the sizes.
LEMMA Consts ==
  /\ Half \in Nat /\ Half > 0 /\ Per \in Nat /\ Per > 0 /\ Per <= Half
  /\ Len \in Nat \ {0} /\ Len = 2 * Half /\ Latency \in 0..Len
  /\ Seqs \in Nat /\ Seqs > 0 /\ MaxTrouble \in Nat
  BY HalfAssumption, PerAssumption, LatencyAssumption, SeqsAssumption DEF Len

\* A PDU's packets are played in whole windows, and all of a turn's in whole halves of
\* the buffer.
LEMMA AvgIs ==
  ASSUME NEW n \in Avgs
  PROVE  /\ n \in Nat /\ Per <= n /\ n <= Half
         /\ n \div Per \in Nat /\ (n \div Per) * Per = n
         /\ \E m \in Int : Seqs * n = m * Half
<1>1. n \in Per..Half /\ n % Per = 0 /\ (Seqs * n) % Half = 0
  BY AvgsAssumption
<1>2. n \in Nat /\ Per <= n /\ n <= Half
  BY <1>1, Consts
<1>3. n = Per * (n \div Per) + (n % Per) /\ n \div Per \in Int
  BY <1>2, Consts, Division
<1> DEFINE w == n \div Per
<1> HIDE DEF w
<1>4. n = Per * w /\ w \in Int
  BY <1>1, <1>2, <1>3, Consts DEF w
<1>5. w * Per = n
  BY <1>4, Consts
<1>6. w >= 0
  BY <1>2, <1>4, Consts
<1> DEFINE t == Seqs * n
<1>7. t \in Int
  BY <1>2, Consts
<1> HIDE DEF t
<1>8. t = Half * (t \div Half) + (t % Half) /\ t \div Half \in Int
  BY <1>7, Consts, Division
<1>9. t = (t \div Half) * Half
  BY <1>1, <1>8, Consts DEF t
<1> QED
  BY <1>2, <1>4, <1>5, <1>6, <1>8, <1>9 DEF w, t

\* What % makes of a number less than a turn from the buffer.
LEMMA Around ==
  ASSUME NEW x \in -Len..2 * Len - 1
  PROVE  x % Len = IF x < 0 THEN x + Len ELSE IF x < Len THEN x ELSE x - Len
<1>1. Len \in Nat \ {0} /\ x \in Int
  BY Consts
<1> HIDE DEF Len
<1>2. CASE x < 0
  BY <1>1, <1>2, Remainder, x + Len \in 0..Len - 1, x = (x + Len) + (-1) * Len
<1>3. CASE x >= 0 /\ x < Len
  BY <1>1, <1>3
<1>4. CASE x >= Len
  BY <1>1, <1>4, Remainder, x - Len \in 0..Len - 1, x = (x - Len) + 1 * Len
<1> QED
  BY <1>1, <1>2, <1>3, <1>4

\* Slots and distances are the same thing.
LEMMA AheadIs ==
  ASSUME now \in Slot, NEW i \in Slot
  PROVE  /\ Ahead(i) \in 0..Len - 1
         /\ Ahead(i) = IF i >= now THEN i - now ELSE i - now + Len
         /\ (now + Ahead(i)) % Len = i
<1>1. Len \in Nat \ {0} /\ now \in 0..Len - 1 /\ i \in 0..Len - 1
  BY Consts DEF Slot
<1>2. i - now \in -Len..2 * Len - 1
  BY <1>1
<1>3. Ahead(i) = IF i >= now THEN i - now ELSE i - now + Len
  BY <1>1, <1>2, Around DEF Ahead
<1>4. now + Ahead(i) \in -Len..2 * Len - 1
  BY <1>1, <1>3
<1> QED
  BY <1>1, <1>3, <1>4, Around

\* The slot at a distance from the one that is due, and its distance.
LEMMA PlaceIs ==
  ASSUME now \in Slot, NEW d \in 0..Len - 1
  PROVE  /\ (now + d) % Len \in Slot
         /\ (now + d) % Len = IF now + d < Len THEN now + d ELSE now + d - Len
         /\ Ahead((now + d) % Len) = d
<1>1. Len \in Nat \ {0} /\ now \in 0..Len - 1
  BY Consts DEF Slot
<1>2. now + d \in -Len..2 * Len - 1
  BY <1>1
<1>3. (now + d) % Len = IF now + d < Len THEN now + d ELSE now + d - Len
  BY <1>1, <1>2, Around
<1>4. (now + d) % Len \in Slot
  BY <1>1, <1>3 DEF Slot
<1> DEFINE s == (now + d) % Len
<1>5. Ahead(s) = IF s >= now THEN s - now ELSE s - now + Len
  BY <1>4, AheadIs
<1>6. Ahead(s) = d
  BY <1>1, <1>3, <1>5
<1> QED
  BY <1>3, <1>4, <1>6
-----------------------------------------------------------------------------
(* What the station and the receiver agree on. *)

\* What pduSeq and latency agree on, without the set that enumerates it.
LEMMA AgreedIs ==
  ASSUME NEW w \in Nat, NEW k \in Nat, NEW n \in Nat, NEW x \in Int
  PROVE  x \in Agreed(w, k, n)
           <=> x \in Slot /\ \E q \in Int : x = k * n - Latency - w * Per + q * Half
<1>1. /\ Half \in Nat /\ Half > 0 /\ Per \in Nat /\ Len \in Nat \ {0} /\ Len = 2 * Half
      /\ Latency \in Int
  BY Consts
<1> DEFINE kn == k * n
           wp == w * Per
<1>2. kn \in Int /\ wp \in Int
  BY <1>1
<1> HIDE DEF kn, wp
<1> DEFINE y == Len + kn - Latency
           b == y \div Len
<1>3. b \in Int /\ Header(k, n) = Len + kn - Latency - Len * b
  <2>1. y \in Int
    BY <1>1, <1>2
  <2>2. Header(k, n) = y % Len
    BY DEF Header, kn
  <2> HIDE DEF y
  <2>3. y = Len * (y \div Len) + (y % Len) /\ y \div Len \in Int /\ y % Len \in 0..Len - 1
    BY <1>1, <2>1, Division
  <2>4. b \in Int
    BY <2>3
  <2> HIDE DEF b
  <2>5. Header(k, n) = y - Len * b
    BY <1>1, <2>1, <2>2, <2>3 DEF b
  <2> QED
    BY <1>1, <1>2, <2>4, <2>5 DEF y
<1> HIDE DEF y, b
<1>4. Header(k, n) \in Int
  BY <1>1, <1>2, <1>3
<1>5. ASSUME x \in Agreed(w, k, n)
      PROVE  x \in Slot /\ \E q \in Int : x = kn - Latency - wp + q * Half
  <2>1. PICK turn \in {0, Half} : x = (Header(k, n) + turn - wp) % Len
    BY <1>5 DEF Agreed, wp
  <2> DEFINE z == Header(k, n) + turn - wp
             a == z \div Len
  <2>2. z \in Int /\ x = z % Len
    BY <1>1, <1>2, <1>4, <2>1
  <2> HIDE DEF z
  <2>3. z = Len * a + (z % Len) /\ a \in Int /\ z % Len \in 0..Len - 1
    BY <1>1, <2>2, Division
  <2> HIDE DEF a
  <2>4. x = Header(k, n) + turn - wp - Len * a /\ x \in Slot
    BY <1>1, <1>2, <1>4, <2>1, <2>2, <2>3 DEF z, Slot
  <2>5. CASE turn = 0
    <3>1. x = kn - Latency - wp + (2 - 2 * a - 2 * b) * Half
      BY <1>1, <1>2, <1>3, <2>3, <2>4, <2>5
    <3>2. 2 - 2 * a - 2 * b \in Int
      BY <1>3, <2>3
    <3> QED
      BY <2>3, <2>4, <3>1, <3>2, Zenon
  <2>6. CASE turn = Half
    <3>1. x = kn - Latency - wp + (3 - 2 * a - 2 * b) * Half
      BY <1>1, <1>2, <1>3, <2>3, <2>4, <2>6
    <3>2. 3 - 2 * a - 2 * b \in Int
      BY <1>3, <2>3
    <3> QED
      BY <2>3, <2>4, <3>1, <3>2, Zenon
  <2> QED
    BY <2>5, <2>6
<1>6. ASSUME x \in Slot, NEW q \in Int, x = kn - Latency - wp + q * Half
      PROVE  x \in Agreed(w, k, n)
  <2>1. PICK p \in Int, e \in {0, 1} : q = 2 * p + e
    <3>1. q = 2 * (q \div 2) + (q % 2) /\ q \div 2 \in Int /\ q % 2 \in 0..1
      BY Division
    <3> QED
      BY <3>1
  <2>2. e * Half \in {0, Half} /\ e * Half \in Int
    BY <1>1
  <2> DEFINE z == Header(k, n) + e * Half - wp
             m == 1 - b - p
  <2>3. z = x + m * Len
    BY <1>1, <1>2, <1>3, <1>6, <2>1
  <2>4. z % Len = x
    <3>1. x \in 0..Len - 1 /\ m \in Int /\ z \in Int
      BY <1>1, <1>2, <1>3, <1>4, <1>6, <2>2 DEF Slot
    <3> HIDE DEF z, m
    <3> QED
      BY <1>1, <2>3, <3>1, Remainder
  <2> QED
    BY <2>2, <2>4 DEF Agreed, wp
<1> QED
  BY <1>5, <1>6 DEF kn, wp
\* Sending a PDU keeps the station in step with its own numbers.
LEMMA SendInStep ==
  ASSUME TypeOK, InStep, NEW nextLead, NEW nextSplit, SendPdu(nextLead, nextSplit)
  PROVE  InStep'
<1>1. /\ now \in Slot /\ avg \in Avgs /\ pduSeq \in Nat /\ pduSeq <= Seqs - 1 /\ wait = 0
      /\ wait' = avg \div Per /\ pduSeq' = (pduSeq + 1) % Seqs /\ now' = now /\ avg' = avg
  BY Consts DEF TypeOK, SendPdu
<1>2. /\ Half \in Nat /\ Per \in Nat /\ Latency \in Int /\ Seqs \in Nat /\ Seqs > 0
      /\ now \in Int /\ Len \in Nat \ {0}
  BY <1>1, Consts DEF Slot
<1>3. avg \in Nat /\ avg \div Per \in Nat /\ (avg \div Per) * Per = avg
  BY <1>1, AvgIs
<1>4. PICK m \in Int : Seqs * avg = m * Half
  BY <1>1, AvgIs
<1>5. PICK q \in Int : now = pduSeq * avg - Latency - 0 * Per + q * Half
  BY <1>1, <1>2, <1>3, AgreedIs DEF InStep
<1> DEFINE k == (pduSeq + 1) % Seqs
<1>6. k \in Nat /\ \E p \in Int : now = k * avg - Latency - avg + p * Half
  <2>1. CASE pduSeq + 1 < Seqs
    <3>1. k = pduSeq + 1
      BY <1>1, <1>2, <2>1
    <3>2. (pduSeq + 1) * avg = pduSeq * avg + avg
      BY <1>1, <1>3
    <3>3. now = k * avg - Latency - avg + q * Half
      BY <1>1, <1>2, <1>3, <1>5, <3>1, <3>2
    <3> QED
      BY <1>1, <3>1, <3>3
  <2>2. CASE pduSeq + 1 = Seqs
    <3>1. k = 0
      BY <1>1, <1>2, <2>2
    <3>2. (pduSeq + 1) * avg = pduSeq * avg + avg
      BY <1>1, <1>3
    <3>3. now = m * Half - avg - Latency + q * Half
      BY <1>1, <1>2, <1>3, <1>4, <1>5, <2>2, <3>2
    <3>4. now = 0 * avg - Latency - avg + (q + m) * Half
      BY <1>2, <1>3, <3>3
    <3>5. q + m \in Int
      OBVIOUS
    <3> QED
      BY <3>1, <3>4, <3>5
  <2> QED
    BY <1>1, <1>2, <2>1, <2>2
<1> DEFINE w == avg \div Per
<1>7. now \in Agreed(w, k, avg)
  <2> HIDE DEF k
  <2>1. PICK p \in Int : now = k * avg - Latency - avg + p * Half
    BY <1>6
  <2>2. w \in Nat /\ w * Per = avg
    BY <1>3
  <2> HIDE DEF w
  <2>3. now = k * avg - Latency - w * Per + p * Half
    BY <2>1, <2>2
  <2> QED
    BY <1>1, <1>2, <1>3, <1>6, <2>2, <2>3, AgreedIs
<1> QED
  BY <1>1, <1>7 DEF InStep

\* So does a window of time, which moves what is due by what is played.
LEMMA TickInStep ==
  ASSUME TypeOK, InStep, Tick
  PROVE  /\ InStep' /\ now' \in Slot /\ wait' \in 0..avg \div Per
         /\ now' = IF now + Per < Len THEN now + Per ELSE now + Per - Len
         /\ wait * Per = wait' * Per + Per /\ wait' * Per \in Nat /\ wait' \in Nat
<1>1. /\ now \in Slot /\ avg \in Avgs /\ pduSeq \in Nat /\ wait \in 0..avg \div Per
      /\ wait > 0 /\ wait' = wait - 1 /\ now' = (now + Per) % Len
      /\ pduSeq' = pduSeq /\ avg' = avg
  BY Consts DEF TypeOK, Tick
<1>2. /\ Half \in Nat /\ Half > 0 /\ Per \in Nat /\ Per > 0 /\ Per <= Half /\ Latency \in Int
      /\ now \in 0..Len - 1 /\ Len \in Nat \ {0} /\ Len = 2 * Half
  BY <1>1, Consts DEF Slot
<1>3. avg \in Nat /\ avg \div Per \in Nat
  BY <1>1, AvgIs
<1>4. now' = IF now + Per < Len THEN now + Per ELSE now + Per - Len
  <2>1. Per \in 0..Len - 1
    BY <1>2
  <2> QED
    BY <1>1, <2>1, PlaceIs
<1>5. now' \in Slot /\ now' \in Int
  BY <1>2, <1>4 DEF Slot
<1>6. wait \in Nat /\ wait' \in Nat /\ wait' \in 0..avg \div Per
  BY <1>1, <1>3
<1>7. wait * Per = wait' * Per + Per /\ wait' * Per \in Nat
  <2>1. wait = wait' + 1
    BY <1>1, <1>6
  <2>2. (wait' + 1) * Per = wait' * Per + Per /\ wait' * Per \in Nat
    BY <1>2, <1>6, OneMore
  <2> QED
    BY <2>1, <2>2
<1>8. PICK q \in Int : now = pduSeq * avg - Latency - wait * Per + q * Half
  <2>1. now \in Int
    BY <1>2
  <2>2. now \in Agreed(wait, pduSeq, avg)
    BY DEF InStep
  <2>3. wait \in Nat /\ pduSeq \in Nat /\ avg \in Nat
    BY <1>1, <1>3, <1>6
  <2> QED
    BY <2>1, <2>2, <2>3, AgreedIs
<1> DEFINE ka == pduSeq * avg
           wp == wait' * Per
<1>9. ka \in Int /\ wp \in Int
  BY <1>1, <1>2, <1>3, <1>6
<1>10. \E p \in Int : now' = ka - Latency - wp + p * Half
  <2> HIDE DEF ka, wp
  <2>1. now = ka - Latency - (wp + Per) + q * Half
    BY <1>7, <1>8 DEF ka, wp
  <2>2. CASE now + Per < Len
    <3>1. now' = ka - Latency - wp + q * Half
      BY <1>2, <1>4, <1>9, <2>1, <2>2
    <3> QED
      BY <3>1
  <2>3. CASE ~(now + Per < Len)
    <3>1. now' = ka - Latency - wp + (q - 2) * Half
      BY <1>2, <1>4, <1>9, <2>1, <2>3
    <3>2. q - 2 \in Int
      OBVIOUS
    <3> QED
      BY <3>1, <3>2
  <2> QED
    BY <2>2, <2>3
<1>11. now' \in Agreed(wait', pduSeq, avg)
  BY <1>1, <1>3, <1>5, <1>6, <1>10, AgreedIs
<1>12. InStep'
  BY <1>1, <1>11 DEF InStep
<1> QED
  BY <1>4, <1>5, <1>6, <1>7, <1>12
-----------------------------------------------------------------------------
(* What a PDU does to the buffer. *)

\* The slot of the first packet of a PDU.
LEMMA FirstSlotIs ==
  ASSUME TypeOK
  PROVE  /\ FirstSlot = IF now + lead < Len THEN now + lead ELSE now + lead - Len
         /\ FirstSlot \in 0..Len - 1
<1>1. /\ Half \in Nat /\ Half > 0 /\ Len \in Nat /\ Len = 2 * Half
      /\ now \in 0..Len - 1 /\ lead \in 0..Half - 1
  BY Consts DEF TypeOK, Slot
<1>2. Bit(split) \in 0..1
  BY DEF Bit
<1> DEFINE h == (now + lead + Bit(split)) % Len
<1> HIDE DEF Len
<1>3. h = IF now + lead + Bit(split) < Len THEN now + lead + Bit(split)
          ELSE now + lead + Bit(split) - Len
  <2>1. now + lead + Bit(split) \in -Len..2 * Len - 1
    BY <1>1, <1>2
  <2> QED
    BY <1>1, <1>2, <2>1, Around
<1>4. FirstSlot = (Len + h - Bit(split)) % Len
  BY DEF FirstSlot
<1> HIDE DEF h
<1>5. Len + h - Bit(split) \in -Len..2 * Len - 1
  BY <1>1, <1>2, <1>3
<1>6. FirstSlot = IF Len + h - Bit(split) < Len THEN Len + h - Bit(split) ELSE h - Bit(split)
  BY <1>1, <1>2, <1>3, <1>4, <1>5, Around
<1> QED
  BY <1>1, <1>2, <1>3, <1>6

\* The position in the header, or the one half a buffer on, is the station's.
LEMMA ReadsWell ==
  ASSUME TypeOK, InStep, wait = 0
  PROVE  OutputOffset = now
<1>1. /\ Half \in Nat /\ Half > 0 /\ Len \in Nat \ {0} /\ Len = 2 * Half
      /\ now \in 0..Len - 1 /\ lead \in 0..Half - 1 /\ avg \in Avgs /\ pduSeq \in Nat
      /\ Latency \in Int
  BY Consts DEF TypeOK, Slot
<1>2. avg \in Nat
  BY <1>1, AvgIs
<1> DEFINE o == Header(pduSeq, avg)
           y == Len + pduSeq * avg - Latency
           f == (Len + FirstSlot - o) % Len
           p == (o + Half) % Len
<1>3. o \in 0..Len - 1
  <2>1. y \in Int /\ o = y % Len
    BY <1>1, <1>2 DEF Header
  <2> HIDE DEF y, o
  <2> QED
    BY <1>1, <2>1, Division
<1>4. PICK turn \in {0, Half} : now = (o + turn - 0 * Per) % Len
  <2>1. now \in Agreed(0, pduSeq, avg)
    BY DEF InStep
  <2> QED
    BY <2>1 DEF Agreed
<1>5. OutputOffset = IF f >= Half THEN p ELSE o
  BY DEF OutputOffset
<1> HIDE DEF o, Len
<1>6. now = (o + turn) % Len /\ o + turn \in -Len..2 * Len - 1
  BY <1>1, <1>3, <1>4, Consts
<1>7. now = IF o + turn < Len THEN o + turn ELSE o + turn - Len
  <2> DEFINE x == o + turn
  <2>1. x % Len = IF x < 0 THEN x + Len ELSE IF x < Len THEN x ELSE x - Len
    BY <1>6, Around, Zenon
  <2> QED
    BY <1>1, <1>3, <1>6, <2>1
<1>8. p = IF o + Half < Len THEN o + Half ELSE o + Half - Len
  <2> DEFINE x == o + Half
  <2>1. x \in -Len..2 * Len - 1
    BY <1>1, <1>3
  <2>2. x % Len = IF x < 0 THEN x + Len ELSE IF x < Len THEN x ELSE x - Len
    BY <2>1, Around, Zenon
  <2> QED
    BY <1>1, <1>3, <2>2
<1>9. f = IF Len + FirstSlot - o < Len THEN Len + FirstSlot - o ELSE FirstSlot - o
  <2>1. FirstSlot \in 0..Len - 1
    BY FirstSlotIs
  <2> DEFINE x == Len + FirstSlot - o
  <2>2. x \in -Len..2 * Len - 1 /\ x >= 0
    BY <1>1, <1>3, <2>1
  <2>3. x % Len = IF x < 0 THEN x + Len ELSE IF x < Len THEN x ELSE x - Len
    BY <2>2, Around, Zenon
  <2> QED
    BY <1>1, <1>3, <2>1, <2>2, <2>3
<1>10. FirstSlot = IF now + lead < Len THEN now + lead ELSE now + lead - Len
  BY FirstSlotIs
<1> HIDE DEF f, p
<1>11. CASE turn = 0
  BY <1>1, <1>3, <1>5, <1>7, <1>8, <1>9, <1>10, <1>11
<1>12. CASE turn = Half
  BY <1>1, <1>3, <1>5, <1>7, <1>8, <1>9, <1>10, <1>12
<1> QED
  BY <1>11, <1>12

\* Slot by slot, where the slot is Ahead(i) packets from now.
Shape(d, last, nextSplit) ==
  IF d = lead /\ split THEN "back" ELSE IF d = last /\ nextSplit THEN "front" ELSE "full"

\* A PDU changes the slots it reaches, and no others.
LEMMA FilledIs ==
  ASSUME TypeOK, NEW last \in 0..Len - 1, NEW nextSplit, NEW bad, NEW i \in Slot
  PROVE  Filled(last, nextSplit, bad)[i] =
           IF Ahead(i) < lead \/ Ahead(i) > last THEN slots[i]
           ELSE Pushed(slots[i], Shape(Ahead(i), last, nextSplit), Ahead(i) \notin bad, "due")
<1>1. /\ Half \in Nat /\ Half > 0 /\ Len \in Nat \ {0} /\ Len = 2 * Half
      /\ now \in Slot /\ now \in 0..Len - 1 /\ lead \in 0..Half - 1 /\ i \in 0..Len - 1
  BY Consts DEF TypeOK, Slot
<1> DEFINE d == Ahead(i)
           r == lead + ((i - FirstSlot) % Len)
<1>2. d \in 0..Len - 1 /\ d = (IF i >= now THEN i - now ELSE i - now + Len)
      /\ (now + d) % Len = i
  BY <1>1, AheadIs
<1>3. r = IF d < lead THEN d + Len ELSE d
  <2> DEFINE e == (i - FirstSlot) % Len
  <2>1. FirstSlot = IF now + lead < Len THEN now + lead ELSE now + lead - Len
    BY FirstSlotIs
  <2>2. FirstSlot \in 0..Len - 1
    BY FirstSlotIs
  <2> HIDE DEF Len, d
  <2> DEFINE x == i - FirstSlot
  <2>3. x \in -Len..2 * Len - 1
    BY <1>1, <2>2
  <2>6. x % Len = IF x < 0 THEN x + Len ELSE IF x < Len THEN x ELSE x - Len
    BY <2>3, Around, Zenon
  <2>4. e = IF i - FirstSlot < 0 THEN i - FirstSlot + Len ELSE i - FirstSlot
    BY <1>1, <2>2, <2>3, <2>6
  <2> HIDE DEF e
  <2>5. lead + e = IF d < lead THEN d + Len ELSE d
    BY <1>1, <1>2, <2>1, <2>4
  <2> QED
    BY <2>5 DEF e
<1>4. Filled(last, nextSplit, bad)[i] =
        IF r > last THEN slots[i]
        ELSE Pushed(slots[i], Shape(r, last, nextSplit), r \notin bad,
                    IF i = (now + r) % Len THEN "due" ELSE "missed")
  BY Zenon DEF Filled, Shape
<1> HIDE DEF d, r, Len
<1>5. CASE d < lead
  <2>1. r > last
    BY <1>1, <1>2, <1>3, <1>5
  <2> QED
    BY <1>4, <1>5, <2>1, Zenon DEF d
<1>6. CASE ~(d < lead)
  <2>1. r = d
    BY <1>3, <1>6
  <2> QED
    BY <1>2, <1>4, <1>6, <2>1, Zenon DEF d
<1> QED
  BY <1>5, <1>6
Kept == Packet \cup {Empty}

\* output.push leaves a packet that a slot can hold.
LEMMA PushedIsKept ==
  ASSUME NEW old \in Kept, NEW shape \in {"back", "front", "full"}, NEW ok \in BOOLEAN
  PROVE  Pushed(old, shape, ok, "due") \in Kept
<1>1. CASE shape # "back"
  BY <1>1 DEF Pushed, Kept, Packet
<1>2. CASE shape = "back" /\ old.shape # "front"
  BY <1>2 DEF Pushed
<1>3. CASE shape = "back" /\ old.shape = "front"
  <2>1. old \in Packet
    BY <1>3 DEF Kept, Empty
  <2>2. old.ok \in BOOLEAN
    BY <2>1 DEF Packet
  <2>3. (IF old.of = "due" THEN "due" ELSE "mixed") \in {"due", "missed", "mixed"}
    OBVIOUS
  <2>4. (old.ok /\ ok) \in BOOLEAN
    BY <2>2
  <2>5. [shape |-> "full", ok |-> old.ok /\ ok, of |-> IF old.of = "due" THEN "due" ELSE "mixed"]
          \in Packet
    BY <2>3, <2>4 DEF Packet
  <2> QED
    BY <1>3, <2>5 DEF Pushed, Kept
<1> QED
  BY <1>1, <1>2, <1>3

\* A wait of whole windows is no longer than a PDU.
LEMMA WaitIs ==
  ASSUME NEW n \in Avgs, NEW w \in 0..n \div Per
  PROVE  w * Per \in Nat /\ w * Per <= n /\ (w > 0 => Per <= w * Per)
<1>1. n \in Nat /\ n \div Per \in Nat /\ (n \div Per) * Per = n
  BY AvgIs
<1>2. Per \in Nat /\ Per > 0
  BY Consts
<1> DEFINE m == n \div Per
           r == m - w
<1>3. w \in Nat /\ r \in Nat /\ m \in Nat /\ m = w + r
  BY <1>1
<1> HIDE DEF m, r
<1>4. w * Per \in Nat /\ r * Per \in Nat /\ m * Per = w * Per + r * Per
  BY <1>2, <1>3
<1>5. w * Per <= n
  BY <1>1, <1>4 DEF m
<1>6. ASSUME w > 0 PROVE Per <= w * Per
  <2> DEFINE v == w - 1
  <2>1. v \in Nat /\ w = v + 1
    BY <1>3, <1>6
  <2> HIDE DEF v
  <2>2. (v + 1) * Per = v * Per + Per /\ v * Per \in Nat
    BY <1>2, <2>1, OneMore
  <2> QED
    BY <1>2, <2>1, <2>2
<1> QED
  BY <1>4, <1>5, <1>6

\* A packet can be on the way, or a half of one, less than a turn ahead.
LEMMA UnsentIs ==
  ASSUME TypeOK
  PROVE  /\ wait * Per \in Nat /\ wait * Per <= avg /\ avg \in Nat /\ avg <= Half
         /\ Unsent = IF split THEN wait * Per + lead + 1 ELSE wait * Per + lead
         /\ Unsent \in 0..Len /\ lead \in 0..Half - 1
         /\ wait > 0 => Per <= wait * Per
<1>1. /\ avg \in Avgs /\ wait \in 0..avg \div Per /\ lead \in 0..Half - 1 /\ split \in BOOLEAN
      /\ Half \in Nat /\ Half > 0 /\ Len = 2 * Half
  BY Consts DEF TypeOK
<1>2. avg \in Nat /\ avg <= Half
  BY <1>1, AvgIs
<1>3. wait * Per \in Nat /\ wait * Per <= avg /\ (wait > 0 => Per <= wait * Per)
  BY <1>1, WaitIs
<1>4. Unsent = IF split THEN wait * Per + lead + 1 ELSE wait * Per + lead
  <2> DEFINE wp == wait * Per
  <2>1. Unsent = wp + lead + Bit(split)
    BY DEF Unsent
  <2> HIDE DEF wp
  <2>2. Unsent = IF split THEN wp + lead + 1 ELSE wp + lead
    BY <1>1, <1>3, <2>1 DEF Bit, wp
  <2> QED
    BY <2>2 DEF wp
<1> QED
  BY <1>1, <1>2, <1>3, <1>4

\* A PDU sends all up to Last, and leaves what comes after it.
LEMMA SentIs ==
  ASSUME TypeOK, NEW nextLead \in 0..Half - 1, NEW nextSplit \in BOOLEAN,
         SendPdu(nextLead, nextSplit)
  PROVE  LET last == Last(nextLead, nextSplit) IN
         /\ last \in lead..Len - 1 /\ last \in 0..Len - 1
         /\ split /\ nextSplit => last > lead
         /\ last = IF nextSplit THEN nextLead + avg ELSE nextLead + avg - 1
         /\ wait * Per = 0 /\ wait' * Per = avg /\ avg \in Nat
         /\ Unsent = IF split THEN lead + 1 ELSE lead
         /\ Unsent' = last + 1 /\ last + 1 \in 0..Len
         /\ wait' \in 0..avg' \div Per /\ pduSeq' \in 0..Seqs - 1
         /\ lead' = nextLead /\ split' = nextSplit /\ now' = now /\ avg' = avg
<1> DEFINE last == Last(nextLead, nextSplit)
<1>1. /\ avg \in Avgs /\ wait = 0 /\ lead \in 0..Half - 1 /\ split \in BOOLEAN
      /\ pduSeq \in Nat
      /\ Half \in Nat /\ Half > 0 /\ Len = 2 * Half /\ Seqs \in Nat \ {0} /\ Per \in Nat
  BY Consts DEF TypeOK, SendPdu
<1>2. avg \in Nat /\ avg <= Half /\ avg \div Per \in Nat /\ (avg \div Per) * Per = avg
      /\ Per <= avg /\ Per > 0
  BY <1>1, AvgIs, Consts
<1>3. /\ wait' = avg \div Per /\ lead' = nextLead /\ split' = nextSplit
      /\ now' = now /\ avg' = avg /\ pduSeq' = (pduSeq + 1) % Seqs
  BY DEF SendPdu
<1>4. last = IF nextSplit THEN nextLead + avg ELSE nextLead + avg - 1
  BY <1>2 DEF Last, Bit
<1>5. last >= lead + Bit(split /\ nextSplit)
  BY DEF SendPdu
<1>6. last >= lead /\ (split /\ nextSplit => last > lead)
  BY <1>1, <1>2, <1>4, <1>5 DEF Bit
<1>7. last \in lead..Len - 1 /\ last \in 0..Len - 1 /\ last + 1 \in 0..Len
  BY <1>1, <1>2, <1>4, <1>6
<1>8. wait * Per = 0 /\ wait' * Per = avg
  BY <1>1, <1>2, <1>3
<1>9. Unsent = IF split THEN lead + 1 ELSE lead
  BY <1>1, <1>8, UnsentIs
<1>10. Unsent' = last + 1
  <2>1. Unsent' = avg + nextLead + Bit(nextSplit)
    BY <1>3, <1>8 DEF Unsent, Bit
  <2> QED
    BY <1>2, <1>4, <2>1 DEF Bit
<1>11. pduSeq' \in 0..Seqs - 1
  BY <1>1, <1>3, Division
<1>12. wait' \in 0..avg' \div Per
  BY <1>2, <1>3
<1> QED
  BY <1>2, <1>3, <1>4, <1>6, <1>7, <1>8, <1>9, <1>10, <1>11, <1>12
-----------------------------------------------------------------------------
(* Every step keeps the invariant. *)

\* A PDU is received: what was there keeps its place, what comes finds its own, and
\* the receiver reads where the station wants it to.
LEMMA ReceiveIInv ==
  ASSUME IInv, NEW nextLead \in 0..Half - 1, NEW nextSplit \in BOOLEAN, NEW bad,
         Receive(nextLead, nextSplit, bad),
         gap' \in 0..Len, trouble' \in 0..MaxTrouble,
         \A d \in 0..Len - 1 : gap' <= d => gap <= d /\ d \notin bad
  PROVE  IInv'
<1> DEFINE last == Last(nextLead, nextSplit)
<1>1. TypeOK /\ InStep /\ SendPdu(nextLead, nextSplit)
  BY Zenon DEF IInv, Receive
<1>2. /\ last \in lead..Len - 1 /\ last \in 0..Len - 1
      /\ split /\ nextSplit => last > lead
      /\ last = IF nextSplit THEN nextLead + avg ELSE nextLead + avg - 1
      /\ wait * Per = 0 /\ wait' * Per = avg /\ avg \in Nat
      /\ Unsent = IF split THEN lead + 1 ELSE lead
      /\ Unsent' = last + 1 /\ last + 1 \in 0..Len
      /\ wait' \in 0..avg' \div Per /\ pduSeq' \in 0..Seqs - 1
      /\ lead' = nextLead /\ split' = nextSplit /\ now' = now /\ avg' = avg
  BY <1>1, SentIs
<1>3. /\ now \in Slot /\ lead \in 0..Half - 1 /\ split \in BOOLEAN /\ Len \in Nat
      /\ avg \in Avgs /\ Len = 2 * Half /\ Half \in Nat
  BY <1>1, Consts DEF TypeOK
<1>4. offset' = now
  BY <1>1, ReadsWell DEF Receive, SendPdu
<1>5. offset' \in 0..Len - 1 /\ offset' # -1
  BY <1>3, <1>4 DEF Slot
<1>6. slots' = Filled(last, nextSplit, bad)
  BY Zenon DEF Receive
<1> HIDE DEF last
<1>7. \A i \in Slot : Ahead(i) \in 0..Len - 1 /\ Ahead(i)' = Ahead(i)
  <2>1. \A i \in Slot : Ahead(i) \in 0..Len - 1
    BY <1>3, AheadIs
  <2>2. \A i \in Slot : Ahead(i)' = Ahead(i)
    BY <1>2 DEF Ahead
  <2> QED
    BY <2>1, <2>2
<1>8. \A i \in Slot :
        slots'[i] =
          IF Ahead(i) < lead \/ Ahead(i) > last THEN slots[i]
          ELSE Pushed(slots[i], Shape(Ahead(i), last, nextSplit), Ahead(i) \notin bad, "due")
  BY <1>1, <1>2, <1>6, FilledIs, Zenon
<1>9. \A i \in Slot : slots[i] \in Kept
  BY <1>1 DEF TypeOK, Kept
<1>10. slots' \in [Slot -> Kept]
  <2>1. ASSUME NEW i \in Slot PROVE slots'[i] \in Kept
    <3>1. CASE Ahead(i) < lead \/ Ahead(i) > last
      BY <1>8, <1>9, <3>1, Zenon
    <3>2. CASE ~(Ahead(i) < lead \/ Ahead(i) > last)
      <4>1. Shape(Ahead(i), last, nextSplit) \in {"back", "front", "full"}
        BY DEF Shape
      <4>2. (Ahead(i) \notin bad) \in BOOLEAN
        OBVIOUS
      <4>3. Pushed(slots[i], Shape(Ahead(i), last, nextSplit), Ahead(i) \notin bad, "due") \in Kept
        BY <1>9, <4>1, <4>2, PushedIsKept, Zenon
      <4> QED
        BY <1>8, <3>2, <4>3, Zenon
    <3> QED
      BY <3>1, <3>2
  <2>2. slots' = [i \in Slot |-> slots'[i]]
    BY <1>6, Zenon DEF Filled
  <2> QED
    BY <2>1, <2>2, Zenon
<1>11. TypeOK'
  <2>1. astray' \in BOOLEAN /\ doubt' \in 0..Len
    <3>1. doubt \in 0..Len /\ Len \in 0..Len
      BY <1>1, <1>3 DEF TypeOK
    <3>2. astray' = FALSE /\ doubt' = IF astray THEN Len ELSE doubt
      BY Zenon DEF Receive
    <3> QED
      BY <3>1, <3>2
  <2>2. /\ offset' \in -1..Len - 1 /\ now' \in Slot /\ avg' \in Avgs
        /\ lead' \in 0..Half - 1 /\ split' \in BOOLEAN
    BY <1>2, <1>3, <1>5
  <2> QED
    BY <1>2, <1>10, <2>1, <2>2, Zenon DEF TypeOK, Kept
<1>12. InStep'
  BY <1>1, SendInStep
<1>13. EmptyBefore' /\ AstrayDoubts' /\ ReadsNow' /\ LostMeansGap'
  BY <1>2, <1>4, <1>5 DEF Receive, EmptyBefore, AstrayDoubts, ReadsNow, LostMeansGap
<1>14. DueBeyondDoubt'
  <2> SUFFICES ASSUME NEW i \in Slot, doubt' <= Ahead(i), slots'[i] # Empty
               PROVE  slots'[i].of = "due"
    BY <1>7, Zenon DEF DueBeyondDoubt
  <2>1. doubt' = doubt
    BY <1>3, <1>7 DEF Receive
  <2>2. slots[i] # Empty => slots[i].of = "due"
    BY <2>1, Zenon DEF IInv, DueBeyondDoubt
  <2>3. CASE slots'[i] = slots[i]
    BY <2>2, <2>3
  <2>4. CASE slots'[i] # slots[i]
    <3> DEFINE sh == Shape(Ahead(i), last, nextSplit)
               ok == Ahead(i) \notin bad
    <3>1. slots'[i] = Pushed(slots[i], sh, ok, "due")
      BY <1>8, <2>4, Zenon
    <3> HIDE DEF sh, ok
    <3>2. CASE sh # "back"
      BY <3>1, <3>2 DEF Pushed
    <3>3. CASE sh = "back" /\ slots[i].shape # "front"
      BY <2>4, <3>1, <3>3, Zenon DEF Pushed
    <3>4. CASE sh = "back" /\ slots[i].shape = "front"
      <4>1. slots[i] # Empty
        BY <3>4 DEF Empty
      <4> QED
        BY <2>2, <3>1, <3>4, <4>1 DEF Pushed
    <3> QED
      BY <3>2, <3>3, <3>4
  <2> QED
    BY <2>3, <2>4
<1>15. DueWasSent'
  <2> SUFFICES ASSUME NEW i \in Slot, slots'[i].shape = "full", slots'[i].of = "due"
               PROVE  Ahead(i) < avg + nextLead
    BY <1>2, <1>7, Zenon DEF DueWasSent
  <2>1. Ahead(i) \in 0..Len - 1 /\ last \in Int /\ avg \in Nat
    BY <1>2, <1>7
  <2>2. CASE slots'[i] = slots[i]
    <3>1. Ahead(i) < wait * Per + lead
      BY <2>2, Zenon DEF IInv, DueWasSent
    <3> QED
      BY <1>2, <1>3, <2>1, <3>1
  <2>3. CASE slots'[i] # slots[i]
    <3>1. /\ ~(Ahead(i) < lead \/ Ahead(i) > last)
          /\ slots'[i] = Pushed(slots[i], Shape(Ahead(i), last, nextSplit), Ahead(i) \notin bad, "due")
      BY <1>8, <2>3, Zenon
    <3>2. CASE Ahead(i) = last /\ nextSplit
      <4>1. Shape(Ahead(i), last, nextSplit) = "front"
        BY <1>2, <1>3, <3>2 DEF Shape
      <4> QED
        BY <3>1, <4>1 DEF Pushed
    <3>3. CASE ~(Ahead(i) = last /\ nextSplit)
      BY <1>2, <2>1, <3>1, <3>3
    <3> QED
      BY <3>2, <3>3
  <2> QED
    BY <2>2, <2>3
<1>16. SentIsThere'
  <2> SUFFICES ASSUME NEW d \in 0..last, gap' <= d
               PROVE  slots'[(now + d) % Len] =
                        [shape |-> IF nextSplit /\ d = last THEN "front" ELSE "full",
                         ok |-> TRUE, of |-> "due"]
    <3>1. Unsent' - 1 = last
      BY <1>2
    <3> QED
      BY <1>2, <3>1, Zenon DEF SentIsThere
  <2> DEFINE i == (now + d) % Len
  <2>1. d \in 0..Len - 1
    BY <1>2, <1>3
  <2>2. i \in Slot /\ Ahead(i) = d
    BY <1>3, <2>1, PlaceIs
  <2>3. gap <= d /\ d \notin bad
    BY <2>1
  <2>4. d \in 0..Unsent - 1 =>
          slots[i] = [shape |-> IF split /\ d = Unsent - 1 THEN "front" ELSE "full",
                      ok |-> TRUE, of |-> "due"]
    BY <2>3, Zenon DEF IInv, SentIsThere
  <2> HIDE DEF i
  <2>5. CASE d < lead
    <3>1. slots'[i] = slots[i]
      BY <1>8, <2>2, <2>5, Zenon
    <3>2. d \in 0..Unsent - 1 /\ d # last /\ ~(split /\ d = Unsent - 1)
      BY <1>2, <1>3, <2>1, <2>5
    <3> QED
      BY <2>4, <3>1, <3>2, Zenon DEF i
  <2>6. CASE ~(d < lead)
    <3>1. ~(d > last)
      BY <1>2, <2>1
    <3>2. slots'[i] = Pushed(slots[i], Shape(d, last, nextSplit), d \notin bad, "due")
      BY <1>8, <2>2, <2>6, <3>1, Zenon
    <3>3. CASE d = lead /\ split
      <4>1. d \in 0..Unsent - 1 /\ d = Unsent - 1 /\ split
        BY <1>2, <1>3, <2>1, <3>3
      <4>2. slots[i] = [shape |-> "front", ok |-> TRUE, of |-> "due"]
        BY <2>4, <4>1, Zenon
      <4>3. Shape(d, last, nextSplit) = "back"
        BY <3>3 DEF Shape
      <4>4. slots'[i] = [shape |-> "full", ok |-> TRUE, of |-> "due"]
        <5>1. (d \notin bad) = TRUE
          BY <2>3
        <5>2. Pushed([shape |-> "front", ok |-> TRUE, of |-> "due"], "back", TRUE, "due")
                = [shape |-> "full", ok |-> TRUE, of |-> "due"]
          BY DEF Pushed
        <5> QED
          BY <3>2, <4>2, <4>3, <5>1, <5>2, Zenon
      <4>5. ~(nextSplit /\ d = last)
        BY <1>2, <1>3, <3>3
      <4> QED
        BY <4>4, <4>5, Zenon DEF i
    <3>4. CASE ~(d = lead /\ split)
      <4>1. Shape(d, last, nextSplit) = IF nextSplit /\ d = last THEN "front" ELSE "full"
        BY <3>4 DEF Shape
      <4>2. slots'[i] = [shape |-> IF nextSplit /\ d = last THEN "front" ELSE "full",
                         ok |-> TRUE, of |-> "due"]
        BY <2>3, <3>2, <4>1 DEF Pushed
      <4> QED
        BY <4>2, Zenon DEF i
    <3> QED
      BY <3>3, <3>4
  <2> QED
    BY <2>5, <2>6
<1> QED
  BY <1>11, <1>12, <1>13, <1>14, <1>15, <1>16 DEF IInv
\* Of any station, no more is on the way than fits in the buffer.
LEMMA UnsentFits ==
  ASSUME NEW n \in Avgs, NEW w \in 0..n \div Per, NEW l \in 0..Half - 1, NEW b \in BOOLEAN
  PROVE  w * Per + l + Bit(b) \in 0..Len
<1> DEFINE wp == w * Per
<1>1. wp \in Nat /\ wp <= n /\ n \in Nat /\ n <= Half
  BY WaitIs, AvgIs
<1>2. Bit(b) \in 0..1
  BY DEF Bit
<1> HIDE DEF wp
<1>3. wp + l + Bit(b) \in 0..Len
  BY <1>1, <1>2, Consts
<1> QED
  BY <1>3 DEF wp

\* A station is somewhere in the buffer.
LEMMA AgreedInSlot ==
  ASSUME NEW n \in Avgs, NEW w \in 0..n \div Per, NEW k \in 0..Seqs - 1,
         NEW x \in Agreed(w, k, n)
  PROVE  x \in Slot
<1>1. n \in Nat /\ w \in Nat /\ k \in Nat
  BY AvgIs, Consts
<1> DEFINE turns == {0, Half}
           y(turn) == Header(k, n) + turn - w * Per
<1>2. PICK turn \in turns : x = y(turn) % Len
  BY DEF Agreed
<1>3. Header(k, n) \in Int
  <2> DEFINE z == Len + k * n - Latency
  <2>1. z \in Int /\ Len \in Nat \ {0}
    BY <1>1, Consts
  <2>2. Header(k, n) = z % Len
    BY DEF Header
  <2> HIDE DEF z
  <2> QED
    BY <2>1, <2>2, Division
<1>4. y(turn) \in Int /\ Len \in Nat \ {0}
  <2>1. turn \in Int /\ w * Per \in Int
    BY <1>1, Consts
  <2> QED
    BY <1>3, <2>1, Consts
<1> HIDE DEF y
<1> QED
  BY <1>2, <1>4, Division DEF Slot

\* The slots that a window plays are the next ones due.
LEMMA FromIs ==
  ASSUME now \in Slot, NEW i \in Slot
  PROVE  i \in From(now) <=> Ahead(i) < Per
<1>1. /\ Per \in Nat /\ Per > 0 /\ Per <= Half /\ Len = 2 * Half /\ Half \in Nat
      /\ Ahead(i) \in 0..Len - 1 /\ (now + Ahead(i)) % Len = i
  BY Consts, AheadIs
<1>2. ASSUME i \in From(now) PROVE Ahead(i) < Per
  <2>1. PICK j \in 0..Per - 1 : i = (now + j) % Len
    BY <1>2 DEF From
  <2>2. j \in 0..Len - 1
    BY <1>1
  <2>3. Ahead(i) = j
    BY <2>1, <2>2, PlaceIs
  <2> QED
    BY <1>1, <2>3
<1>3. ASSUME Ahead(i) < Per PROVE i \in From(now)
  <2>1. Ahead(i) \in 0..Per - 1
    BY <1>1, <1>3
  <2> QED
    BY <1>1, <2>1, Zenon DEF From
<1> QED
  BY <1>2, <1>3

\* A packet whose time has passed is still a packet.
LEMMA MissedIs ==
  ASSUME NEW p \in Kept, p # Empty
  PROVE  /\ [p EXCEPT !.of = "missed"] \in Kept
         /\ [p EXCEPT !.of = "missed"].of = "missed"
<1>1. p \in Packet
  BY DEF Kept
<1> QED
  BY <1>1 DEF Packet, Kept

\* What is not played in its window is missed, and nothing else changes.
LEMMA TooLateIs ==
  ASSUME TypeOK
  PROVE  /\ TooLate \in [Slot -> Kept]
         /\ \A i \in Slot : /\ slots[i] = Empty => TooLate[i] = Empty
                            /\ Ahead(i) >= Per => TooLate[i] = slots[i]
                            /\ Ahead(i) < Per => TooLate[i] = Empty \/ TooLate[i].of = "missed"
<1>1. \A i \in Slot : slots[i] \in Kept
  BY DEF TypeOK, Kept
<1>2. \A i \in Slot : i \in From(now) <=> Ahead(i) < Per
  BY FromIs DEF TypeOK
<1>3. \A i \in Slot : Ahead(i) \in Int /\ Per \in Int
  BY AheadIs, Consts DEF TypeOK
<1>4. ASSUME NEW i \in Slot
      PROVE  /\ TooLate[i] \in Kept
             /\ slots[i] = Empty => TooLate[i] = Empty
             /\ Ahead(i) >= Per => TooLate[i] = slots[i]
             /\ Ahead(i) < Per => TooLate[i] = Empty \/ TooLate[i].of = "missed"
  <2>1. TooLate[i] = IF i \in From(now) /\ slots[i] # Empty
                     THEN [slots[i] EXCEPT !.of = "missed"] ELSE slots[i]
    BY Zenon DEF TooLate
  <2>2. CASE i \in From(now) /\ slots[i] # Empty
    <3>1. TooLate[i] \in Kept /\ TooLate[i].of = "missed"
      BY <1>1, <2>1, <2>2, MissedIs, Zenon
    <3> QED
      BY <1>2, <1>3, <2>2, <3>1
  <2>3. CASE ~(i \in From(now) /\ slots[i] # Empty)
    <3>1. TooLate[i] = slots[i]
      BY <2>1, <2>3, Zenon
    <3> QED
      BY <1>1, <1>2, <2>3, <3>1, Zenon
  <2> QED
    BY <2>2, <2>3
<1>5. TooLate \in [Slot -> Kept]
  <2>1. TooLate = [i \in Slot |-> TooLate[i]]
    BY Zenon DEF TooLate
  <2> QED
    BY <1>4, <2>1, Zenon
<1> QED
  BY <1>4, <1>5, Zenon

\* A window passes, and everything is Per packets nearer.
LEMMA TickIs ==
  ASSUME TypeOK, InStep, Tick
  PROVE  /\ Unsent \in 0..Len /\ Unsent' \in 0..Len /\ Unsent = Unsent' + Per
         /\ \A i \in Slot : /\ Ahead(i) \in 0..Len - 1
                            /\ Ahead(i)' = IF Ahead(i) >= Per THEN Ahead(i) - Per
                                           ELSE Ahead(i) - Per + Len
         /\ \A d \in 0..Unsent' - 1 : /\ d + Per \in 0..Unsent - 1
                                      /\ (now' + d) % Len = (now + (d + Per)) % Len
<1>1. /\ now \in Slot /\ now \in 0..Len - 1 /\ lead \in 0..Half - 1 /\ split \in BOOLEAN
      /\ Len \in Nat \ {0} /\ Len = 2 * Half /\ Half \in Nat /\ Per \in Nat /\ Per > 0 /\ Per <= Half
      /\ lead' = lead /\ split' = split /\ avg' = avg /\ wait > 0
  BY Consts DEF TypeOK, Tick, Slot
<1>2. /\ now' \in Slot /\ now' \in 0..Len - 1
      /\ now' = IF now + Per < Len THEN now + Per ELSE now + Per - Len
      /\ wait * Per = wait' * Per + Per /\ wait' * Per \in Nat
  BY TickInStep DEF Slot
<1>3. /\ Unsent \in 0..Len
      /\ Unsent = IF split THEN wait * Per + lead + 1 ELSE wait * Per + lead
  BY UnsentIs
<1>4. Unsent' = IF split THEN wait' * Per + lead + 1 ELSE wait' * Per + lead
  <2> DEFINE wp == wait' * Per
  <2>1. Unsent' = wp + lead + Bit(split)
    BY <1>1 DEF Unsent, Bit
  <2>2. wp \in Nat
    BY <1>2
  <2> HIDE DEF wp
  <2>3. Unsent' = IF split THEN wp + lead + 1 ELSE wp + lead
    BY <1>1, <2>1, <2>2 DEF Bit
  <2> QED
    BY <2>3 DEF wp
<1>5. Unsent' \in 0..Len /\ Unsent = Unsent' + Per
  BY <1>1, <1>2, <1>3, <1>4
<1>6. ASSUME NEW i \in Slot
      PROVE  /\ Ahead(i) \in 0..Len - 1
             /\ Ahead(i)' = IF Ahead(i) >= Per THEN Ahead(i) - Per ELSE Ahead(i) - Per + Len
  <2>1. i \in 0..Len - 1
    BY DEF Slot
  <2>2. Ahead(i) \in 0..Len - 1 /\ Ahead(i) = IF i >= now THEN i - now ELSE i - now + Len
    BY <1>1, AheadIs
  <2> DEFINE x == i - now'
  <2>3. Ahead(i)' = x % Len
    BY DEF Ahead
  <2>4. x \in -Len..2 * Len - 1
    BY <1>1, <1>2, <2>1
  <2>5. x % Len = IF x < 0 THEN x + Len ELSE IF x < Len THEN x ELSE x - Len
    BY <2>4, Around, Zenon
  <2>6. Ahead(i)' = IF i < now' THEN i - now' + Len ELSE i - now'
    BY <1>1, <1>2, <2>1, <2>3, <2>5
  <2> QED
    BY <1>1, <1>2, <2>1, <2>2, <2>6
<1>7. ASSUME NEW d \in 0..Unsent' - 1
      PROVE  d + Per \in 0..Unsent - 1 /\ (now' + d) % Len = (now + (d + Per)) % Len
  <2>1. d + Per \in 0..Unsent - 1 /\ d + Per \in 0..Len - 1 /\ d \in Nat
    <3> DEFINE u == Unsent'
    <3>1. u \in 0..Len /\ Unsent = u + Per /\ d \in 0..u - 1
      BY <1>5
    <3> HIDE DEF u
    <3>2. d \in Nat /\ d <= u - 1 /\ u \in Nat
      BY <1>1, <3>1
    <3> QED
      BY <1>1, <1>3, <3>1, <3>2
  <2>2. (now + (d + Per)) % Len = IF now + (d + Per) < Len THEN now + (d + Per)
                                  ELSE now + (d + Per) - Len
    BY <1>1, <2>1, PlaceIs, Zenon
  <2> DEFINE x == now' + d
  <2>3. x \in -Len..2 * Len - 1
    BY <1>1, <1>2, <2>1
  <2>4. x % Len = IF x < 0 THEN x + Len ELSE IF x < Len THEN x ELSE x - Len
    BY <2>3, Around, Zenon
  <2>5. (now' + d) % Len = (now + (d + Per)) % Len
    BY <1>1, <1>2, <2>1, <2>2, <2>4
  <2> QED
    BY <2>1, <2>5
<1> QED
  BY <1>3, <1>5, <1>6, <1>7
\* A distance after a window.
LEMMA LessIs ==
  ASSUME NEW n \in 0..Len
  PROVE  Less(n) \in 0..Len /\ Less(n) = IF n > Per THEN n - Per ELSE 0
  BY Consts DEF Less

\* A window is played: what was due in it goes, everything else is nearer.
LEMMA AdvanceIInv == IInv /\ Advance => IInv'
<1> SUFFICES ASSUME IInv, Advance PROVE IInv'
  OBVIOUS
<1>1. TypeOK /\ InStep /\ Tick
  BY Zenon DEF IInv, Advance
<1>2. /\ Unsent \in 0..Len /\ Unsent' \in 0..Len /\ Unsent = Unsent' + Per
      /\ \A i \in Slot : /\ Ahead(i) \in 0..Len - 1
                         /\ Ahead(i)' = IF Ahead(i) >= Per THEN Ahead(i) - Per
                                        ELSE Ahead(i) - Per + Len
      /\ \A d \in 0..Unsent' - 1 : /\ d + Per \in 0..Unsent - 1
                                   /\ (now' + d) % Len = (now + (d + Per)) % Len
  BY <1>1, TickIs
<1>3. /\ InStep' /\ now' \in Slot /\ wait' \in 0..avg \div Per
      /\ wait * Per = wait' * Per + Per /\ wait' * Per \in Nat
  BY <1>1, TickInStep
<1>4. /\ now \in Slot /\ offset \in -1..Len - 1 /\ doubt \in 0..Len /\ gap \in 0..Len
      /\ lead \in 0..Half - 1 /\ avg \in Avgs
      /\ Len \in Nat \ {0} /\ Len = 2 * Half /\ Half \in Nat /\ Per \in Nat /\ Per > 0
      /\ Per <= Half
  BY <1>1, Consts DEF TypeOK
<1>5. /\ slots' = Drained /\ offset' = NextOffset /\ gap' = Less(gap)
      /\ doubt' = IF astray THEN doubt ELSE Less(doubt)
      /\ astray' = astray /\ trouble' = trouble
      /\ avg' = avg /\ pduSeq' = pduSeq /\ lead' = lead /\ split' = split
      /\ now' = (now + Per) % Len
  BY <1>1 DEF Advance, Tick
<1>6. /\ TooLate \in [Slot -> Kept]
      /\ \A i \in Slot : /\ slots[i] = Empty => TooLate[i] = Empty
                         /\ Ahead(i) >= Per => TooLate[i] = slots[i]
                         /\ Ahead(i) < Per => TooLate[i] = Empty \/ TooLate[i].of = "missed"
  BY <1>1, TooLateIs
<1>7. \A i \in Slot : slots'[i] = Empty \/ slots'[i] = TooLate[i]
  BY <1>5, Zenon DEF Drained
<1>8. ASSUME offset # -1, ~astray, NEW i \in Slot
      PROVE  slots'[i] = IF Ahead(i) < Per THEN Empty ELSE slots[i]
  <2>1. offset = now
    BY <1>8, Zenon DEF IInv, ReadsNow
  <2>2. i \in From(offset) <=> Ahead(i) < Per
    BY <1>4, <2>1, FromIs
  <2>3. slots'[i] = IF i \in From(offset) THEN Empty ELSE TooLate[i]
    BY <1>5, <1>8, Zenon DEF Drained
  <2>4. Ahead(i) >= Per \/ Ahead(i) < Per
    BY <1>2, <1>4
  <2>5. Ahead(i) >= Per => ~(Ahead(i) < Per)
    BY <1>2, <1>4
  <2> QED
    BY <1>6, <2>2, <2>3, <2>4, <2>5, Zenon
<1>9. offset' = (IF offset = -1 THEN -1 ELSE (offset + Per) % Len) /\ offset' \in -1..Len - 1
  <2>1. (offset + Per) % Len \in 0..Len - 1
    BY <1>4, Division
  <2> QED
    BY <1>4, <1>5, <2>1 DEF NextOffset
<1>10. offset' = -1 <=> offset = -1
  <2>1. (offset + Per) % Len \in 0..Len - 1
    BY <1>4, Division
  <2> QED
    BY <1>4, <1>9, <2>1
<1>11. slots' \in [Slot -> Kept]
  <2>1. Empty \in Kept
    BY DEF Kept
  <2>2. \A i \in Slot : slots'[i] \in Kept
    BY <1>6, <1>7, <2>1, Zenon
  <2>3. slots' = [i \in Slot |-> slots'[i]]
    <3>1. CASE offset = -1
      <4>1. slots' = TooLate
        BY <1>5, <3>1, Zenon DEF Drained
      <4> QED
        BY <1>6, <4>1
    <3>2. CASE offset # -1
      <4>1. slots' = [i \in Slot |-> IF i \in From(offset) THEN Empty ELSE TooLate[i]]
        BY <1>5, <3>2, Zenon DEF Drained
      <4> QED
        BY <4>1
    <3> QED
      BY <3>1, <3>2
  <2> QED
    BY <2>2, <2>3, Zenon
<1>12. gap' \in 0..Len /\ gap' = IF gap > Per THEN gap - Per ELSE 0
  BY <1>4, <1>5, LessIs
<1>13. doubt' \in 0..Len /\ (~astray => doubt' = IF doubt > Per THEN doubt - Per ELSE 0)
  BY <1>4, <1>5, LessIs
<1>14. TypeOK'
  <2>1. pduSeq' \in 0..Seqs - 1 /\ split' \in BOOLEAN /\ astray' \in BOOLEAN
        /\ trouble' \in 0..MaxTrouble /\ lead' \in 0..Half - 1
        /\ avg' \in Avgs /\ wait' \in 0..avg' \div Per
    BY <1>1, <1>3, <1>5 DEF TypeOK
  <2> QED
    BY <1>3, <1>9, <1>11, <1>12, <1>13, <2>1, Zenon DEF TypeOK, Kept
<1>15. EmptyBefore'
  <2> SUFFICES ASSUME offset' = -1, NEW i \in Slot PROVE slots'[i] = Empty
    BY Zenon DEF EmptyBefore
  <2>1. slots[i] = Empty
    BY <1>10, Zenon DEF IInv, EmptyBefore
  <2> QED
    BY <1>6, <1>7, <2>1, Zenon
<1>16. AstrayDoubts'
  BY <1>5 DEF IInv, AstrayDoubts
<1>17. ReadsNow'
  BY <1>5, <1>9, <1>10, Zenon DEF IInv, ReadsNow
<1>18. DueBeyondDoubt'
  <2> SUFFICES ASSUME NEW i \in Slot, doubt' <= Ahead(i)', slots'[i] # Empty
               PROVE  slots'[i].of = "due"
    BY Zenon DEF DueBeyondDoubt
  <2>1. Ahead(i) \in 0..Len - 1
        /\ Ahead(i)' = IF Ahead(i) >= Per THEN Ahead(i) - Per ELSE Ahead(i) - Per + Len
    BY <1>2
  <2>2. ~astray
    <3>1. astray => doubt' = Len
      BY <1>5 DEF IInv, AstrayDoubts
    <3> QED
      BY <1>4, <2>1, <3>1
  <2>3. offset # -1
    BY <1>10, <1>15, Zenon DEF EmptyBefore
  <2>4. slots'[i] = (IF Ahead(i) < Per THEN Empty ELSE slots[i])
    BY <1>8, <2>2, <2>3, Zenon
  <2>5. ~(Ahead(i) < Per) /\ slots'[i] = slots[i]
    BY <2>4, Zenon
  <2>6. doubt <= Ahead(i)
    BY <1>4, <1>13, <2>1, <2>2, <2>5
  <2> QED
    BY <2>5, <2>6, Zenon DEF IInv, DueBeyondDoubt
<1>19. DueWasSent'
  <2> SUFFICES ASSUME NEW i \in Slot, slots'[i].shape = "full", slots'[i].of = "due"
               PROVE  Ahead(i)' < wait' * Per + lead
    BY <1>5, Zenon DEF DueWasSent
  <2>1. slots'[i] # Empty
    BY DEF Empty
  <2>2. slots'[i] = TooLate[i]
    BY <1>7, <2>1, Zenon
  <2>3. ~(Ahead(i) < Per)
    <3>1. TooLate[i].of # "missed"
      BY <2>2
    <3> QED
      BY <1>6, <2>1, <2>2, <3>1, Zenon
  <2>4. Ahead(i) \in 0..Len - 1 /\ Ahead(i)' = Ahead(i) - Per /\ Ahead(i) >= Per
    BY <1>2, <1>4, <2>3
  <2>5. slots'[i] = slots[i]
    BY <1>6, <2>2, <2>4, Zenon
  <2>6. Ahead(i) < wait * Per + lead
    BY <2>5, Zenon DEF IInv, DueWasSent
  <2> QED
    BY <1>3, <1>4, <2>4, <2>6
<1>20. Unsent \in 0..Len /\ Unsent' \in 0..Len /\ Unsent = Unsent' + Per
  BY <1>2, Zenon
<1>21. LostMeansGap'
  <2>1. offset' = -1 \/ astray' => gap >= Unsent
    BY <1>5, <1>10, Zenon DEF IInv, LostMeansGap
  <2>2. gap >= Unsent => gap' >= Unsent'
    <3> DEFINE u == Unsent'
               n == Unsent
               g == gap'
    <3>1. u \in 0..Len /\ n \in 0..Len /\ n = u + Per /\ g = IF gap > Per THEN gap - Per ELSE 0
      BY <1>12, <1>20, Zenon
    <3> HIDE DEF u, n, g
    <3>2. gap >= n => g >= u
      BY <1>4, <3>1
    <3> QED
      BY <3>2 DEF u, n, g
  <2> QED
    BY <2>1, <2>2, Zenon DEF LostMeansGap
<1>22. SentIsThere'
  <2> DEFINE u == Unsent'
             n == Unsent
             g == gap'
  <2>1. u \in 0..Len /\ n \in 0..Len /\ n = u + Per /\ g = IF gap > Per THEN gap - Per ELSE 0
    BY <1>12, <1>20, Zenon
  <2>2. ASSUME NEW d \in 0..u - 1
        PROVE  d + Per \in 0..n - 1 /\ (now' + d) % Len = (now + (d + Per)) % Len
    BY <1>2
  <2> HIDE DEF u, n, g
  <2> SUFFICES ASSUME NEW d \in 0..u - 1, g <= d
               PROVE  slots'[(now' + d) % Len] =
                        [shape |-> IF split /\ d = u - 1 THEN "front" ELSE "full",
                         ok |-> TRUE, of |-> "due"]
    BY <1>5, Zenon DEF SentIsThere, u, g
  <2>3. gap <= d + Per /\ ~(g >= u) /\ (d + Per = n - 1 <=> d = u - 1)
    BY <1>4, <2>1
  <2>4. offset # -1 /\ ~astray
    BY <1>5, <1>10, <1>21, <2>3, Zenon DEF LostMeansGap, u, g
  <2> DEFINE i == (now + (d + Per)) % Len
  <2>6. d + Per \in 0..Len - 1 /\ ~(d + Per < Per)
    BY <1>4, <2>1
  <2>7. i \in Slot /\ Ahead(i) = d + Per
    BY <1>4, <2>6, PlaceIs, Zenon
  <2>8. slots[i] = [shape |-> IF split /\ d + Per = n - 1 THEN "front" ELSE "full",
                    ok |-> TRUE, of |-> "due"]
    BY <2>2, <2>3, Zenon DEF IInv, SentIsThere, n
  <2> HIDE DEF i
  <2>9. slots'[i] = slots[i]
    <3>1. ~(Ahead(i) < Per)
      BY <2>6, <2>7, Zenon
    <3> QED
      BY <1>8, <2>4, <2>7, <3>1, Zenon
  <2>10. (now' + d) % Len = i
    BY <2>2, Zenon DEF i
  <2> QED
    BY <2>3, <2>8, <2>9, <2>10, Zenon
<1> QED
  BY <1>3, <1>14, <1>15, <1>16, <1>17, <1>18, <1>19, <1>21, <1>22 DEF IInv
\* A window's samples are lost: nothing can be trusted for a turn.
LEMMA LoseWindowIInv == IInv /\ LoseWindow => IInv'
<1> SUFFICES ASSUME IInv, LoseWindow PROVE IInv'
  OBVIOUS
<1>1. TypeOK /\ InStep /\ Tick
  BY Zenon DEF IInv, LoseWindow
<1>2. /\ Unsent' \in 0..Len
      /\ \A i \in Slot : /\ Ahead(i) \in 0..Len - 1
                         /\ Ahead(i)' = IF Ahead(i) >= Per THEN Ahead(i) - Per
                                        ELSE Ahead(i) - Per + Len
  BY <1>1, TickIs
<1>3. /\ InStep' /\ now' \in Slot /\ wait' \in 0..avg \div Per
      /\ wait * Per = wait' * Per + Per /\ wait' * Per \in Nat
  BY <1>1, TickInStep
<1>4. /\ trouble' \in 0..MaxTrouble /\ lead \in 0..Half - 1
      /\ Len \in Nat /\ Half \in Nat /\ Per \in Nat /\ Per > 0
  BY <1>1, Consts DEF LoseWindow, Trouble, TypeOK
<1>5. /\ slots' = TooLate /\ offset' = offset /\ gap' = Unsent' /\ doubt' = Len
      /\ astray' = TRUE
      /\ avg' = avg /\ pduSeq' = pduSeq /\ lead' = lead /\ split' = split
  BY <1>1, Zenon DEF LoseWindow, Tick
<1>6. /\ TooLate \in [Slot -> Kept]
      /\ \A i \in Slot : /\ slots[i] = Empty => TooLate[i] = Empty
                         /\ Ahead(i) >= Per => TooLate[i] = slots[i]
                         /\ Ahead(i) < Per => TooLate[i] = Empty \/ TooLate[i].of = "missed"
  BY <1>1, TooLateIs
<1>7. TypeOK'
  <2>1. /\ pduSeq' \in 0..Seqs - 1 /\ split' \in BOOLEAN /\ astray' \in BOOLEAN
        /\ lead' \in 0..Half - 1 /\ offset' \in -1..Len - 1
        /\ avg' \in Avgs /\ wait' \in 0..avg' \div Per
    BY <1>1, <1>3, <1>5 DEF TypeOK
  <2>2. doubt' \in 0..Len /\ gap' \in 0..Len
    <3>1. Len \in 0..Len
      BY <1>4
    <3> QED
      BY <1>2, <1>5, <3>1, Zenon
  <2> QED
    BY <1>3, <1>4, <1>5, <1>6, <2>1, <2>2, Zenon DEF TypeOK, Kept
<1>8. EmptyBefore' /\ AstrayDoubts' /\ ReadsNow'
  BY <1>5, <1>6, Zenon DEF IInv, EmptyBefore, AstrayDoubts, ReadsNow
<1>9. DueBeyondDoubt'
  <2>1. \A i \in Slot : ~(doubt' <= Ahead(i)')
    <3> SUFFICES ASSUME NEW i \in Slot PROVE ~(doubt' <= Ahead(i)')
      OBVIOUS
    <3> DEFINE a == Ahead(i)
               b == Ahead(i)'
    <3>1. a \in 0..Len - 1 /\ b = (IF a >= Per THEN a - Per ELSE a - Per + Len) /\ doubt' = Len
      BY <1>2, <1>5, Zenon
    <3> HIDE DEF a, b
    <3>2. ~(Len <= b)
      BY <1>4, <3>1
    <3> QED
      BY <3>1, <3>2, Zenon DEF b
  <2> QED
    BY <2>1, Zenon DEF DueBeyondDoubt
<1>10. DueWasSent'
  <2> SUFFICES ASSUME NEW i \in Slot, slots'[i].shape = "full", slots'[i].of = "due"
               PROVE  Ahead(i)' < wait' * Per + lead
    BY <1>5, Zenon DEF DueWasSent
  <2>1. slots'[i] # Empty /\ slots'[i].of # "missed"
    BY DEF Empty
  <2>2. ~(Ahead(i) < Per)
    BY <1>5, <1>6, <2>1, Zenon
  <2>3. Ahead(i) \in 0..Len - 1 /\ Ahead(i)' = Ahead(i) - Per /\ Ahead(i) >= Per
    BY <1>2, <1>4, <2>2
  <2>4. slots'[i] = slots[i]
    BY <1>5, <1>6, <2>3, Zenon
  <2>5. Ahead(i) < wait * Per + lead
    BY <2>4, Zenon DEF IInv, DueWasSent
  <2> QED
    BY <1>3, <1>4, <2>3, <2>5
<1>11. SentIsThere' /\ LostMeansGap'
  <2> DEFINE u == Unsent'
  <2>1. u \in 0..Len /\ gap' = u
    BY <1>2, <1>5, Zenon
  <2> HIDE DEF u
  <2>2. (\A d \in 0..u - 1 : ~(u <= d)) /\ u >= u
    BY <1>4, <2>1
  <2> QED
    BY <2>1, <2>2, Zenon DEF SentIsThere, LostMeansGap, u
<1> QED
  BY <1>3, <1>7, <1>8, <1>9, <1>10, <1>11 DEF IInv

\* The station afterwards may be anywhere, and another one.
LEMMA LoseManyIInv == IInv /\ LoseMany => IInv'
<1> SUFFICES ASSUME IInv, LoseMany PROVE IInv'
  OBVIOUS
<1>1. TypeOK
  BY DEF IInv
<1>2. /\ slots' = [i \in Slot |-> IF slots[i] = Empty THEN Empty
                                  ELSE [slots[i] EXCEPT !.of = "missed"]]
      /\ astray' = TRUE /\ doubt' = Len /\ gap' = Unsent' /\ offset' = offset
      /\ avg' \in Avgs /\ wait' \in 0..avg' \div Per /\ pduSeq' \in 0..Seqs - 1
      /\ now' \in Agreed(wait', pduSeq', avg')
      /\ lead' \in 0..Half - 1 /\ split' \in BOOLEAN
  BY Zenon DEF LoseMany
<1>3. trouble' \in 0..MaxTrouble /\ Len \in Nat \ {0} /\ Len \in 0..Len /\ offset \in -1..Len - 1
  BY <1>1, Consts DEF LoseMany, Trouble, TypeOK
<1>4. now' \in Slot
  BY <1>2, AgreedInSlot
<1>5. Unsent' \in 0..Len
  <2> DEFINE wp == wait' * Per + lead' + Bit(split')
  <2>1. wp \in 0..Len
    BY <1>2, UnsentFits
  <2>2. Unsent' = wp
    BY DEF Unsent, Bit
  <2> QED
    BY <2>1, <2>2, Zenon
<1>6. \A i \in Slot : slots[i] \in Kept
  BY <1>1 DEF TypeOK, Kept
<1>7. \A i \in Slot : /\ slots'[i] \in Kept
                      /\ slots'[i] = Empty \/ slots'[i].of = "missed"
                      /\ slots[i] = Empty => slots'[i] = Empty
  <2> SUFFICES ASSUME NEW i \in Slot
               PROVE  /\ slots'[i] \in Kept
                      /\ slots'[i] = Empty \/ slots'[i].of = "missed"
                      /\ slots[i] = Empty => slots'[i] = Empty
    BY Zenon
  <2>1. slots'[i] = IF slots[i] = Empty THEN Empty ELSE [slots[i] EXCEPT !.of = "missed"]
    BY <1>2, Zenon
  <2>2. CASE slots[i] = Empty
    <3>1. Empty \in Kept
      BY DEF Kept
    <3> QED
      BY <2>1, <2>2, <3>1, Zenon
  <2>3. CASE slots[i] # Empty
    BY <1>6, <2>1, <2>3, MissedIs, Zenon
  <2> QED
    BY <2>2, <2>3
<1>8. slots' \in [Slot -> Kept]
  <2>1. slots' = [i \in Slot |-> slots'[i]]
    BY <1>2, Zenon
  <2> QED
    BY <1>7, <2>1, Zenon
<1>9. TypeOK'
  <2>1. astray' \in BOOLEAN /\ doubt' \in 0..Len /\ gap' \in 0..Len /\ offset' \in -1..Len - 1
    BY <1>2, <1>3, <1>5
  <2> QED
    BY <1>2, <1>3, <1>4, <1>8, <2>1, Zenon DEF TypeOK, Kept
<1>10. InStep' /\ EmptyBefore' /\ AstrayDoubts' /\ ReadsNow'
  BY <1>2, <1>7, Zenon DEF IInv, InStep, EmptyBefore, AstrayDoubts, ReadsNow
<1>11. DueBeyondDoubt' /\ DueWasSent'
  <2>1. \A i \in Slot : ~(doubt' <= Ahead(i)')
    <3> SUFFICES ASSUME NEW i \in Slot PROVE ~(doubt' <= Ahead(i)')
      OBVIOUS
    <3> DEFINE x == i - now'
    <3>1. x \in Int /\ Ahead(i)' = x % Len
      BY <1>3, <1>4 DEF Slot, Ahead
    <3> HIDE DEF x
    <3>2. x % Len \in 0..Len - 1
      BY <1>3, <3>1, Division
    <3> QED
      BY <1>2, <1>3, <3>1, <3>2
  <2>2. \A i \in Slot : ~(slots'[i].shape = "full" /\ slots'[i].of = "due")
    <3>1. Empty.shape # "full" /\ "missed" # "due"
      BY DEF Empty
    <3> QED
      BY <1>7, <3>1, Zenon
  <2> QED
    BY <2>1, <2>2, Zenon DEF DueBeyondDoubt, DueWasSent
<1>12. SentIsThere' /\ LostMeansGap'
  <2> DEFINE u == Unsent'
  <2>1. u \in 0..Len /\ gap' = u
    BY <1>2, <1>5, Zenon
  <2> HIDE DEF u
  <2>2. (\A d \in 0..u - 1 : ~(u <= d)) /\ u >= u
    BY <1>3, <2>1
  <2> QED
    BY <2>1, <2>2, Zenon DEF SentIsThere, LostMeansGap, u
<1> QED
  BY <1>9, <1>10, <1>11, <1>12 DEF IInv
\* The larger one of two distances.
LEMMA LargerIs ==
  ASSUME NEW m \in 0..Len, NEW n \in 0..Len
  PROVE  Larger(m, n) \in 0..Len /\ Larger(m, n) >= m /\ Larger(m, n) >= n
  BY Consts DEF Larger

\* A reset empties the buffer.
LEMMA ResetIInv == IInv /\ Reset => IInv'
<1> SUFFICES ASSUME IInv, Reset PROVE IInv'
  OBVIOUS
<1>1. TypeOK /\ InStep
  BY DEF IInv
<1>2. /\ slots' = [i \in Slot |-> Empty] /\ offset' = -1 /\ astray' = FALSE /\ doubt' = 0
      /\ gap' = Larger(gap, Unsent)
      /\ UNCHANGED <<now, avg, wait, pduSeq, lead, split>>
  BY DEF Reset, ResetSlots, station
<1>3. Unsent \in 0..Len /\ gap \in 0..Len /\ Len \in Nat
  BY <1>1, UnsentIs, Consts DEF TypeOK
<1>4. gap' \in 0..Len /\ gap' >= Unsent
  BY <1>2, <1>3, LargerIs
<1>5. trouble' \in 0..MaxTrouble
  BY <1>1, Consts DEF Reset, Trouble, TypeOK
<1>6. slots' \in [Slot -> Kept] /\ \A i \in Slot : slots'[i] = Empty
  BY <1>2 DEF Kept
<1>7. TypeOK'
  <2>1. astray' \in BOOLEAN /\ doubt' \in 0..Len /\ offset' \in -1..Len - 1
    <3>1. 0 \in 0..Len /\ -1 \in -1..Len - 1 /\ FALSE \in BOOLEAN
      BY <1>3
    <3> QED
      BY <1>2, <3>1, Zenon
  <2>2. /\ now' \in Slot /\ avg' \in Avgs /\ wait' \in 0..avg' \div Per
        /\ pduSeq' \in 0..Seqs - 1 /\ lead' \in 0..Half - 1 /\ split' \in BOOLEAN
    BY <1>1, <1>2 DEF TypeOK
  <2> QED
    BY <1>4, <1>5, <1>6, <2>1, <2>2, Zenon DEF TypeOK, Kept
<1>8. InStep'
  BY <1>1, <1>2 DEF InStep
<1>9. EmptyBefore' /\ AstrayDoubts' /\ ReadsNow' /\ DueBeyondDoubt'
  BY <1>2, <1>6 DEF EmptyBefore, AstrayDoubts, ReadsNow, DueBeyondDoubt
<1>10. DueWasSent'
  <2>1. Empty.shape # "full"
    BY DEF Empty
  <2> QED
    BY <1>6, <2>1, Zenon DEF DueWasSent
<1>11. Unsent' = Unsent
  BY <1>2 DEF Unsent, Bit
<1>12. SentIsThere' /\ LostMeansGap'
  <2> DEFINE u == Unsent
             g == gap'
  <2>1. u \in 0..Len /\ g \in 0..Len /\ g >= u
    BY <1>3, <1>4
  <2> HIDE DEF u, g
  <2>2. \A d \in 0..u - 1 : ~(g <= d)
    BY <1>3, <2>1
  <2> QED
    BY <1>11, <2>1, <2>2, Zenon DEF SentIsThere, LostMeansGap, u, g
<1> QED
  BY <1>7, <1>8, <1>9, <1>10, <1>12 DEF IInv

\* A PDU that is lost leaves a gap up to the next one.
LEMMA PduLostIInv == IInv /\ PduLost => IInv'
<1> SUFFICES ASSUME IInv, PduLost PROVE IInv'
  OBVIOUS
<1>1. PICK nextLead \in 0..Half - 1, nextSplit \in BOOLEAN :
        /\ SendPdu(nextLead, nextSplit)
        /\ gap' = Unsent' /\ Trouble
        /\ UNCHANGED <<slots, offset, astray, doubt>>
  BY Zenon DEF PduLost
<1> DEFINE last == Last(nextLead, nextSplit)
<1>2. TypeOK /\ InStep
  BY DEF IInv
<1>3. /\ last \in lead..Len - 1 /\ last \in 0..Len - 1
      /\ last = IF nextSplit THEN nextLead + avg ELSE nextLead + avg - 1
      /\ wait * Per = 0 /\ wait' * Per = avg /\ avg \in Nat
      /\ Unsent' = last + 1 /\ last + 1 \in 0..Len
      /\ wait' \in 0..avg' \div Per /\ pduSeq' \in 0..Seqs - 1
      /\ lead' = nextLead /\ split' = nextSplit /\ now' = now /\ avg' = avg
  BY <1>1, <1>2, SentIs
<1> HIDE DEF last
<1>4. slots' = slots /\ offset' = offset /\ astray' = astray /\ doubt' = doubt
      /\ gap' = last + 1
  BY <1>1, <1>3
<1>5. trouble' \in 0..MaxTrouble
  BY <1>1, <1>2, Consts DEF Trouble, TypeOK
<1>6. \A i \in Slot : Ahead(i) \in 0..Len - 1 /\ Ahead(i)' = Ahead(i)
  <2>1. \A i \in Slot : Ahead(i) \in 0..Len - 1
    BY <1>2, AheadIs DEF TypeOK
  <2>2. \A i \in Slot : Ahead(i)' = Ahead(i)
    BY <1>3 DEF Ahead
  <2> QED
    BY <2>1, <2>2
<1>7. TypeOK'
  BY <1>1, <1>2, <1>3, <1>4, <1>5 DEF TypeOK
<1>8. InStep'
  BY <1>1, <1>2, SendInStep
<1>9. EmptyBefore' /\ AstrayDoubts' /\ ReadsNow'
  BY <1>3, <1>4 DEF IInv, EmptyBefore, AstrayDoubts, ReadsNow
<1>10. DueBeyondDoubt'
  BY <1>4, <1>6, Zenon DEF IInv, DueBeyondDoubt
<1>11. DueWasSent'
  <2> SUFFICES ASSUME NEW i \in Slot, slots[i].shape = "full", slots[i].of = "due"
               PROVE  Ahead(i) < avg + nextLead
    BY <1>3, <1>4, <1>6, Zenon DEF DueWasSent
  <2>1. Ahead(i) < wait * Per + lead
    BY Zenon DEF IInv, DueWasSent
  <2>2. lead \in 0..Half - 1 /\ Len \in Nat /\ Half \in Nat
    BY <1>2, Consts DEF TypeOK
  <2> QED
    BY <1>3, <1>6, <2>1, <2>2
<1>12. SentIsThere' /\ LostMeansGap'
  <2> DEFINE u == Unsent'
  <2>1. u \in 0..Len /\ gap' = u /\ Len \in Nat
    BY <1>3, <1>4, Consts
  <2> HIDE DEF u
  <2>2. (\A d \in 0..u - 1 : ~(u <= d)) /\ u >= u
    BY <2>1
  <2> QED
    BY <2>1, <2>2, Zenon DEF SentIsThere, LostMeansGap, u
<1> QED
  BY <1>7, <1>8, <1>9, <1>10, <1>11, <1>12 DEF IInv

\* A PDU keeps the invariant, received for the first time or in step.
LEMMA PduIInv == IInv /\ Pdu => IInv'
<1> SUFFICES ASSUME IInv, Pdu PROVE IInv'
  OBVIOUS
<1>1. PICK nextLead \in 0..Half - 1, nextSplit \in BOOLEAN :
        Receive(nextLead, nextSplit, {}) /\ UNCHANGED <<gap, trouble>>
  BY Zenon DEF Pdu
<1>2. gap' \in 0..Len /\ trouble' \in 0..MaxTrouble /\ gap' = gap
  BY <1>1 DEF IInv, TypeOK
<1>3. \A d \in 0..Len - 1 : gap' <= d => gap <= d /\ d \notin {}
  BY <1>2
<1> QED
  BY <1>1, <1>2, <1>3, ReceiveIInv

\* So does one with a damaged packet.
LEMMA PduDamagedIInv == IInv /\ PduDamaged => IInv'
<1> SUFFICES ASSUME IInv, PduDamaged PROVE IInv'
  OBVIOUS
<1>1. PICK nextLead \in 0..Half - 1, nextSplit \in BOOLEAN :
        \E r \in lead..Last(nextLead, nextSplit) :
          Receive(nextLead, nextSplit, {r}) /\ gap' = Larger(gap, r + 1) /\ Trouble
  BY Zenon DEF PduDamaged
<1> DEFINE last == Last(nextLead, nextSplit)
<1>2. PICK r \in lead..last :
        Receive(nextLead, nextSplit, {r}) /\ gap' = Larger(gap, r + 1) /\ Trouble
  BY <1>1
<1>3. TypeOK /\ SendPdu(nextLead, nextSplit)
  BY <1>2, Zenon DEF IInv, Receive
<1>4. last \in lead..Len - 1
  BY <1>3, SentIs
<1> HIDE DEF last
<1>5. lead \in Nat /\ Len \in Nat /\ gap \in 0..Len
  BY <1>3, Consts DEF TypeOK
<1>6. r \in Nat /\ r + 1 \in 0..Len
  BY <1>4, <1>5
<1>7. gap' \in 0..Len /\ gap' >= gap /\ gap' >= r + 1
  BY <1>2, <1>5, <1>6, LargerIs
<1>8. \A d \in 0..Len - 1 : gap' <= d => gap <= d /\ d \notin {r}
  BY <1>5, <1>6, <1>7
<1>9. trouble' \in 0..MaxTrouble
  BY <1>2, <1>3, Consts DEF Trouble, TypeOK
<1> QED
  BY <1>2, <1>7, <1>8, <1>9, ReceiveIInv
\* The invariant holds at first.
LEMMA InitIInv == Init => IInv
<1> SUFFICES ASSUME Init PROVE IInv
  OBVIOUS
<1>1. /\ slots = [i \in Slot |-> Empty] /\ offset = -1
      /\ avg \in Avgs /\ wait \in 0..avg \div Per /\ pduSeq \in 0..Seqs - 1
      /\ now \in Agreed(wait, pduSeq, avg) /\ lead \in 0..Half - 1 /\ split \in BOOLEAN
      /\ astray = FALSE /\ doubt = 0 /\ gap = Unsent /\ trouble = 0
  BY DEF Init, AnyStation
<1>2. now \in Slot
  BY <1>1, AgreedInSlot
<1>3. Unsent \in 0..Len
  <2>1. wait * Per + lead + Bit(split) \in 0..Len
    BY <1>1, UnsentFits
  <2> QED
    BY <2>1, Zenon DEF Unsent
<1>4. slots \in [Slot -> Kept] /\ \A i \in Slot : slots[i] = Empty
  BY <1>1 DEF Kept
<1>5. TypeOK
  <2>1. 0 \in 0..Len /\ -1 \in -1..Len - 1 /\ FALSE \in BOOLEAN /\ 0 \in 0..MaxTrouble
    BY Consts
  <2> QED
    BY <1>1, <1>2, <1>3, <1>4, <2>1, Zenon DEF TypeOK, Kept
<1>6. InStep /\ EmptyBefore /\ AstrayDoubts /\ ReadsNow /\ DueBeyondDoubt
  BY <1>1, <1>4, Zenon DEF InStep, EmptyBefore, AstrayDoubts, ReadsNow, DueBeyondDoubt
<1>7. DueWasSent
  <2>1. Empty.shape # "full"
    BY DEF Empty
  <2> QED
    BY <1>4, <2>1, Zenon DEF DueWasSent
<1>8. SentIsThere /\ LostMeansGap
  <2> DEFINE u == Unsent
  <2>1. u \in 0..Len /\ gap = u /\ Len \in Nat
    BY <1>1, <1>3, Consts
  <2> HIDE DEF u
  <2>2. (\A d \in 0..u - 1 : ~(u <= d)) /\ u >= u
    BY <2>1
  <2> QED
    BY <2>1, <2>2, Zenon DEF SentIsThere, LostMeansGap, u
<1> QED
  BY <1>5, <1>6, <1>7, <1>8 DEF IInv

\* A stutter keeps it.
LEMMA StutterIInv == IInv /\ UNCHANGED vars => IInv'
<1> SUFFICES ASSUME IInv, UNCHANGED vars PROVE IInv'
  OBVIOUS
<1>1. UNCHANGED <<slots, offset, now, avg, wait, pduSeq, lead, split, astray, doubt, gap, trouble>>
  BY DEF vars, station
<1>2. TypeOK'
  BY <1>1 DEF IInv, TypeOK
<1>3. Unsent' = Unsent
  BY <1>1 DEF Unsent, Bit
<1>4. \A i \in Slot : Ahead(i)' = Ahead(i)
  BY <1>1 DEF Ahead
<1>5. InStep' /\ EmptyBefore' /\ AstrayDoubts' /\ ReadsNow'
  BY <1>1 DEF IInv, InStep, EmptyBefore, AstrayDoubts, ReadsNow
<1>6. DueBeyondDoubt' /\ DueWasSent'
  BY <1>1, <1>4, Zenon DEF IInv, DueBeyondDoubt, DueWasSent
<1>7. SentIsThere' /\ LostMeansGap'
  BY <1>1, <1>3, Zenon DEF IInv, SentIsThere, LostMeansGap
<1> QED
  BY <1>2, <1>5, <1>6, <1>7 DEF IInv

\* Every step keeps the invariant.
LEMMA NextIInv == IInv /\ [Next]_vars => IInv'
  BY PduIInv, PduDamagedIInv, PduLostIInv, AdvanceIInv, LoseWindowIInv, LoseManyIInv, ResetIInv,
     StutterIInv, Zenon DEF Next

-----------------------------------------------------------------------------
(* What the invariant says of what is heard. *)

\* A window with nothing in doubt, or nothing lost, is read from where it belongs.
LEMMA PlayedIs ==
  ASSUME IInv, offset # -1, ~astray, NEW j \in 0..Per - 1
  PROVE  LET i == (now + j) % Len IN
         /\ i \in Slot /\ Ahead(i) = j
         /\ Played(j) = IF slots[i].shape # "full" \/ ~slots[i].ok THEN "silence"
                        ELSE IF slots[i].of = "due" THEN "due" ELSE "wrong"
<1>1. now \in Slot /\ j \in 0..Len - 1
  BY Consts DEF IInv, TypeOK
<1>2. offset = now
  BY Zenon DEF IInv, ReadsNow
<1>3. (now + j) % Len \in Slot /\ Ahead((now + j) % Len) = j
  BY <1>1, PlaceIs
<1> QED
  BY <1>2, <1>3, Zenon DEF Played

\* The invariant is enough for OnlyDue.
LEMMA OnlyDueIs == IInv => OnlyDue
<1> SUFFICES ASSUME IInv, NEW j \in 0..Per - 1, doubt <= j PROVE Played(j) # "wrong"
  BY Zenon DEF OnlyDue
<1>1. CASE offset = -1
  BY <1>1 DEF Played
<1>2. CASE offset # -1
  <2>1. ~astray
    <3>1. ~(Len <= j)
      BY Consts
    <3> QED
      BY <3>1, Zenon DEF IInv, AstrayDoubts
  <2> DEFINE i == (now + j) % Len
  <2>2. /\ i \in Slot /\ Ahead(i) = j
        /\ Played(j) = IF slots[i].shape # "full" \/ ~slots[i].ok THEN "silence"
                       ELSE IF slots[i].of = "due" THEN "due" ELSE "wrong"
    BY <1>2, <2>1, PlayedIs
  <2> HIDE DEF i
  <2>3. slots[i] = Empty \/ slots[i].of = "due"
    BY <2>2, Zenon DEF IInv, DueBeyondDoubt
  <2>4. Empty.shape # "full"
    BY DEF Empty
  <2> QED
    BY <2>2, <2>3, <2>4
<1> QED
  BY <1>1, <1>2

\* And for NoDropout.
LEMMA NoDropoutIs == IInv => NoDropout
<1> SUFFICES ASSUME IInv, wait > 0, NEW j \in 0..Per - 1, gap <= j PROVE Played(j) = "due"
  BY Zenon DEF NoDropout
<1>1. /\ wait * Per \in Nat /\ Per <= wait * Per /\ lead \in Nat
      /\ Unsent = IF split THEN wait * Per + lead + 1 ELSE wait * Per + lead
  BY UnsentIs, Consts DEF IInv
<1>2. gap \in Nat /\ split \in BOOLEAN /\ Per \in Nat
  BY Consts DEF IInv, TypeOK
<1>3. j \in 0..Unsent - 1 /\ ~(gap >= Unsent) /\ ~(split /\ j = Unsent - 1)
  <2> DEFINE wp == wait * Per
             u == Unsent
  <2>1. wp \in Nat /\ Per <= wp /\ lead \in Nat /\ u = IF split THEN wp + lead + 1 ELSE wp + lead
    BY <1>1
  <2> HIDE DEF wp, u
  <2>2. j \in 0..u - 1 /\ ~(gap >= u) /\ ~(split /\ j = u - 1)
    BY <1>2, <2>1
  <2> QED
    BY <2>2 DEF u
<1>4. offset # -1 /\ ~astray
  BY <1>3, Zenon DEF IInv, LostMeansGap
<1> DEFINE i == (now + j) % Len
<1>5. slots[i] = [shape |-> "full", ok |-> TRUE, of |-> "due"]
  BY <1>3, Zenon DEF IInv, SentIsThere
<1>6. Played(j) = IF slots[i].shape # "full" \/ ~slots[i].ok THEN "silence"
                  ELSE IF slots[i].of = "due" THEN "due" ELSE "wrong"
  BY <1>4, PlayedIs
<1> HIDE DEF i
<1> QED
  BY <1>5, <1>6
\* What DueKept asks of a step.
KeepsDue ==
  \A i \in Slot :
    slots[i].shape = "full" /\ slots[i].of = "due" /\ slots'[i] # slots[i]
      => \/ i \in From(now) /\ now' # now
         \/ astray \/ astray' \/ offset' = -1

\* A PDU's packets all come after the complete ones.
LEMMA ReceiveKeepsDue ==
  ASSUME IInv, NEW nextLead \in 0..Half - 1, NEW nextSplit \in BOOLEAN, NEW bad,
         Receive(nextLead, nextSplit, bad),
         NEW i \in Slot, slots[i].shape = "full", slots[i].of = "due"
  PROVE  slots'[i] = slots[i]
<1> DEFINE last == Last(nextLead, nextSplit)
<1>1. TypeOK /\ SendPdu(nextLead, nextSplit) /\ slots' = Filled(last, nextSplit, bad)
  BY Zenon DEF IInv, Receive
<1>2. last \in 0..Len - 1 /\ wait * Per = 0 /\ lead \in Nat
  BY <1>1, SentIs DEF TypeOK
<1>3. Ahead(i) < wait * Per + lead
  BY Zenon DEF IInv, DueWasSent
<1>4. Ahead(i) < lead
  BY <1>2, <1>3
<1> HIDE DEF last
<1>5. Filled(last, nextSplit, bad)[i] =
        IF Ahead(i) < lead \/ Ahead(i) > last THEN slots[i]
        ELSE Pushed(slots[i], Shape(Ahead(i), last, nextSplit), Ahead(i) \notin bad, "due")
  BY <1>1, <1>2, FilledIs
<1> QED
  BY <1>1, <1>4, <1>5, Zenon

\* output.advance empties no slot but those it plays.
LEMMA AdvanceKeepsDue ==
  ASSUME IInv, Advance, NEW i \in Slot, slots'[i] # slots[i], ~astray
  PROVE  i \in From(now) /\ now' # now
<1>1. TypeOK /\ InStep /\ Tick /\ now \in Slot
  BY DEF IInv, TypeOK, Advance
<1>2. now' # now
  <2>1. now' = (IF now + Per < Len THEN now + Per ELSE now + Per - Len) /\ now \in 0..Len - 1
    BY <1>1, TickInStep DEF Slot
  <2> QED
    BY <2>1, Consts
<1>3. i \in From(now) <=> Ahead(i) < Per
  BY <1>1, FromIs
<1>4. Ahead(i) < Per
  <2> SUFFICES ASSUME ~(Ahead(i) < Per) PROVE FALSE
    OBVIOUS
  <2>1. Ahead(i) >= Per
    BY <1>1, AheadIs, Consts
  <2>2. TooLate[i] = slots[i]
    BY <1>1, <2>1, TooLateIs
  <2>3. i \notin From(now)
    BY <1>3
  <2>4. offset # -1 => offset = now
    BY Zenon DEF IInv, ReadsNow
  <2>5. slots' = Drained
    BY Zenon DEF Advance
  <2>6. slots'[i] = TooLate[i]
    BY <2>3, <2>4, <2>5, Zenon DEF Drained
  <2> QED
    BY <2>2, <2>6, Zenon
<1> QED
  BY <1>2, <1>3, <1>4

\* No step empties a slot before its time.
LEMMA NextKeepsDue == IInv /\ [Next]_vars => [KeepsDue]_vars
<1> SUFFICES ASSUME IInv, Next PROVE KeepsDue
  BY Zenon
<1>1. CASE Pdu \/ PduDamaged
  <2>1. PICK nextLead \in 0..Half - 1, nextSplit \in BOOLEAN :
          \E bad : Receive(nextLead, nextSplit, bad)
    BY <1>1, Zenon DEF Pdu, PduDamaged
  <2> QED
    BY <2>1, ReceiveKeepsDue, Zenon DEF KeepsDue
<1>2. CASE PduLost
  BY <1>2 DEF PduLost, KeepsDue
<1>3. CASE Advance
  BY <1>3, AdvanceKeepsDue, Zenon DEF KeepsDue
<1>4. CASE LoseWindow
  BY <1>4, Zenon DEF LoseWindow, KeepsDue
<1>5. CASE LoseMany
  BY <1>5, Zenon DEF LoseMany, KeepsDue
<1>6. CASE Reset
  BY <1>6, Zenon DEF Reset, KeepsDue
<1> QED
  BY <1>1, <1>2, <1>3, <1>4, <1>5, <1>6, Zenon DEF Next

-----------------------------------------------------------------------------

\* The invariant holds of the whole specification.
THEOREM AlwaysIInv == Spec => []IInv
<1> HIDE DEF IInv
<1> QED
  BY InitIInv, NextIInv, PTL DEF Spec

\* The buffer holds what it can hold, and the read position stays in it.
THEOREM TypeCorrect == Spec => []TypeOK
<1>1. IInv => TypeOK
  BY DEF IInv
<1> HIDE DEF IInv, TypeOK
<1> QED
  BY <1>1, AlwaysIInv, PTL

\* For any size of the buffer, PDU and window: nothing early, late, twice or made of
\* two packets is heard, but for what a slip of the receiver's leaves behind for a turn.
THEOREM HearsOnlyDue == Spec => []OnlyDue
<1> HIDE DEF IInv, OnlyDue
<1> QED
  BY OnlyDueIs, AlwaysIInv, PTL

\* And nothing that was received is missing, whatever the sizes of PDUs and however
\* packets are split between them.
THEOREM HearsAllDue == Spec => []NoDropout
<1> HIDE DEF IInv, NoDropout
<1> QED
  BY NoDropoutIs, AlwaysIInv, PTL

\* No complete packet is overwritten, or skipped, before its time.
THEOREM KeepsWhatIsDue == Spec => DueKept
<1>1. DueKept <=> [][KeepsDue]_vars
  BY DEF DueKept, KeepsDue
<1> HIDE DEF IInv, KeepsDue, DueKept
<1> QED
  BY <1>1, NextKeepsDue, AlwaysIInv, PTL DEF Spec
=============================================================================
