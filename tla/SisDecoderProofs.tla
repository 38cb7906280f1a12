--------------------------- MODULE SisDecoderProofs ---------------------------
(***************************************************************************)
(* Safety of SisDecoder for any number and length of versions, any timeout *)
(* of alerts and any number of troubles.                                   *)
(***************************************************************************)
EXTENDS SisDecoder, TLAPS

\* Sequence numbers are not used again while a station is listened to.
SeqsTell == \A v, w \in Version : v % Seqs = w % Seqs => v = w

\* A buffer that has a sequence number has the frame 0 it came with.
Headed(i) ==
  LET t == text[i] IN
  /\ 0 \in t.have /\ t.buf[0] \in Version /\ t.seq = t.buf[0] % Seqs
  /\ \A f \in t.have : t.buf[f] \in t.buf[0]..cur[i]
  /\ i # "longName" \/ ~lost[i] => t.len = t.buf[0]

\* Without a loss since, all frames there are of its version, and so is what comes
\* before the next frame 0.
Unmixed(i) ==
  LET t == text[i] IN
  ~lost[i] => /\ \A f \in t.have : t.buf[f] = t.buf[0]
              /\ next[i] # 0 => cur[i] = t.buf[0]

\* A text shown is all there, for as long as its version is sent or nothing is lost.
ShownThere(i) ==
  LET t == text[i] IN
  t.shown /\ (~lost[i] \/ cur[i] = t.buf[0]) => 0..Length[t.buf[0]] - 1 \subseteq t.have

\* The buffer of a text with a sequence number.
Sequenced(i) ==
  /\ text[i].seq >= 0 => Headed(i) /\ Unmixed(i) /\ ShownThere(i)
  /\ text[i].seq = -1 => ~text[i].shown /\ (i = "alert" => 0 \notin text[i].have)

TextsSequenced == \A i \in Texts : HasSeq(i) => Sequenced(i)

\* The count of the code is not ahead of the frames that came without one of the alert.
CountedQuiet == text["alert"].shown => alertTimeout <= quiet

\* Frames that are there are of some version, and so is the length.
Present ==
  \A i \in Texts : /\ \A f \in text[i].have : text[i].buf[f] \in Version
                   /\ text[i].seq >= 0 => text[i].len # 0

IInv ==
  /\ TypeOK /\ toldGroup = [g \in DOMAIN Group |-> toldGroup[g]]
  /\ CheckedWhole /\ EventsTellValues /\ CountedQuiet /\ Present

Items == Texts \cup DOMAIN Group
Buffer == [seq: -1..Seqs - 1, have: SUBSET Frame, shown: BOOLEAN,
           buf: [Frame -> Version \cup {0}], len: Version \cup {0}]

USE DEF station

-----------------------------------------------------------------------------

\* What the assumptions say of the constants.
LEMMA Consts ==
  /\ 1 \in Version /\ Version \subseteq Nat \ {0}
  /\ Seqs \in Nat /\ Seqs > 0 /\ Limit \in Nat /\ Limit > 0 /\ MaxTrouble \in Nat
  /\ Most \in Nat /\ Most > 0 /\ \A v \in Version : Length[v] \in 1..Most
<1>1. PICK v \in Version : \A w \in Version : Length[v] >= Length[w]
  BY LengthAssumption
<1>2. Length[v] \in {Length[w] : w \in Version}
  BY <1>1
<1>3. Most \in {Length[w] : w \in Version} /\ \A w \in Version : Most >= Length[w]
  BY <1>1, <1>2 DEF Most
<1> QED
  BY <1>3, LengthAssumption, SisAssumption

\* The frames of a version are frames, and so is the next one.
LEMMA Frames ==
  /\ 0 \in Frame /\ Frame \subseteq Nat
  /\ \A v \in Version : 0..Length[v] - 1 \subseteq Frame
  /\ \A v \in Version : \A f \in Frame : (f + 1) % Length[v] \in Frame
<1>1. ASSUME NEW v \in Version, NEW f \in Frame PROVE (f + 1) % Length[v] \in Frame
  <2>1. f + 1 \in Nat /\ Length[v] \in Nat \ {0} /\ Length[v] <= Most /\ Most \in Nat
    BY Consts DEF Frame
  <2>2. (f + 1) % Length[v] \in 0..Length[v] - 1
    BY <2>1
  <2> QED
    BY <2>1, <2>2 DEF Frame
<1> QED
  BY <1>1, Consts DEF Frame

\* The groups of values that one event reports are apart.
LEMMA Groups ==
  /\ DOMAIN Group = {"stationID", "shortName", "location", "audioService", "leapSecond"}
  /\ \A g \in DOMAIN Group : Group[g] \subseteq Value /\ \E m \in Group[g] : m = m
  /\ \A g, h \in DOMAIN Group : \A m \in Group[g] : m \in Group[h] => g = h
  /\ \A g \in DOMAIN Group : (\E m \in Group[g] : m # "short") \/ Group[g] = {"short"}
<1>1. DOMAIN Group = {"stationID", "shortName", "location", "audioService", "leapSecond"}
  BY DEF Group
<1>2. /\ Group["stationID"] = {"id"} /\ Group["shortName"] = {"short"}
      /\ Group["location"] = {"latitude", "longitude"} /\ Group["audioService"] = {"audio"}
      /\ Group["leapSecond"] = {"leap", "alfnLow", "alfnHigh"}
  BY DEF Group
<1>3. \A g \in DOMAIN Group : Group[g] \subseteq Value
  BY DEF Value
<1> QED
  BY <1>1, <1>2, <1>3

\* An empty buffer is one, and resetting the alert empties its buffer.
LEMMA NoTextIs == NoText \in Buffer /\ ResetAlert = [NoText EXCEPT !.len = text["alert"].len]
  BY Consts DEF NoText, Buffer, ResetAlert

\* The type invariant, spelled out.
LEMMA Typed ==
  ASSUME TypeOK
  PROVE  /\ sends \subseteq Items /\ cur \in [Items -> Version] /\ next \in [Texts -> Frame]
         /\ text \in [Texts -> Buffer] /\ alertTimeout \in 0..Limit - 1
         /\ value \in [Value -> Version \cup {0}] /\ told \in [Texts -> SUBSET Version]
         /\ \A g \in DOMAIN Group : toldGroup[g] \in [Group[g] -> Version \cup {0}]
         /\ quiet \in 0..Limit /\ lost \in [Texts -> BOOLEAN] /\ trouble \in 0..MaxTrouble
         /\ "alert" \in Texts /\ Texts \subseteq Items
  BY DEF TypeOK, Items, Buffer, Texts

\* What a frame of a text does to its buffer.
Put(i, f, v) ==
  LET t == text[i]
      s == Stored(i, f, v)
      new == HasSeq(i) /\ f = 0 /\ v % Seqs # t.seq
  IN  /\ s \in Buffer
      /\ s.seq = IF new THEN v % Seqs ELSE t.seq
      /\ s.have = IF new THEN {f} ELSE t.have \cup {f}
      /\ \A g \in Frame : s.buf[g] = IF g = f THEN v ELSE IF new THEN 0 ELSE t.buf[g]
      /\ s.len = IF f = 0 \/ i = "longName" THEN v ELSE t.len
      /\ s.shown = IF new THEN FALSE ELSE t.shown

\* Storing a frame of a text adds it, or begins anew where frame 0 has another number.
LEMMA StoredIs ==
  ASSUME TypeOK, NEW i \in Texts, NEW f \in Frame, NEW v \in Version
  PROVE  Put(i, f, v)
<1> DEFINE t == text[i]
<1> DEFINE new == HasSeq(i) /\ f = 0 /\ v % Seqs # t.seq
<1> DEFINE base == IF HasSeq(i) THEN NewSequence(t, f, v) ELSE t
<1>1. t \in Buffer
  BY Typed
<1>2. v % Seqs \in 0..Seqs - 1
  BY Consts
<1>3. base = IF new THEN [NoText EXCEPT !.seq = v % Seqs, !.len = t.len] ELSE t
  BY DEF NewSequence
<1>4. CASE new
  <2>1. base = [seq |-> v % Seqs, have |-> {}, buf |-> [g \in Frame |-> 0], len |-> t.len, shown |-> FALSE]
    BY <1>3, <1>4 DEF NoText
  <2>2. Stored(i, f, v) = [base EXCEPT !.buf[f] = v, !.have = @ \cup {f},
                                     !.len = IF f = 0 \/ i = "longName" THEN v ELSE @]
    BY DEF Stored
  <2> HIDE DEF base, t
  <2>3. base \in Buffer
    BY <2>1, <1>1, <1>2 DEF Buffer
  <2>4. Stored(i, f, v) = [seq |-> base.seq, have |-> base.have \cup {f}, shown |-> base.shown,
                           buf |-> [base.buf EXCEPT ![f] = v],
                           len |-> IF f = 0 \/ i = "longName" THEN v ELSE base.len]
    BY <2>2, <2>3 DEF Buffer
  <2>5. /\ base.buf \in [Frame -> Version \cup {0}]
        /\ [base.buf EXCEPT ![f] = v] \in [Frame -> Version \cup {0}]
        /\ \A g \in Frame : [base.buf EXCEPT ![f] = v][g] = IF g = f THEN v ELSE base.buf[g]
    BY <2>3 DEF Buffer
  <2>6. Stored(i, f, v) \in Buffer
    BY <2>3, <2>4, <2>5 DEF Buffer
  <2>7. /\ Stored(i, f, v).seq = base.seq /\ Stored(i, f, v).have = base.have \cup {f}
        /\ Stored(i, f, v).shown = base.shown
        /\ \A g \in Frame : Stored(i, f, v).buf[g] = IF g = f THEN v ELSE base.buf[g]
        /\ Stored(i, f, v).len = IF f = 0 \/ i = "longName" THEN v ELSE base.len
    BY <2>4, <2>5
  <2> HIDE DEF new
  <2>8. /\ base.seq = v % Seqs /\ base.have = {} /\ base.shown = FALSE /\ base.len = t.len
        /\ \A g \in Frame : base.buf[g] = 0
    BY <2>1
  <2> QED
    BY <2>6, <2>7, <2>8, <1>4 DEF t, new, Put
<1>5. CASE ~new
  <2>1. base = t
    BY <1>3, <1>5
  <2>2. Stored(i, f, v) = [base EXCEPT !.buf[f] = v, !.have = @ \cup {f},
                                     !.len = IF f = 0 \/ i = "longName" THEN v ELSE @]
    BY DEF Stored
  <2> HIDE DEF base, t
  <2>3. base \in Buffer
    BY <2>1, <1>1
  <2>4. Stored(i, f, v) = [seq |-> base.seq, have |-> base.have \cup {f}, shown |-> base.shown,
                           buf |-> [base.buf EXCEPT ![f] = v],
                           len |-> IF f = 0 \/ i = "longName" THEN v ELSE base.len]
    BY <2>2, <2>3 DEF Buffer
  <2>5. /\ base.buf \in [Frame -> Version \cup {0}]
        /\ [base.buf EXCEPT ![f] = v] \in [Frame -> Version \cup {0}]
        /\ \A g \in Frame : [base.buf EXCEPT ![f] = v][g] = IF g = f THEN v ELSE base.buf[g]
    BY <2>3 DEF Buffer
  <2>6. Stored(i, f, v) \in Buffer
    BY <2>3, <2>4, <2>5 DEF Buffer
  <2>7. /\ Stored(i, f, v).seq = base.seq /\ Stored(i, f, v).have = base.have \cup {f}
        /\ Stored(i, f, v).shown = base.shown
        /\ \A g \in Frame : Stored(i, f, v).buf[g] = IF g = f THEN v ELSE base.buf[g]
        /\ Stored(i, f, v).len = IF f = 0 \/ i = "longName" THEN v ELSE base.len
    BY <2>4, <2>5
  <2> HIDE DEF new
  <2> QED
    BY <2>6, <2>7, <2>1, <1>5 DEF t, new, Put
<1> QED
  BY <1>4, <1>5

-----------------------------------------------------------------------------

\* A text and the alert after a frame of the text.
Taken(i) == LET t == Stored(i, next[i], cur[i]) IN [t EXCEPT !.shown = @ \/ Completes(i, t)]

\* What a frame makes of the buffer of its text: begun anew, added to or completed.
LEMMA TakenIs ==
  ASSUME TypeOK, NEW i \in Texts
  PROVE  LET t == text[i]
             s == Taken(i)
             new == HasSeq(i) /\ next[i] = 0 /\ cur[i] % Seqs # t.seq
             whole == Completes(i, Stored(i, next[i], cur[i]))
         IN  /\ s \in Buffer
             /\ s.seq = IF new THEN cur[i] % Seqs ELSE t.seq
             /\ s.have = IF new THEN {next[i]} ELSE t.have \cup {next[i]}
             /\ \A g \in Frame : s.buf[g] = IF g = next[i] THEN cur[i] ELSE IF new THEN 0 ELSE t.buf[g]
             /\ s.len = IF next[i] = 0 \/ i = "longName" THEN cur[i] ELSE t.len
             /\ s.shown = ((~new /\ t.shown) \/ whole)
             /\ whole => /\ i \in {"longName", "message"} => s.seq >= 0
                         /\ i \notin {"longName", "message"} => s.len # 0
                         /\ 0..Length[s.len] - 1 \subseteq s.have
                         /\ i \in {"message", "alert"} => VersionsIn(s) = {s.len}
<1> DEFINE st == Stored(i, next[i], cur[i])
<1> DEFINE whole == Completes(i, st)
<1>1. next[i] \in Frame /\ cur[i] \in Version /\ text[i] \in Buffer
  BY Typed
<1>2. st \in Buffer
  BY <1>1, StoredIs DEF Put
<1>3. Taken(i) = [st EXCEPT !.shown = @ \/ whole]
  BY DEF Taken
<1>4. whole \in BOOLEAN
  BY DEF Completes, Started, Passes
<1> HIDE DEF st, whole
<1>5. /\ Taken(i) \in Buffer /\ Taken(i).seq = st.seq /\ Taken(i).have = st.have
      /\ Taken(i).buf = st.buf /\ Taken(i).len = st.len /\ Taken(i).shown = (st.shown \/ whole)
  BY <1>2, <1>3, <1>4 DEF Buffer
<1>6. VersionsIn(Taken(i)) = VersionsIn(st)
  BY <1>5 DEF VersionsIn
<1>7. whole => /\ i \in {"longName", "message"} => st.seq >= 0
               /\ i \notin {"longName", "message"} => st.len # 0
               /\ 0..Length[st.len] - 1 \subseteq st.have
               /\ i \in {"message", "alert"} => VersionsIn(st) = {st.len}
  BY DEF whole, Completes, Started, Passes
<1> DEFINE new == HasSeq(i) /\ next[i] = 0 /\ cur[i] % Seqs # text[i].seq
<1>8. /\ st.seq = IF new THEN cur[i] % Seqs ELSE text[i].seq
      /\ st.have = IF new THEN {next[i]} ELSE text[i].have \cup {next[i]}
      /\ \A g \in Frame : st.buf[g] = IF g = next[i] THEN cur[i] ELSE IF new THEN 0 ELSE text[i].buf[g]
      /\ st.len = IF next[i] = 0 \/ i = "longName" THEN cur[i] ELSE text[i].len
      /\ st.shown = IF new THEN FALSE ELSE text[i].shown
  <2>1. Put(i, next[i], cur[i])
    BY <1>1, StoredIs
  <2> QED
    BY <2>1 DEF Put, st, new
<1>9. Taken(i).shown = ((~new /\ text[i].shown) \/ whole)
  BY <1>5, <1>8, <1>4, <1>1 DEF Buffer
<1> DEFINE k == Taken(i)
<1>10. /\ k.seq = st.seq /\ k.have = st.have /\ k.buf = st.buf /\ k.len = st.len
       /\ VersionsIn(k) = VersionsIn(st) /\ k \in Buffer /\ k.shown = ((~new /\ text[i].shown) \/ whole)
  BY <1>5, <1>6, <1>9
<1> HIDE DEF k, new
<1>11. /\ k \in Buffer
       /\ k.seq = IF new THEN cur[i] % Seqs ELSE text[i].seq
       /\ k.have = IF new THEN {next[i]} ELSE text[i].have \cup {next[i]}
       /\ \A g \in Frame : k.buf[g] = IF g = next[i] THEN cur[i] ELSE IF new THEN 0 ELSE text[i].buf[g]
       /\ k.len = IF next[i] = 0 \/ i = "longName" THEN cur[i] ELSE text[i].len
       /\ k.shown = ((~new /\ text[i].shown) \/ whole)
       /\ whole => /\ i \in {"longName", "message"} => k.seq >= 0
                   /\ i \notin {"longName", "message"} => k.len # 0
                   /\ 0..Length[k.len] - 1 \subseteq k.have
                   /\ i \in {"message", "alert"} => VersionsIn(k) = {k.len}
  BY <1>7, <1>8, <1>10
<1> QED
  BY <1>11 DEF k, new, whole, st

\* What a frame of a text leaves in the decoder.
LEMMA AssembleIs ==
  ASSUME TypeOK, NEW i \in Texts, NEW alert \in {text["alert"], ResetAlert}, Assemble(i, alert)
  PROVE  /\ i \in sends
         /\ next' = [next EXCEPT ![i] = (next[i] + 1) % Length[cur[i]]]
         /\ text' \in [Texts -> Buffer] /\ next' \in [Texts -> Frame]
         /\ text'[i] = Taken(i)
         /\ i # "alert" => text'["alert"] = alert
         /\ \A j \in Texts \ {i, "alert"} : text'[j] = text[j]
         /\ lost' \in [Texts -> BOOLEAN] /\ lost'[i] = (lost[i] /\ next[i] # 0)
         /\ \A j \in Texts \ {i} : lost'[j] = lost[j]
         /\ UNCHANGED <<sends, cur, value, toldGroup, trouble>>
<1>1. /\ next[i] \in Frame /\ cur[i] \in Version /\ text \in [Texts -> Buffer] /\ "alert" \in Texts
      /\ next \in [Texts -> Frame] /\ lost \in [Texts -> BOOLEAN]
  BY Typed
<1>2. alert \in Buffer
  <2>1. ResetAlert \in Buffer
    <3>1. text["alert"].len \in Version \cup {0}
      BY <1>1 DEF Buffer
    <3> QED
      BY <3>1, NoTextIs DEF Buffer
  <2> QED
    BY <2>1, <1>1
<1>3. Taken(i) \in Buffer
  BY TakenIs
<1>4. text' = [text EXCEPT !["alert"] = alert, ![i] = Taken(i)]
  BY DEF Assemble, Taken
<1>5. (next[i] + 1) % Length[cur[i]] \in Frame
  BY <1>1, Frames
<1>6. /\ i \in sends
      /\ next' = [next EXCEPT ![i] = (next[i] + 1) % Length[cur[i]]]
      /\ lost' = [lost EXCEPT ![i] = lost[i] /\ next[i] # 0]
      /\ UNCHANGED <<sends, cur, value, toldGroup, trouble>>
  BY DEF Assemble
<1>7. /\ text' \in [Texts -> Buffer] /\ text'[i] = Taken(i)
      /\ i # "alert" => text'["alert"] = alert
      /\ \A j \in Texts \ {i, "alert"} : text'[j] = text[j]
  BY <1>1, <1>2, <1>3, <1>4
<1> QED
  BY <1>1, <1>5, <1>6, <1>7

\* What is left of an alert after its timeout.
LEMMA ResetAlertIs ==
  ASSUME TypeOK
  PROVE  /\ ResetAlert \in Buffer /\ ResetAlert.seq = -1 /\ ResetAlert.have = {}
         /\ ResetAlert.shown = FALSE /\ ResetAlert.len = text["alert"].len
<1>1. text["alert"].len \in Version \cup {0}
  BY Typed DEF Buffer
<1>2. ResetAlert = [seq |-> -1, have |-> {}, buf |-> [f \in Frame |-> 0],
                    len |-> text["alert"].len, shown |-> FALSE]
  BY NoTextIs DEF NoText
<1>3. -1 \in -1..Seqs - 1
  BY Consts
<1> QED
  BY <1>1, <1>2, <1>3 DEF Buffer

\* What is in the buffer of a text after a frame of it.
LEMMA TakenPresent ==
  ASSUME TypeOK, Present, NEW i \in Texts
  PROVE  /\ \A f \in Taken(i).have : Taken(i).buf[f] \in Version
         /\ Taken(i).seq >= 0 => Taken(i).len # 0
         /\ Completes(i, Stored(i, next[i], cur[i])) => VersionsIn(Taken(i)) \subseteq Version
<1> DEFINE t == text[i]
           k == Taken(i)
           new == HasSeq(i) /\ next[i] = 0 /\ cur[i] % Seqs # text[i].seq
           whole == Completes(i, Stored(i, next[i], cur[i]))
<1>1. /\ k \in Buffer
      /\ k.seq = IF new THEN cur[i] % Seqs ELSE text[i].seq
      /\ k.have = IF new THEN {next[i]} ELSE text[i].have \cup {next[i]}
      /\ \A g \in Frame : k.buf[g] = IF g = next[i] THEN cur[i] ELSE IF new THEN 0 ELSE text[i].buf[g]
      /\ k.len = IF next[i] = 0 \/ i = "longName" THEN cur[i] ELSE text[i].len
      /\ whole => /\ i \in {"longName", "message"} => k.seq >= 0
                  /\ i \notin {"longName", "message"} => k.len # 0
                  /\ 0..Length[k.len] - 1 \subseteq k.have
  BY TakenIs
<1>2. new => next[i] = 0
  OBVIOUS
<1>3. next[i] \in Frame /\ cur[i] \in Version /\ cur[i] # 0 /\ t \in Buffer /\ t.have \subseteq Frame
  BY Typed, Consts DEF Buffer
<1>4. (\A f \in t.have : t.buf[f] \in Version) /\ (t.seq >= 0 => t.len # 0)
  BY DEF Present
<1> HIDE DEF k, new, whole
<1>5. \A f \in k.have : k.buf[f] \in Version
  BY <1>1, <1>3, <1>4 DEF t
<1>6. k.seq >= 0 => k.len # 0
  BY <1>1, <1>2, <1>3, <1>4 DEF t
<1>7. whole => VersionsIn(k) \subseteq Version
  BY <1>1, <1>5, <1>6 DEF VersionsIn
<1> QED
  BY <1>5, <1>6, <1>7 DEF k, whole

\* A frame of a text, with the alert as it was or ended.
LEMMA AssembleKeeps ==
  ASSUME TypeOK, Present, CheckedWhole,
         NEW i \in Texts, NEW alert \in {text["alert"], ResetAlert}, Assemble(i, alert),
         i = "alert" => alert = text["alert"]
  PROVE  told' \in [Texts -> SUBSET Version] /\ Present' /\ CheckedWhole'
<1> DEFINE k == Taken(i)
           whole == Completes(i, Stored(i, next[i], cur[i]))
<1>1. told \in [Texts -> SUBSET Version] /\ "alert" \in Texts /\ text["alert"] \in Buffer
  BY Typed
<1>2. /\ \A f \in k.have : k.buf[f] \in Version
      /\ k.seq >= 0 => k.len # 0
      /\ whole => VersionsIn(k) \subseteq Version
  BY TakenPresent
<1>3. whole /\ i \in {"message", "alert"} => VersionsIn(k) = {k.len}
  BY TakenIs
<1>4. \E S, R :
        /\ told' = [told EXCEPT !["alert"] = S, ![i] = R]
        /\ S \in {{}, told["alert"]}
        /\ \/ R = IF i = "alert" THEN S ELSE told[i]
           \/ whole /\ R = VersionsIn(Stored(i, next[i], cur[i]))
  <2> DEFINE S == IF text["alert"].shown /\ ~alert.shown THEN {} ELSE told["alert"]
             old == IF i = "alert" THEN S ELSE told[i]
             R == IF whole /\ ~Silenced(i) THEN VersionsIn(Stored(i, next[i], cur[i])) ELSE old
  <2> DEFINE T == VersionsIn(Stored(i, next[i], cur[i]))
  <2>2. told' = [told EXCEPT !["alert"] = IF text["alert"].shown /\ ~alert.shown THEN {} ELSE @,
                             ![i] = IF whole /\ ~Silenced(i) THEN T ELSE @]
    BY Zenon DEF Assemble
  <2> HIDE DEF whole, T
  <2>3. CASE i = "alert"
    <3>1. S = told["alert"]
      BY <2>3
    <3>2. told' = [told EXCEPT ![i] = IF whole /\ ~Silenced(i) THEN T ELSE told[i]]
      BY <1>1, <2>2, <2>3, <3>1
    <3> QED
      BY <1>1, <2>3, <3>1, <3>2 DEF T
  <2>4. CASE i # "alert"
    BY <1>1, <2>2, <2>4 DEF T
  <2> QED
    BY <2>3, <2>4
<1>5. VersionsIn(Stored(i, next[i], cur[i])) = VersionsIn(k)
  <2> DEFINE st == Stored(i, next[i], cur[i])
  <2>1. st \in Buffer
    <3>1. next[i] \in Frame /\ cur[i] \in Version
      BY Typed
    <3> QED
      BY <3>1, StoredIs DEF Put
  <2>2. k = [st EXCEPT !.shown = @ \/ whole]
    BY DEF Taken
  <2> HIDE DEF st, k, whole
  <2>3. k.buf = st.buf /\ k.len = st.len
    BY <2>1, <2>2 DEF Buffer
  <2> QED
    BY <2>3 DEF VersionsIn, st
<1> HIDE DEF k, whole
<1>6. /\ told' \in [Texts -> SUBSET Version]
      /\ \A j \in Texts : \/ told'[j] \in {{}, told[j]}
                          \/ j = i /\ whole /\ told'[j] = VersionsIn(k)
  BY <1>1, <1>2, <1>4, <1>5
<1>7. CheckedWhole'
  <2> SUFFICES ASSUME NEW j \in {"message", "alert"}, NEW v \in told'[j], NEW w \in told'[j]
               PROVE  v = w
    BY DEF CheckedWhole
  <2>1. j \in Texts
    BY DEF Texts
  <2>2. CASE told'[j] \in {{}, told[j]}
    BY <2>2 DEF CheckedWhole
  <2>3. CASE j = i /\ whole /\ told'[j] = VersionsIn(k)
    BY <2>3, <1>3
  <2> QED
    BY <1>6, <2>1, <2>2, <2>3
<1>8. Present'
  <2> SUFFICES ASSUME NEW j \in Texts
               PROVE  /\ \A f \in text'[j].have : text'[j].buf[f] \in Version
                      /\ text'[j].seq >= 0 => text'[j].len # 0
    BY DEF Present
  <2>1. /\ text'[i] = k /\ (i # "alert" => text'["alert"] = alert)
        /\ \A m \in Texts \ {i, "alert"} : text'[m] = text[m]
    BY AssembleIs DEF k
  <2>2. /\ \A f \in alert.have : alert.buf[f] \in Version
        /\ alert.seq >= 0 => alert.len # 0
    BY <1>1, ResetAlertIs DEF Present
  <2> QED
    BY <2>1, <2>2, <1>2 DEF Present
<1> QED
  BY <1>6, <1>7, <1>8

-----------------------------------------------------------------------------
(* Every action. *)

\* The invariant holds at first.
LEMMA InitIInv == Init => IInv
<1> SUFFICES ASSUME Init PROVE IInv
  OBVIOUS
<1>1. NoText \in Buffer /\ NoText.have = {} /\ NoText.seq = -1 /\ NoText.shown = FALSE
  BY NoTextIs DEF NoText
<1>2. sends \subseteq Items
  BY SisAssumption DEF Init, Items
<1>3. text = [i \in Texts |-> NoText]
  BY DEF Init
<1>4. TypeOK
  <2>1. cur \in [Items -> Version] /\ next \in [Texts -> Frame]
    BY Consts, Frames DEF Init, Items
  <2>2. text \in [Texts -> Buffer]
    BY <1>1, <1>3
  <2>3. \A g \in DOMAIN Group : toldGroup[g] \in [Group[g] -> Version \cup {0}]
    BY DEF Init
  <2> QED
    BY <1>2, <2>1, <2>2, <2>3, Consts DEF Init, TypeOK, Items, Buffer
<1>5. toldGroup = [g \in DOMAIN Group |-> toldGroup[g]]
  BY DEF Init
<1>6. CheckedWhole
  BY DEF Init, CheckedWhole, Texts
<1>7. EventsTellValues
  <2>1. \A m \in Value : value[m] = 0
    BY DEF Init
  <2> QED
    BY <2>1, Groups DEF EventsTellValues
<1>8. CountedQuiet /\ Present
  BY <1>1, <1>3 DEF CountedQuiet, Present, Texts
<1> QED
  BY <1>4, <1>5, <1>6, <1>7, <1>8 DEF IInv

\* The count of frames without the alert, in the code and outside.
LEMMA FrameCounted ==
  ASSUME TypeOK, CountedQuiet, CountFrame, Quieter, text'["alert"] = AlertAfter
  PROVE  alertTimeout' \in 0..Limit - 1 /\ quiet' \in 0..Limit /\ CountedQuiet'
<1>1. alertTimeout \in 0..Limit - 1 /\ quiet \in 0..Limit /\ Limit \in Nat /\ Limit > 0
  BY Typed, Consts
<1>2. CASE Expires
  <2>1. text'["alert"].shown = FALSE
    BY <1>2, ResetAlertIs DEF AlertAfter
  <2> QED
    BY <1>1, <1>2, <2>1 DEF CountFrame, Quieter, CountedQuiet, Expires
<1>3. CASE ~Expires
  <2>1. text'["alert"] = text["alert"]
    BY <1>3 DEF AlertAfter
  <2> QED
    BY <1>1, <1>3, <2>1 DEF CountFrame, Quieter, CountedQuiet, Expires
<1> QED
  BY <1>2, <1>3

\* After a frame that is none of its own, the alert is what it was, or reset.
LEMMA AlertAfterIs == AlertAfter \in {text["alert"], ResetAlert}
  BY DEF AlertAfter

\* The parts that a frame of a text leaves alone, and the others.
LEMMA AssembleIInv ==
  ASSUME IInv, NEW i \in Texts, NEW alert \in {text["alert"], ResetAlert}, Assemble(i, alert),
         i = "alert" => alert = text["alert"],
         alertTimeout' \in 0..Limit - 1, quiet' \in 0..Limit, CountedQuiet'
  PROVE  IInv'
<1>1. TypeOK /\ toldGroup = [g \in DOMAIN Group |-> toldGroup[g]]
      /\ CheckedWhole /\ EventsTellValues /\ Present
  BY DEF IInv
<1>2. told' \in [Texts -> SUBSET Version] /\ Present' /\ CheckedWhole'
  BY <1>1, AssembleKeeps
<1>3. /\ text' \in [Texts -> Buffer] /\ next' \in [Texts -> Frame] /\ lost' \in [Texts -> BOOLEAN]
      /\ UNCHANGED <<sends, cur, value, toldGroup, trouble>>
  BY <1>1, AssembleIs
<1>4. TypeOK'
  BY <1>1, <1>2, <1>3 DEF TypeOK, Buffer
<1>5. EventsTellValues' /\ toldGroup' = [g \in DOMAIN Group |-> toldGroup'[g]]
  BY <1>1, <1>3 DEF EventsTellValues
<1> QED
  BY <1>2, <1>4, <1>5 DEF IInv

\* A frame of a text keeps the invariant.
LEMMA TextFrameIInv == ASSUME IInv, NEW i \in Texts, TextFrame(i) PROVE IInv'
<1>1. TypeOK /\ CountedQuiet /\ AlertAfter \in {text["alert"], ResetAlert}
  BY AlertAfterIs DEF IInv
<1>2. i # "alert" /\ Assemble(i, AlertAfter) /\ CountFrame /\ Quieter
  BY DEF TextFrame
<1>3. text'["alert"] = AlertAfter
  <2> DEFINE a == AlertAfter
  <2>1. a \in {text["alert"], ResetAlert} /\ Assemble(i, a)
    BY <1>1, <1>2
  <2> HIDE DEF a
  <2>2. text'["alert"] = a
    BY <1>1, <1>2, <2>1, AssembleIs
  <2> QED
    BY <2>2 DEF a
<1>4. alertTimeout' \in 0..Limit - 1 /\ quiet' \in 0..Limit /\ CountedQuiet'
  BY <1>1, <1>2, <1>3, FrameCounted
<1> DEFINE a == AlertAfter
<1>5. a \in {text["alert"], ResetAlert} /\ Assemble(i, a)
  BY <1>1, <1>2
<1> HIDE DEF a
<1> QED
  BY <1>2, <1>4, <1>5, AssembleIInv

\* A frame of the alert does, and begins its time anew.
LEMMA AlertFrameIInv == ASSUME IInv, AlertFrame PROVE IInv'
<1>1. TypeOK /\ "alert" \in Texts
  BY DEF IInv, Texts
<1>2. Assemble("alert", text["alert"]) /\ alertTimeout' = 0 /\ quiet' = 0
  BY DEF AlertFrame, RestartCount
<1>3. alertTimeout' \in 0..Limit - 1 /\ quiet' \in 0..Limit /\ CountedQuiet'
  BY <1>2, Consts DEF CountedQuiet
<1> DEFINE a == text["alert"]
           i == "alert"
<1>4. a \in {text["alert"], ResetAlert} /\ Assemble(i, a) /\ i \in Texts /\ (i = "alert" => a = text["alert"])
  BY <1>1, <1>2
<1> HIDE DEF a, i
<1> QED
  BY <1>3, <1>4, AssembleIInv

\* What a frame that is of no text leaves of texts and alert.
LEMMA OtherIs ==
  ASSUME IInv, Other, UNCHANGED <<station, lost, trouble>>
  PROVE  /\ text' \in [Texts -> Buffer] /\ told' \in [Texts -> SUBSET Version]
         /\ text'["alert"] = AlertAfter /\ \A i \in Texts \ {"alert"} : text'[i] = text[i]
         /\ alertTimeout' \in 0..Limit - 1 /\ quiet' \in 0..Limit
         /\ CountedQuiet' /\ Present' /\ CheckedWhole'
<1>1. /\ TypeOK /\ CountedQuiet /\ Present /\ CheckedWhole
      /\ text \in [Texts -> Buffer] /\ told \in [Texts -> SUBSET Version] /\ "alert" \in Texts
  BY Typed DEF IInv
<1>2. /\ AlertAfter \in Buffer /\ (AlertAfter = text["alert"] \/ (AlertAfter.have = {} /\ AlertAfter.seq = -1))
  BY <1>1, ResetAlertIs DEF AlertAfter
<1>3. /\ text' \in [Texts -> Buffer] /\ text'["alert"] = AlertAfter
      /\ \A i \in Texts \ {"alert"} : text'[i] = text[i]
  BY <1>1, <1>2 DEF Other
<1>4. /\ told' \in [Texts -> SUBSET Version]
      /\ \A i \in Texts : told'[i] \in {{}, told[i]}
  BY <1>1 DEF Other
<1>5. alertTimeout' \in 0..Limit - 1 /\ quiet' \in 0..Limit /\ CountedQuiet'
  BY <1>1, <1>3, FrameCounted DEF Other
<1>6. Present'
  BY <1>1, <1>2, <1>3 DEF Present
<1>7. CheckedWhole'
  BY <1>1, <1>4 DEF CheckedWhole, Texts
<1> QED
  BY <1>3, <1>4, <1>5, <1>6, <1>7

\* A value that changed is told with its group, and the other groups stay as told.
LEMMA ValueFrameIInv ==
  ASSUME IInv, NEW g \in DOMAIN Group, NEW m \in Group[g], ValueFrame(g, m) PROVE IInv'
<1>1. /\ TypeOK /\ toldGroup = [h \in DOMAIN Group |-> toldGroup[h]] /\ EventsTellValues
      /\ m \in Value /\ cur[g] \in Version /\ cur[g] # 0 /\ value \in [Value -> Version \cup {0}]
      /\ \A h \in DOMAIN Group : toldGroup[h] \in [Group[h] -> Version \cup {0}]
  BY Typed, Groups, Consts DEF IInv, Items
<1> DEFINE new == [value EXCEPT ![m] = cur[g]]
<1>2. /\ value' = new /\ toldGroup' = [toldGroup EXCEPT ![g] = Reported(g, m, new)]
      /\ Other /\ UNCHANGED <<station, lost, trouble>>
  BY DEF ValueFrame
<1>3. /\ text' \in [Texts -> Buffer] /\ told' \in [Texts -> SUBSET Version]
      /\ alertTimeout' \in 0..Limit - 1 /\ quiet' \in 0..Limit
      /\ CountedQuiet' /\ Present' /\ CheckedWhole'
  BY <1>2, OtherIs
<1>4. /\ new \in [Value -> Version \cup {0}] /\ new[m] = cur[g]
      /\ \A n \in Value \ {m} : new[n] = value[n]
  BY <1>1
<1> HIDE DEF new
<1>5. /\ toldGroup' = [h \in DOMAIN Group |-> toldGroup'[h]]
      /\ toldGroup'[g] = Reported(g, m, new) /\ \A h \in DOMAIN Group \ {g} : toldGroup'[h] = toldGroup[h]
  BY <1>1, <1>2
<1>6. Reported(g, m, new) = IF new[m] # value[m] /\ \A n \in Group[g] : new[n] # 0
                            THEN [n \in Group[g] |-> new[n]] ELSE toldGroup[g]
  BY DEF Reported
<1>7. \A h \in DOMAIN Group : toldGroup'[h] \in [Group[h] -> Version \cup {0}]
  <2>1. [n \in Group[g] |-> new[n]] \in [Group[g] -> Version \cup {0}]
    BY <1>4, Groups
  <2> QED
    BY <1>1, <1>5, <1>6, <2>1
<1>8. TypeOK'
  BY <1>1, <1>2, <1>3, <1>4, <1>7 DEF TypeOK, Buffer
<1>9. EventsTellValues'
  <2> SUFFICES ASSUME NEW h \in DOMAIN Group, \A n \in Group[h] : new[n] # 0, NEW n \in Group[h]
               PROVE  toldGroup'[h][n] = new[n]
    BY <1>2 DEF EventsTellValues
  <2>1. CASE h # g
    <3>1. \A k \in Group[h] : new[k] = value[k]
      BY <2>1, <1>4, Groups
    <3> QED
      BY <2>1, <3>1, <1>1, <1>5 DEF EventsTellValues
  <2>2. CASE h = g /\ new[m] # value[m]
    BY <2>2, <1>5, <1>6
  <2>3. CASE h = g /\ new[m] = value[m]
    <3>1. \A k \in Group[h] : new[k] = value[k]
      BY <2>3, <1>4, Groups
    <3> QED
      BY <2>3, <3>1, <1>1, <1>5, <1>6 DEF EventsTellValues
  <2> QED
    BY <2>1, <2>2, <2>3
<1> QED
  BY <1>3, <1>5, <1>8, <1>9 DEF IInv

\* A frame of something else does, and may end the alert.
LEMMA OtherFrameIInv == ASSUME IInv, OtherFrame PROVE IInv'
<1>1. TypeOK /\ EventsTellValues /\ toldGroup = [h \in DOMAIN Group |-> toldGroup[h]]
  BY DEF IInv
<1>2. Other /\ UNCHANGED <<station, value, toldGroup, lost, trouble>>
  BY DEF OtherFrame
<1>3. /\ text' \in [Texts -> Buffer] /\ told' \in [Texts -> SUBSET Version]
      /\ alertTimeout' \in 0..Limit - 1 /\ quiet' \in 0..Limit
      /\ CountedQuiet' /\ Present' /\ CheckedWhole'
  BY <1>2, OtherIs
<1>4. TypeOK'
  BY <1>1, <1>2, <1>3 DEF TypeOK, Buffer
<1> QED
  BY <1>1, <1>2, <1>3, <1>4 DEF IInv, EventsTellValues

\* What leaves texts, values and what was told alone leaves the invariant.
LEMMA Untouched ==
  ASSUME IInv, UNCHANGED <<text, alertTimeout, value, told, toldGroup, quiet>>, TypeOK'
  PROVE  IInv'
  BY Groups DEF IInv, CheckedWhole, EventsTellValues, CountedQuiet, Present

\* The station changes what it sends; the receiver knows nothing of it.
LEMMA ChangeIInv == ASSUME IInv, NEW i \in DOMAIN cur, Change(i) PROVE IInv'
<1>1. TypeOK /\ cur \in [Items -> Version]
  BY Typed DEF IInv
<1>2. cur' \in [Items -> Version]
  BY <1>1 DEF Change
<1>3. TypeOK'
  BY <1>1, <1>2 DEF Change, TypeOK, Items
<1> QED
  BY <1>3, Untouched DEF Change

\* It stops its alert.
LEMMA StopAlertIInv == ASSUME IInv, StopAlert PROVE IInv'
<1>1. TypeOK'
  BY DEF IInv, StopAlert, TypeOK
<1> QED
  BY <1>1, Untouched DEF StopAlert

\* A frame is lost.
LEMMA LoseFrameIInv == ASSUME IInv, NEW i \in Texts, LoseFrame(i) PROVE IInv'
<1>1. /\ TypeOK /\ next \in [Texts -> Frame] /\ cur[i] \in Version /\ lost \in [Texts -> BOOLEAN]
      /\ trouble \in 0..MaxTrouble
  BY Typed DEF IInv
<1>2. (next[i] + 1) % Length[cur[i]] \in Frame
  BY <1>1, Frames
<1>3. next' \in [Texts -> Frame] /\ lost' \in [Texts -> BOOLEAN]
  BY <1>1, <1>2 DEF LoseFrame
<1>4. trouble' \in 0..MaxTrouble
  BY <1>1, Consts DEF LoseFrame, Trouble
<1>5. TypeOK'
  BY <1>1, <1>3, <1>4 DEF LoseFrame, TypeOK
<1> QED
  BY <1>5, Untouched DEF LoseFrame

\* What reset leaves of a text: the frames of some, but no number and nothing shown.
LEMMA ResetTextIs ==
  ASSUME TypeOK, NEW i \in Texts
  PROVE  /\ ResetText(i) \in Buffer /\ ResetText(i).seq = -1 /\ ResetText(i).shown = FALSE
         /\ i # "alert" => ResetText(i).have = text[i].have /\ ResetText(i).buf = text[i].buf
         /\ i = "alert" => ResetText(i).have = {}
<1>1. text[i] \in Buffer /\ -1 \in -1..Seqs - 1
  BY Typed, Consts
<1>2. CASE i = "alert"
  BY <1>2, ResetAlertIs DEF ResetText
<1>3. CASE i # "alert"
  BY <1>1, <1>3 DEF ResetText, Buffer
<1> QED
  BY <1>2, <1>3

\* reset keeps the invariant.
LEMMA ResetIInv == ASSUME IInv, Reset PROVE IInv'
<1>1. /\ TypeOK /\ CheckedWhole /\ EventsTellValues /\ Present
      /\ toldGroup = [h \in DOMAIN Group |-> toldGroup[h]]
      /\ cur \in [Items -> Version] /\ value \in [Value -> Version \cup {0}] /\ trouble \in 0..MaxTrouble
      /\ "alert" \in Texts
  BY Typed DEF IInv
<1>2. text' = [i \in Texts |-> ResetText(i)] /\ alertTimeout' = 0 /\ value' = ResetValues
  BY DEF Reset
<1>3. text' \in [Texts -> Buffer]
  BY <1>1, <1>2, ResetTextIs
<1>4. cur' \in [Items -> Version]
  BY <1>1 DEF Reset
<1>5. /\ \A m \in Value : value'[m] = IF m = "short" THEN value[m] ELSE 0
      /\ value' \in [Value -> Version \cup {0}]
  BY <1>1, <1>2 DEF ResetValues
<1>6. trouble' \in 0..MaxTrouble /\ UNCHANGED <<sends, told, toldGroup, quiet, lost>>
  BY <1>1, Consts DEF Reset, Trouble
<1>7. next' \in [Texts -> Frame]
  BY DEF Reset
<1>8. TypeOK'
  BY <1>1, <1>2, <1>3, <1>4, <1>5, <1>6, <1>7, Consts DEF TypeOK, Buffer, Items
<1>9. EventsTellValues'
  <2> SUFFICES ASSUME NEW g \in DOMAIN Group, \A m \in Group[g] : value'[m] # 0, NEW m \in Group[g]
               PROVE  toldGroup'[g][m] = value'[m]
    BY DEF EventsTellValues
  <2>1. Group[g] = {"short"}
    BY <1>5, Groups
  <2>2. value'["short"] = value["short"]
    BY <1>5, <2>1, Groups
  <2> QED
    BY <1>1, <1>6, <2>1, <2>2 DEF EventsTellValues
<1>10. CountedQuiet'
  BY <1>1, <1>2, ResetTextIs DEF CountedQuiet
<1>11. Present'
  <2> SUFFICES ASSUME NEW i \in Texts
               PROVE  /\ \A f \in ResetText(i).have : ResetText(i).buf[f] \in Version
                      /\ ResetText(i).seq >= 0 => ResetText(i).len # 0
    BY <1>2 DEF Present
  <2> DEFINE r == ResetText(i)
  <2>1. /\ r.seq = -1 /\ (i = "alert" => r.have = {})
        /\ i # "alert" => r.have = text[i].have /\ r.buf = text[i].buf
    BY <1>1, ResetTextIs
  <2>2. \A f \in text[i].have : text[i].buf[f] \in Version
    BY <1>1 DEF Present
  <2> HIDE DEF r
  <2>3. (\A f \in r.have : r.buf[f] \in Version) /\ (r.seq >= 0 => r.len # 0)
    BY <2>1, <2>2
  <2> QED
    BY <2>3 DEF r
<1>12. CheckedWhole' /\ toldGroup' = [h \in DOMAIN Group |-> toldGroup'[h]]
  BY <1>1, <1>6 DEF CheckedWhole
<1> QED
  BY <1>8, <1>9, <1>10, <1>11, <1>12 DEF IInv

\* Every step keeps the invariant.
LEMMA NextIInv == IInv /\ [Next]_vars => IInv'
<1> SUFFICES ASSUME IInv, [Next]_vars PROVE IInv'
  OBVIOUS
<1>1. CASE UNCHANGED vars
  <2>1. TypeOK'
    BY <1>1 DEF vars, IInv, TypeOK
  <2> QED
    BY <1>1, <2>1, Untouched DEF vars
<1> QED
  BY <1>1, TextFrameIInv, LoseFrameIInv, AlertFrameIInv, OtherFrameIInv, StopAlertIInv, ResetIInv,
     ValueFrameIInv, ChangeIInv DEF Next

\* The invariant always holds.
LEMMA AlwaysIInv == Spec => []IInv
  BY InitIInv, NextIInv, PTL DEF Spec

-----------------------------------------------------------------------------
(* Texts with sequence numbers. *)

\* Which texts have sequence numbers.
LEMMA SequencedTexts ==
  /\ \A i \in Texts : HasSeq(i) <=> i \in {"longName", "message", "alert"}
  /\ \A i \in Texts : TypeOK => text[i].seq \in -1..Seqs - 1 /\ text[i].have \subseteq Frame
  BY Typed DEF HasSeq, Buffer

\* A frame of the text that is taken, under the number of the buffer or with a new one.
LEMMA TakenSequenced ==
  ASSUME SeqsTell, IInv, TextsSequenced, NEW i \in Texts, HasSeq(i),
         text'[i] = Taken(i), lost'[i] = (lost[i] /\ next[i] # 0), cur' = cur,
         next'[i] = (next[i] + 1) % Length[cur[i]]
  PROVE  Sequenced(i)'
<1> DEFINE t == text[i]
           k == Taken(i)
           f == next[i]
           c == cur[i]
           new == HasSeq(i) /\ next[i] = 0 /\ cur[i] % Seqs # text[i].seq
           whole == Completes(i, Stored(i, next[i], cur[i]))
<1>1. /\ k \in Buffer
      /\ k.seq = IF new THEN c % Seqs ELSE t.seq
      /\ k.have = IF new THEN {f} ELSE t.have \cup {f}
      /\ \A g \in Frame : k.buf[g] = IF g = f THEN c ELSE IF new THEN 0 ELSE t.buf[g]
      /\ k.len = IF f = 0 \/ i = "longName" THEN c ELSE t.len
      /\ k.shown <=> (~new /\ t.shown) \/ whole
      /\ whole => /\ i \in {"longName", "message"} => k.seq >= 0
                  /\ i \notin {"longName", "message"} => k.len # 0
                  /\ 0..Length[k.len] - 1 \subseteq k.have
  BY TakenIs DEF IInv
<1>2. /\ f \in Frame /\ 0 \in Frame /\ c \in Version /\ c \in Nat /\ c % Seqs \in 0..Seqs - 1
      /\ t \in Buffer /\ t.seq \in -1..Seqs - 1 /\ t.have \subseteq Frame /\ Seqs \in Nat
      /\ i \in {"longName", "message", "alert"}
  BY Typed, Frames, Consts, SequencedTexts DEF IInv, Buffer, Items
<1>3. /\ t.seq >= 0 => Headed(i) /\ Unmixed(i) /\ ShownThere(i)
      /\ t.seq = -1 => ~t.shown /\ (i = "alert" => 0 \notin t.have)
  BY DEF TextsSequenced, Sequenced
<1>4. new <=> f = 0 /\ c % Seqs # t.seq
  OBVIOUS
<1>5. c % Seqs = t.seq => t.seq >= 0 /\ c = t.buf[0]
  <2>1. c % Seqs = t.seq => t.seq >= 0
    BY <1>2
  <2>2. t.seq >= 0 => t.buf[0] \in Version /\ t.seq = t.buf[0] % Seqs
    BY <1>3 DEF Headed
  <2> QED
    BY <2>1, <2>2, <1>2, SeqsTell DEF SeqsTell
<1>6. /\ text'[i] = k /\ (lost'[i] <=> lost[i] /\ f # 0) /\ cur'[i] = c
  OBVIOUS
<1>7. next'[i] # 0 => TRUE
  OBVIOUS
<1> HIDE DEF t, k, f, c, new, whole
<1>8. Sequenced(i)' <=>
        /\ k.seq >= 0 =>
             /\ /\ 0 \in k.have /\ k.buf[0] \in Version /\ k.seq = k.buf[0] % Seqs
                /\ \A g \in k.have : k.buf[g] \in k.buf[0]..c
                /\ i # "longName" \/ ~(lost[i] /\ f # 0) => k.len = k.buf[0]
             /\ ~(lost[i] /\ f # 0) => /\ \A g \in k.have : k.buf[g] = k.buf[0]
                                       /\ next'[i] # 0 => c = k.buf[0]
             /\ k.shown /\ (~(lost[i] /\ f # 0) \/ c = k.buf[0]) => 0..Length[k.buf[0]] - 1 \subseteq k.have
        /\ k.seq = -1 => ~k.shown /\ (i = "alert" => 0 \notin k.have)
  BY <1>6 DEF Sequenced, Headed, Unmixed, ShownThere
<1>9. CASE new
  <2>1. /\ k.seq = c % Seqs /\ k.have = {0} /\ k.buf[0] = c /\ k.len = c /\ f = 0
        /\ k.shown <=> whole
    <3>1. f = 0
      BY <1>4, <1>9
    <3>2. k.seq = c % Seqs /\ k.have = {f} /\ k.len = c /\ (k.shown <=> whole)
      BY <1>1, <1>9, <3>1
    <3>3. k.buf[0] = c
      BY <1>1, <1>2, <3>1
    <3> QED
      BY <3>1, <3>2, <3>3
  <2>2. k.shown => 0..Length[c] - 1 \subseteq k.have
    BY <1>1, <2>1
  <2> QED
    BY <1>2, <1>8, <2>1, <2>2
<1>10. CASE ~new
  <2>1. /\ k.seq = t.seq /\ k.have = t.have \cup {f} /\ (k.shown <=> t.shown \/ whole)
        /\ \A g \in Frame : k.buf[g] = IF g = f THEN c ELSE t.buf[g]
    BY <1>1, <1>2, <1>10
  <2>2. f = 0 => t.seq >= 0 /\ c = t.buf[0]
    BY <1>4, <1>5, <1>10
  <2>3. CASE t.seq = -1
    <3>1. f # 0 /\ ~t.shown /\ (i = "alert" => 0 \notin k.have)
      BY <1>3, <2>1, <2>2, <2>3
    <3>2. ~whole
      <4>1. CASE i \in {"longName", "message"}
        BY <1>1, <2>1, <2>3, <4>1
      <4>2. CASE i = "alert"
        <5> SUFFICES ASSUME whole PROVE FALSE
          OBVIOUS
        <5>1. k.len # 0 /\ 0..Length[k.len] - 1 \subseteq k.have /\ k.len \in Version \cup {0}
          BY <1>1, <4>2 DEF Buffer
        <5>2. 0 \in 0..Length[k.len] - 1
          <6>1. k.len \in Version
            BY <5>1
          <6>2. Length[k.len] \in 1..Most /\ Most \in Nat
            BY <6>1, Consts
          <6> QED
            BY <6>2
        <5> QED
          BY <3>1, <4>2, <5>1, <5>2
      <4> QED
        BY <1>2, <4>1, <4>2
    <3> QED
      <4>1. k.seq = -1 /\ ~k.shown
        BY <2>1, <2>3, <3>1, <3>2
      <4> QED
        BY <1>8, <3>1, <4>1
  <2>4. CASE t.seq >= 0
    <3>1. /\ 0 \in t.have /\ t.buf[0] \in Version /\ t.seq = t.buf[0] % Seqs
          /\ \A g \in t.have : t.buf[g] \in t.buf[0]..c
          /\ i # "longName" \/ ~lost[i] => t.len = t.buf[0]
          /\ ~lost[i] => /\ \A g \in t.have : t.buf[g] = t.buf[0]
                         /\ f # 0 => c = t.buf[0]
          /\ t.shown /\ (~lost[i] \/ c = t.buf[0]) => 0..Length[t.buf[0]] - 1 \subseteq t.have
      BY <1>3, <2>4 DEF Headed, Unmixed, ShownThere, t, c, f
    <3>2. k.buf[0] = t.buf[0] /\ 0 \in k.have
      BY <1>2, <2>1, <2>2, <3>1
    <3>3. t.buf[0] \in Nat /\ t.buf[0] <= c
      BY <1>2, <3>1, Consts
    <3>4. \A g \in k.have : k.buf[g] \in k.buf[0]..c
      BY <1>2, <2>1, <3>1, <3>2, <3>3
    <3>5. ~(lost[i] /\ f # 0) => c = t.buf[0]
      BY <2>2, <3>1
    <3>6. c = t.buf[0] => \A g \in k.have : k.buf[g] = k.buf[0]
      BY <3>2, <3>3, <3>4, <1>2
    <3>7. i # "longName" \/ ~(lost[i] /\ f # 0) => k.len = k.buf[0]
      BY <1>1, <2>2, <3>1, <3>2, <3>5
    <3>8. c = t.buf[0] /\ k.shown => 0..Length[k.buf[0]] - 1 \subseteq k.have
      <4>1. CASE t.shown
        BY <4>1, <2>1, <3>1, <3>2
      <4>2. CASE whole /\ c = t.buf[0]
        <5>1. k.len = k.buf[0]
          BY <1>1, <1>2, <3>1, <3>2, <4>2
        <5> QED
          BY <1>1, <4>2, <5>1
      <4> QED
        BY <2>1, <4>1, <4>2
    <3> QED
      BY <1>8, <2>1, <2>4, <3>1, <3>2, <3>4, <3>5, <3>6, <3>7, <3>8
  <2> QED
    BY <1>2, <2>3, <2>4
<1> QED
  BY <1>9, <1>10

\* A text of which no frame comes: its buffer stays or is emptied, the station may
\* go on to another version, at a frame 0, and frames may be lost.
LEMMA KeptSequenced ==
  ASSUME IInv, TextsSequenced, NEW i \in Texts, HasSeq(i), cur'[i] \in Nat,
         text'[i] = text[i] /\ cur[i] <= cur'[i],
         lost[i] => lost'[i],
         ~lost'[i] /\ next'[i] # 0 => next[i] # 0 /\ cur'[i] = cur[i]
  PROVE  Sequenced(i)'
<1> DEFINE t == text[i]
<1>1. /\ t.seq >= 0 => Headed(i) /\ Unmixed(i) /\ ShownThere(i)
      /\ t.seq = -1 => ~t.shown /\ (i = "alert" => 0 \notin t.have)
  BY DEF TextsSequenced, Sequenced
<1>2. CASE t.seq >= 0
  <2>1. /\ 0 \in t.have /\ t.buf[0] \in Version /\ t.seq = t.buf[0] % Seqs
        /\ \A g \in t.have : t.buf[g] \in t.buf[0]..cur[i]
        /\ i # "longName" \/ ~lost[i] => t.len = t.buf[0]
        /\ ~lost[i] => /\ \A g \in t.have : t.buf[g] = t.buf[0]
                       /\ next[i] # 0 => cur[i] = t.buf[0]
        /\ t.shown /\ (~lost[i] \/ cur[i] = t.buf[0]) => 0..Length[t.buf[0]] - 1 \subseteq t.have
    BY <1>1, <1>2 DEF Headed, Unmixed, ShownThere
  <2>2. cur[i] \in Nat /\ t.buf[0] \in Nat /\ t.buf[0] <= cur[i]
    BY <2>1, Typed, Consts DEF IInv, Items
  <2>3. cur'[i] = t.buf[0] => cur[i] = t.buf[0]
    BY <2>2
  <2>4. \A g \in t.have : t.buf[g] \in t.buf[0]..cur'[i]
    BY <2>1, <2>2
  <2> HIDE DEF t
  <2>5. Headed(i)' /\ Unmixed(i)' /\ ShownThere(i)'
    BY <2>1, <2>3, <2>4 DEF Headed, Unmixed, ShownThere, t
  <2> QED
    BY <1>2, <2>5 DEF Sequenced, t
<1>3. CASE ~(t.seq >= 0)
  BY <1>1, <1>3 DEF Sequenced
<1> QED
  BY <1>2, <1>3

\* A text without a number that is not shown is in order.
LEMMA EmptiedSequenced ==
  ASSUME NEW i \in Texts, text'[i].seq = -1, text'[i].shown = FALSE,
         i = "alert" => text'[i].have = {}
  PROVE  Sequenced(i)'
  BY DEF Sequenced

\* No text has a number at first.
LEMMA InitSequenced == Init => TextsSequenced
<1> SUFFICES ASSUME Init, NEW i \in Texts PROVE Sequenced(i)
  BY DEF TextsSequenced
<1>1. text[i] = NoText
  BY DEF Init
<1>2. NoText.seq = -1 /\ NoText.shown = FALSE /\ NoText.have = {}
  BY DEF NoText
<1> QED
  BY <1>1, <1>2 DEF Sequenced

\* Every step keeps the frames of a numbered text to one version, while versions have numbers of their own.
LEMMA NextSequenced ==
  ASSUME SeqsTell PROVE IInv /\ TextsSequenced /\ [Next]_vars => TextsSequenced'
<1> SUFFICES ASSUME IInv, TextsSequenced, [Next]_vars, NEW j \in Texts, HasSeq(j)
             PROVE  Sequenced(j)'
  <2>1. \A j : HasSeq(j)' = HasSeq(j)
    BY DEF HasSeq
  <2> QED
    BY <2>1 DEF TextsSequenced
<1>1. /\ TypeOK /\ "alert" \in Texts /\ cur \in [Items -> Version] /\ j \in Items
      /\ lost \in [Texts -> BOOLEAN] /\ next \in [Texts -> Frame]
  BY Typed DEF IInv
<1>2. cur[j] \in Nat
  BY <1>1, Consts
\* Nothing happens to the text.
<1>3. ASSUME text'[j] = text[j], cur'[j] = cur[j], lost[j] => lost'[j],
             ~lost'[j] => next'[j] = next[j]
      PROVE  Sequenced(j)'
  BY <1>2, <1>3, KeptSequenced
\* The alert is as it was, or ended.
<1>4. ASSUME NEW a \in {text["alert"], ResetAlert}, j = "alert", text'[j] = a,
             cur'[j] = cur[j], lost[j] => lost'[j], ~lost'[j] => next'[j] = next[j]
      PROVE  Sequenced(j)'
  <2>1. CASE a = text["alert"]
    BY <1>3, <1>4, <2>1
  <2>2. CASE a = ResetAlert
    BY <1>1, <1>4, <2>2, ResetAlertIs, EmptiedSequenced
  <2> QED
    BY <2>1, <2>2
<1>5. ASSUME NEW i \in Texts, NEW a \in {text["alert"], ResetAlert}, Assemble(i, a)
      PROVE  Sequenced(j)'
  <2>1. /\ next' = [next EXCEPT ![i] = (next[i] + 1) % Length[cur[i]]]
        /\ text'[i] = Taken(i) /\ (i # "alert" => text'["alert"] = a)
        /\ \A k \in Texts \ {i, "alert"} : text'[k] = text[k]
        /\ lost'[i] = (lost[i] /\ next[i] # 0) /\ \A k \in Texts \ {i} : lost'[k] = lost[k]
        /\ UNCHANGED <<sends, cur, value, toldGroup, trouble>>
    BY <1>1, <1>5, AssembleIs
  <2>2. CASE j = i
    <3>1. next'[j] = (next[j] + 1) % Length[cur[j]]
      BY <1>1, <2>1, <2>2
    <3>2. text'[j] = Taken(j) /\ lost'[j] = (lost[j] /\ next[j] # 0) /\ cur' = cur
      BY <2>1, <2>2
    <3> QED
      BY <3>1, <3>2, TakenSequenced
  <2>3. CASE j # i
    <3>1. next'[j] = next[j] /\ lost'[j] = lost[j] /\ cur'[j] = cur[j]
      BY <1>1, <2>1, <2>3
    <3>2. CASE j = "alert"
      <4>1. text'[j] = a
        BY <2>1, <2>3, <3>2
      <4> QED
        BY <1>4, <3>1, <3>2, <4>1
    <3>3. CASE j # "alert"
      BY <1>3, <2>1, <2>3, <3>1, <3>3
    <3> QED
      BY <3>2, <3>3
  <2> QED
    BY <2>2, <2>3
<1>6. ASSUME NEW i \in Texts, TextFrame(i) PROVE Sequenced(j)'
  <2> DEFINE a == AlertAfter
  <2>1. Assemble(i, a) /\ a \in {text["alert"], ResetAlert}
    BY <1>6, AlertAfterIs DEF TextFrame
  <2> HIDE DEF a
  <2> QED
    BY <1>5, <2>1
<1>7. CASE AlertFrame
  <2> DEFINE a == text["alert"]
             i == "alert"
  <2>1. Assemble(i, a) /\ a \in {text["alert"], ResetAlert} /\ i \in Texts
    BY <1>1, <1>7 DEF AlertFrame
  <2> HIDE DEF a, i
  <2> QED
    BY <1>5, <2>1
<1>8. ASSUME Other, UNCHANGED <<station, lost, trouble>> PROVE Sequenced(j)'
  <2>1. text'["alert"] = AlertAfter /\ \A i \in Texts \ {"alert"} : text'[i] = text[i]
    BY <1>8, OtherIs
  <2> DEFINE a == AlertAfter
  <2>2. a \in {text["alert"], ResetAlert} /\ (j = "alert" => text'[j] = a)
    BY <2>1, AlertAfterIs
  <2> HIDE DEF a
  <2>3. CASE j = "alert"
    BY <1>4, <1>8, <2>2, <2>3
  <2>4. CASE j # "alert"
    BY <1>3, <1>8, <2>1, <2>4
  <2> QED
    BY <2>3, <2>4
<1>9. ASSUME NEW g \in DOMAIN Group, NEW m \in Group[g], ValueFrame(g, m) PROVE Sequenced(j)'
  BY <1>8, <1>9 DEF ValueFrame
<1>10. CASE OtherFrame
  BY <1>8, <1>10 DEF OtherFrame
<1>11. CASE StopAlert \/ UNCHANGED vars
  BY <1>3, <1>11 DEF StopAlert, vars
<1>12. ASSUME NEW i \in DOMAIN cur, Change(i) PROVE Sequenced(j)'
  <2>1. CASE i # j
    BY <1>1, <1>3, <1>12, <2>1 DEF Change
  <2>2. CASE i = j
    <3>1. /\ cur'[j] = cur[j] + 1 /\ next'[j] = next[j] /\ next[j] = 0
          /\ text'[j] = text[j] /\ lost'[j] = lost[j]
      BY <1>1, <1>12, <2>2 DEF Change
    <3>2. cur'[j] \in Nat /\ cur[j] <= cur'[j]
      BY <1>2, <3>1
    <3> QED
      BY <3>1, <3>2, KeptSequenced
  <2> QED
    BY <2>1, <2>2
<1>13. ASSUME NEW i \in Texts, LoseFrame(i) PROVE Sequenced(j)'
  <2>1. lost'[j] = IF i = j THEN TRUE ELSE lost[j]
    BY <1>1, <1>13 DEF LoseFrame
  <2>2. i # j => next'[j] = next[j]
    BY <1>1, <1>13 DEF LoseFrame
  <2>3. text'[j] = text[j] /\ cur'[j] = cur[j]
    BY <1>13 DEF LoseFrame
  <2> QED
    BY <1>3, <2>1, <2>2, <2>3
<1>14. CASE Reset
  <2>1. text'[j] = ResetText(j)
    BY <1>14 DEF Reset
  <2> QED
    BY <1>1, <2>1, ResetTextIs, EmptiedSequenced
<1> QED
  BY <1>6, <1>7, <1>9, <1>10, <1>11, <1>12, <1>13, <1>14 DEF Next

\* While a text is shown and nothing was lost since, all its frames are of its version.
LEMMA ShownIsWhole ==
  ASSUME IInv, TextsSequenced PROVE TextsWhole
<1> SUFFICES ASSUME NEW i \in Texts, HasSeq(i), text[i].shown, ~lost[i]
             PROVE  VersionsIn(text[i]) = {text[i].len}
  BY DEF TextsWhole, ShownWhole, IInv
<1> DEFINE t == text[i]
<1>1. t.seq \in -1..Seqs - 1 /\ Seqs \in Nat
  BY SequencedTexts, Consts DEF IInv
<1>2. t.seq >= 0
  BY <1>1 DEF TextsSequenced, Sequenced
<1>3. /\ t.buf[0] \in Version /\ t.len = t.buf[0]
      /\ \A f \in t.have : t.buf[f] = t.buf[0]
      /\ 0..Length[t.buf[0]] - 1 \subseteq t.have
  BY <1>2 DEF TextsSequenced, Sequenced, Headed, Unmixed, ShownThere
<1>4. 0 \in 0..Length[t.buf[0]] - 1
  <2>1. Length[t.buf[0]] \in 1..Most /\ Most \in Nat
    BY <1>3, Consts
  <2> QED
    BY <2>1
<1> HIDE DEF t
<1>5. VersionsIn(t) = {t.len}
  BY <1>3, <1>4 DEF VersionsIn
<1> QED
  BY <1>5 DEF t

-----------------------------------------------------------------------------
(* What follows. *)

\* Buffers, values and counts stay in their ranges.
THEOREM TypeCorrect == Spec => []TypeOK
<1>1. IInv => TypeOK
  BY DEF IInv
<1> QED
  BY <1>1, AlwaysIInv, PTL

\* Nothing kept of a group differs from what was last told of it (pids.go:579).
THEOREM ValuesTold == Spec => []EventsTellValues
<1>1. IInv => EventsTellValues
  BY DEF IInv
<1> QED
  BY <1>1, AlwaysIInv, PTL

\* An alert shown goes in no step but those that may end it (pids.go:1033).
THEOREM AlertStays == Spec => AlertKept
<1> DEFINE Goes == text["alert"].shown /\ ~text'["alert"].shown
           May == \/ text'["alert"].seq \notin {-1, text["alert"].seq}
                  \/ trouble' # trouble
                  \/ quiet + 1 >= Limit
<1>1. IInv /\ [Next]_vars => [Goes => May]_vars
  <2> SUFFICES ASSUME IInv, Next, Goes PROVE May
    OBVIOUS
  <2>1. /\ TypeOK /\ "alert" \in Texts /\ alertTimeout \in 0..Limit - 1 /\ quiet \in 0..Limit
        /\ Limit \in Nat /\ (text["alert"].shown => alertTimeout <= quiet)
        /\ trouble \in 0..MaxTrouble /\ MaxTrouble \in Nat
    BY Typed, Consts DEF IInv, CountedQuiet
  <2>2. ASSUME text'["alert"] = AlertAfter PROVE May
    <3>1. Expires
      BY <2>2 DEF AlertAfter
    <3> QED
      BY <2>1, <3>1 DEF Expires
  <2>3. ASSUME NEW i \in Texts, TextFrame(i) PROVE May
    <3> DEFINE a == AlertAfter
    <3>1. i # "alert" /\ Assemble(i, a) /\ a \in {text["alert"], ResetAlert}
      BY <2>3, AlertAfterIs DEF TextFrame
    <3> HIDE DEF a
    <3>2. text'["alert"] = a
      BY <2>1, <3>1, AssembleIs
    <3> QED
      BY <2>2, <3>2 DEF a
  <2>4. CASE AlertFrame
    <3> DEFINE a == text["alert"]
               i == "alert"
    <3>1. Assemble(i, a) /\ a \in {text["alert"], ResetAlert} /\ i \in Texts
      BY <2>1, <2>4 DEF AlertFrame
    <3> HIDE DEF a, i
    <3>2. text'[i] = Taken(i)
      BY <2>1, <3>1, AssembleIs
    <3> DEFINE new == HasSeq(i) /\ next[i] = 0 /\ cur[i] % Seqs # text[i].seq
               whole == Completes(i, Stored(i, next[i], cur[i]))
    <3>3. /\ Taken(i).seq = IF new THEN cur[i] % Seqs ELSE text[i].seq
          /\ Taken(i).shown = ((~new /\ text[i].shown) \/ whole)
      BY <2>1, <3>1, TakenIs
    <3> HIDE DEF whole
    <3>4. new
      BY <3>2, <3>3 DEF i
    <3>5. cur[i] \in Nat
      BY <2>1, <3>1, Typed, Consts DEF Items
    <3>6. cur[i] % Seqs >= 0
      BY <3>5, Consts
    <3> QED
      BY <3>2, <3>3, <3>4, <3>6 DEF i
  <2>5. CASE OtherFrame
    BY <2>1, <2>2, <2>5, OtherIs DEF OtherFrame
  <2>6. ASSUME NEW g \in DOMAIN Group, NEW m \in Group[g], ValueFrame(g, m) PROVE May
    BY <2>1, <2>2, <2>6, OtherIs DEF ValueFrame
  <2>7. CASE Reset
    BY <2>1, <2>7 DEF Reset, Trouble
  <2>8. CASE StopAlert \/ (\E i \in Texts : LoseFrame(i)) \/ \E i \in DOMAIN cur : Change(i)
    BY <2>8 DEF StopAlert, LoseFrame, Change
  <2> QED
    BY <2>3, <2>4, <2>5, <2>6, <2>7, <2>8 DEF Next
<1>2. [Goes => May]_vars => [text["alert"].shown /\ ~text'["alert"].shown
       => \/ text'["alert"].seq \notin {-1, text["alert"].seq}
          \/ trouble' # trouble
          \/ quiet + 1 >= Limit]_vars
  OBVIOUS
<1> HIDE DEF Goes, May
<1> QED
  BY <1>1, <1>2, AlwaysIInv, PTL DEF Spec, AlertKept

\* No message or alert of two versions is told, and no text with a sequence number is
\* shown with frames of two, unless numbers are used again: a receiver that lost every
\* frame 0 of as many texts as there are numbers takes the next one for the one it has (pids.go:615).
THEOREM TextsAreWhole == ASSUME SeqsTell PROVE Spec => []TextsWhole
<1>1. IInv /\ TextsSequenced => TextsWhole
  BY ShownIsWhole
<1>2. IInv /\ TextsSequenced /\ [Next]_vars => TextsSequenced'
  BY SeqsTell, NextSequenced
<1> HIDE DEF TextsSequenced
<1> QED
  BY <1>1, <1>2, InitSequenced, AlwaysIInv, PTL DEF Spec
=============================================================================
