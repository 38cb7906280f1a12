------------------------------ MODULE SisDecoder ------------------------------
(***************************************************************************)
(* Station information (pids.go): texts that come in several PIDS frames,  *)
(* values that come in groups, and the end of emergency alerts.            *)
(*                                                                         *)
(* One step is one PIDS frame whose CRC is right.  A text is a number of   *)
(* frames; its words do not matter, only which version of the station's    *)
(* text each frame in the buffer is from.  A frame carries one payload     *)
(* here; the code takes up to two of the small ones.                       *)
(***************************************************************************)
EXTENDS Integers, FiniteSets

CONSTANTS
  Length,   \* frames of each version of a text
  Seqs,     \* values of a sequence number (8 for the long name, 4 elsewhere)
  Limit,    \* alertTimeoutLimit (16)
  Sends,    \* choices of what a station sends, sets of texts and groups
  MaxTrouble  \* bound on frames lost and resets

Version == DOMAIN Length
Most == CHOOSE n \in {Length[v] : v \in Version} : \A v \in Version : n >= Length[v]
Frame == 0..Most - 1

Texts == {"longName", "message", "universalShortName", "slogan", "alert"}

\* The values reported together.
Group == [stationID |-> {"id"}, shortName |-> {"short"}, location |-> {"latitude", "longitude"},
          audioService |-> {"audio"}, leapSecond |-> {"leap", "alfnLow", "alfnHigh"}]
Value == UNION {Group[g] : g \in DOMAIN Group}

ASSUME LengthAssumption ==
  /\ 1 \in Version /\ Version \subseteq Nat \ {0} /\ \A v \in Version : Length[v] \in Nat \ {0}
  /\ \E v \in Version : \A w \in Version : Length[v] >= Length[w]
ASSUME SisAssumption == Seqs \in Nat \ {0} /\ Limit \in Nat \ {0} /\ MaxTrouble \in Nat
                        /\ \A s \in Sends : s \subseteq Texts \cup DOMAIN Group

VARIABLES
  sends, cur, next,  \* station: what it sends, its versions, each text's next frame
  text,              \* the decoder's buffer for each text
  alertTimeout,      \* frames since the last one of the alert shown
  value,             \* the values kept, by the version they are from, 0 for none
  told,              \* history: versions in the last event for each text, {} for none
  toldGroup,         \* history: the last event for each group
  quiet,             \* history: frames since the last one of the alert shown
  lost,              \* history: a frame of the text was lost since its last frame 0
  trouble            \* troubles so far

station == <<sends, cur, next>>
vars == <<station, text, alertTimeout, value, told, toldGroup, quiet, lost, trouble>>

NoText == [seq |-> -1, have |-> {}, buf |-> [f \in Frame |-> 0], len |-> 0, shown |-> FALSE]

TypeOK ==
  /\ sends \subseteq Texts \cup DOMAIN Group
  /\ cur \in [Texts \cup DOMAIN Group -> Version] /\ next \in [Texts -> Frame]
  /\ text \in [Texts -> [seq: -1..Seqs - 1, have: SUBSET Frame, shown: BOOLEAN,
                         buf: [Frame -> Version \cup {0}], len: Version \cup {0}]]
  /\ alertTimeout \in 0..Limit - 1
  /\ value \in [Value -> Version \cup {0}]
  /\ told \in [Texts -> SUBSET Version]
  /\ \A g \in DOMAIN Group : toldGroup[g] \in [Group[g] -> Version \cup {0}]
  /\ quiet \in 0..Limit /\ lost \in [Texts -> BOOLEAN] /\ trouble \in 0..MaxTrouble

Init ==
  /\ sends \in Sends
  /\ cur = [i \in Texts \cup DOMAIN Group |-> 1] /\ next = [i \in Texts |-> 0]
  /\ text = [i \in Texts |-> NoText] /\ alertTimeout = 0
  /\ value = [m \in Value |-> 0]
  /\ told = [i \in Texts |-> {}]
  /\ toldGroup = [g \in DOMAIN Group |-> [m \in Group[g] |-> 0]]
  /\ quiet = 0 /\ lost = [i \in Texts |-> FALSE] /\ trouble = 0

-----------------------------------------------------------------------------
(* Texts.  len stands for what the header says of the text: the version    *)
(* whose length, encoding and checksum are kept.                           *)

HasSeq(i) == i \in {"longName", "message", "alert"}

KeepFrames(t, f, v) == IF f = 0 /\ v % Seqs # t.seq  \* mutant
                       THEN [t EXCEPT !.seq = v % Seqs, !.shown = FALSE] ELSE t
\* A frame 0 with another sequence number empties the buffer.
NewSequence(t, f, v) == IF f = 0 /\ v % Seqs # t.seq THEN [NoText EXCEPT !.seq = v % Seqs, !.len = t.len] ELSE t

\* Frame f of version v goes into the buffer.  The long name's length comes with
\* every frame, the others' with frame 0.
Stored(i, f, v) ==
  LET t == IF HasSeq(i) THEN NewSequence(text[i], f, v) ELSE text[i] IN
  [t EXCEPT !.buf[f] = v, !.have = @ \cup {f},
            !.len = IF f = 0 \/ i = "longName" THEN v ELSE @]

VersionsIn(t) == {t.buf[f] : f \in 0..Length[t.len] - 1}

Started(i, t) == IF i \in {"longName", "message"} THEN t.seq >= 0 ELSE t.len # 0

\* The message's checksum and the alert's CRCs fail on frames of different versions.
Passes(i, t) == i \in {"message", "alert"} => VersionsIn(t) = {t.len}

OneMore(i, t) ==  \* mutant
  Started(i, t) /\ ~t.shown /\ 0..Length[t.len] \subseteq t.have /\ Passes(i, t)
Completes(i, t) ==
  /\ Started(i, t) /\ ~t.shown
  /\ 0..Length[t.len] - 1 \subseteq t.have
  /\ Passes(i, t)

\* The slogan and the long name share one event: who comes second is not told.
Silenced(i) == \/ i = "longName" /\ text["slogan"].shown
               \/ i = "slogan" /\ text["longName"].shown

\* One frame of text i, whatever else the frame does.
Assemble(i, alert) ==
  LET f == next[i]
      t == Stored(i, f, cur[i]) IN
  /\ i \in sends
  /\ next' = [next EXCEPT ![i] = (f + 1) % Length[cur[i]]]
  /\ text' = [text EXCEPT !["alert"] = alert, ![i] = [t EXCEPT !.shown = @ \/ Completes(i, t)]]
  /\ told' = [told EXCEPT !["alert"] = IF text["alert"].shown /\ ~alert.shown THEN {} ELSE @,
                          ![i] = IF Completes(i, t) /\ ~Silenced(i) THEN VersionsIn(t) ELSE @]
  /\ lost' = [lost EXCEPT ![i] = @ /\ f # 0]
  /\ UNCHANGED <<sends, cur, value, toldGroup, trouble>>

\* sisDecode counts the frames while an alert is shown, and ends it at the limit.
Expires == text["alert"].shown /\ alertTimeout + 1 >= Limit
ResetAlert == [NoText EXCEPT !.len = text["alert"].len]
AlertAfter == IF Expires THEN ResetAlert ELSE text["alert"]

KeepCount == alertTimeout' = alertTimeout  \* mutant
CountOn == alertTimeout' = IF text["alert"].shown THEN alertTimeout + 1 ELSE alertTimeout  \* mutant
CountFrame ==
  alertTimeout' = IF ~text["alert"].shown THEN alertTimeout
                  ELSE IF Expires THEN 0 ELSE alertTimeout + 1

Quieter == quiet' = IF text["alert"].shown /\ quiet < Limit THEN quiet + 1 ELSE quiet

TextFrame(i) == i # "alert" /\ Assemble(i, AlertAfter) /\ CountFrame /\ Quieter

RestartCount == alertTimeout' = 0
AlertFrame == Assemble("alert", text["alert"]) /\ RestartCount /\ quiet' = 0

-----------------------------------------------------------------------------
(* Values. *)

\* A value that changed is reported with the others of its group, once all are known.
FirstOnly(g, m, new) ==  \* mutant
  IF value[m] = 0 /\ \A n \in Group[g] : new[n] # 0 THEN [n \in Group[g] |-> new[n]] ELSE toldGroup[g]
Reported(g, m, new) ==
  IF new[m] # value[m] /\ \A n \in Group[g] : new[n] # 0
  THEN [n \in Group[g] |-> new[n]] ELSE toldGroup[g]

\* What any other frame does to an alert.
Other ==
  /\ text' = [text EXCEPT !["alert"] = AlertAfter]
  /\ told' = [told EXCEPT !["alert"] = IF Expires THEN {} ELSE @]
  /\ CountFrame /\ Quieter

ValueFrame(g, m) ==
  LET new == [value EXCEPT ![m] = cur[g]] IN
  /\ g \in sends
  /\ value' = new
  /\ toldGroup' = [toldGroup EXCEPT ![g] = Reported(g, m, new)]
  /\ Other
  /\ UNCHANGED <<station, lost, trouble>>

\* A frame of none of these.
OtherFrame == Other /\ UNCHANGED <<station, value, toldGroup, lost, trouble>>

-----------------------------------------------------------------------------
(* The station and the channel. *)

\* A new version of a text begins with its frame 0; one of a group at any time.
Change(i) ==
  /\ i \in sends /\ cur[i] + 1 \in Version
  /\ i \in Texts => next[i] = 0
  /\ cur' = [cur EXCEPT ![i] = @ + 1]
  /\ UNCHANGED <<sends, next, text, alertTimeout, value, told, toldGroup, quiet, lost, trouble>>

StopAlert ==
  /\ sends' = sends \ {"alert"}
  /\ UNCHANGED <<cur, next, text, alertTimeout, value, told, toldGroup, quiet, lost, trouble>>

Trouble == trouble < MaxTrouble /\ trouble' = trouble + 1

\* checkCRC12 fails, and framePush drops the frame.
LoseFrame(i) ==
  /\ i \in sends
  /\ next' = [next EXCEPT ![i] = (next[i] + 1) % Length[cur[i]]]
  /\ lost' = [lost EXCEPT ![i] = TRUE]
  /\ Trouble
  /\ UNCHANGED <<sends, cur, text, alertTimeout, value, told, toldGroup, quiet>>

\* pids.reset.  What have and buf hold of the texts stays, and so does the short name.
ResetText(i) ==
  IF i = "alert" THEN ResetAlert
  ELSE [text[i] EXCEPT !.seq = -1, !.shown = FALSE,
                       !.len = IF i \in {"universalShortName", "slogan"} THEN 0 ELSE @]
ResetValues == [m \in Value |-> IF m = "short" THEN value[m] ELSE 0]

\* Synchronisation anew, with the same station or another.
Reset ==
  /\ Trouble
  /\ text' = [i \in Texts |-> ResetText(i)] /\ alertTimeout' = 0
  /\ value' = ResetValues
  /\ \/ UNCHANGED cur
     \/ cur' = [i \in DOMAIN cur |-> IF cur[i] + 1 \in Version THEN cur[i] + 1 ELSE cur[i]]
  /\ next' \in {n \in [Texts -> Frame] : \A i \in Texts : IF i \in sends THEN n[i] < Length[cur'[i]] ELSE n[i] = 0}
  /\ UNCHANGED <<sends, told, toldGroup, quiet, lost>>

Next ==
  \/ \E i \in Texts : TextFrame(i) \/ LoseFrame(i)
  \/ AlertFrame \/ OtherFrame \/ StopAlert \/ Reset
  \/ \E g \in DOMAIN Group : \E m \in Group[g] : ValueFrame(g, m)
  \/ \E i \in DOMAIN cur : Change(i)

Spec == Init /\ [][Next]_vars

\* A synchronised receiver is sent frames without end, and each text and value in turn.
FairSpec ==
  /\ Spec
  /\ \A i \in Texts : WF_vars(TextFrame(i))
  /\ WF_vars(AlertFrame) /\ WF_vars(OtherFrame)
  /\ \A g \in DOMAIN Group : \A m \in Group[g] : WF_vars(ValueFrame(g, m))

-----------------------------------------------------------------------------

\* No message and no alert made of two versions is ever announced.
CheckedWhole ==
  \A i \in {"message", "alert"} : \A v, w \in told[i] : v = w

\* The texts with sequence numbers are of one version while they are shown, unless
\* a frame was lost since the last frame 0: report tells them again with every
\* other news, from the buffer the next version's frames go into.
ShownWhole ==
  \A i \in Texts : HasSeq(i) /\ text[i].shown /\ ~lost[i] => VersionsIn(text[i]) = {text[i].len}

\* What is told, and what is shown, is never made of two versions of a text.
TextsWhole == CheckedWhole /\ ShownWhole

\* The last event about a group told what is kept of it, all of it: nothing
\* changes unreported.
EventsTellValues ==
  \A g \in DOMAIN Group :
    (\A m \in Group[g] : value[m] # 0) => \A m \in Group[g] : toldGroup[g][m] = value[m]

\* An alert goes only when none of its frames has come for Limit frames, when a
\* new one's frame 0 comes, or by a reset.
AlertKept ==
  [][text["alert"].shown /\ ~text'["alert"].shown
       => \/ text'["alert"].seq \notin {-1, text["alert"].seq}
          \/ trouble' # trouble
          \/ quiet + 1 >= Limit]_vars

\* The last version of each text is in the end shown whole, whatever was lost before.
LatestShown ==
  \A i \in {"longName", "message", "slogan"} :
    i \in sends ~> [](text[i].shown /\ VersionsIn(text[i]) = {cur[i]})

\* An alert shown ends when the station no longer sends it.
AlertEnds == "alert" \notin sends ~> ~text["alert"].shown
=============================================================================
