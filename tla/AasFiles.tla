------------------------------- MODULE AasFiles -------------------------------
(***************************************************************************)
(* Files on the data services (output.go): the SIG table that says which   *)
(* ports carry them, and the LOT fragments they come in.                   *)
(*                                                                         *)
(* A station sends SIG tables and a carousel of lots, the fragments of     *)
(* each in turn; fragment 0 comes with the file's header.  Lots give way   *)
(* to new ones, and what a lot holds changes from time to time: its        *)
(* versions are numbered, and a fragment is known by the version it is     *)
(* from.                                                                   *)
(***************************************************************************)
EXTENDS Integers, Sequences, FiniteSets

CONSTANTS
  Lots,         \* lot numbers
  First,        \* the lots the station sends at first
  Slots,        \* maxLotFiles (12)
  Size,         \* fragments of each version
  Odd,          \* versions whose expiry is no date, which time.Date normalises
  Tables,       \* the SIG tables, each a sequence of services [number, port]
  MaxServices,  \* maxSigServices (16)
  MaxTrouble    \* bound on fragments lost and resets

Version == DOMAIN Size
Largest == CHOOSE n \in {Size[v] : v \in Version} : \A v \in Version : n >= Size[v]
Fragment == 0..Largest - 1
Place == (1..MaxServices) \X (1..Slots)

ASSUME SizeAssumption ==
  /\ Version \subseteq Nat \ {0} /\ 1 \in Version /\ \A v \in Version : Size[v] \in Nat \ {0}
  /\ \E v \in Version : \A w \in Version : Size[v] >= Size[w]
ASSUME TablesAssumption ==
  /\ Tables \in Seq(Seq([number: Nat, port: Nat])) /\ 1 \in DOMAIN Tables
  /\ \A t \in DOMAIN Tables : Tables[t] # << >>
ASSUME FilesAssumption ==
  /\ Lots \subseteq Nat \ {0} /\ First \subseteq Lots
  /\ Slots \in Nat \ {0} /\ MaxServices \in Nat \ {0} /\ MaxTrouble \in Nat /\ Odd \subseteq Version

VARIABLES
  sends, table, cur, next,  \* station: its lots, table, versions and next fragments
  sig,       \* sigBytes: the table parsed last, 0 for none
  services,  \* the list of services
  files,     \* lotFiles of each service's component
  counter,   \* lotLRUCounter
  complete,  \* the last step's LOT complete event, if any
  done,      \* history: the version told complete from each slot since its lot got it
  late,      \* history: slots that took fragments before the header that goes with them
  early,     \* history: fragments were taken after a reset before any table
  since,     \* history: each lot's version when the station's table began
  trouble    \* troubles so far

station == <<sends, table, cur, next>>
vars == <<station, sig, services, files, counter, complete, done, late, early, since, trouble>>

NoFile == [lot |-> 0, name |-> 0, frags |-> [f \in Fragment |-> 0], timestamp |-> 0]
None == [place |-> <<0, 0>>, version |-> 0, data |-> {}]

TypeOK ==
  /\ sends \subseteq Lots /\ table \in DOMAIN Tables
  /\ cur \in [Lots -> Version] /\ next \in [Lots -> Fragment]
  /\ sig \in DOMAIN Tables \cup {0}
  /\ services \in Seq([number: Nat, port: Nat]) /\ Len(services) <= MaxServices
  /\ files \in [Place -> [lot: Lots \cup {0}, name: Version \cup {0},
                          frags: [Fragment -> Version \cup {0}], timestamp: 0..Cardinality(Place) + 1]]
  /\ counter \in 1..Cardinality(Place) + 1
  /\ complete \in [place: Place, version: Version, data: SUBSET Version] \cup {None}
  /\ done \in [Place -> Version \cup {0}] /\ late \subseteq Place /\ early \in BOOLEAN
  /\ since \in [Lots -> Version] /\ trouble \in 0..MaxTrouble

Init ==
  /\ sends = First /\ table = 1 /\ cur = [l \in Lots |-> 1]
  /\ next \in {n \in [Lots -> Fragment] : \A l \in Lots : n[l] < IF l \in sends THEN Size[1] ELSE 1}
  /\ sig = 0 /\ services = << >> /\ files = [p \in Place |-> NoFile] /\ counter = 1
  /\ complete = None /\ done = [p \in Place |-> 0] /\ late = {} /\ early = FALSE
  /\ since = [l \in Lots |-> 1] /\ trouble = 0

-----------------------------------------------------------------------------
(* The SIG table. *)

Appended(acc, service) == [acc EXCEPT !.list = Append(@, service)]  \* mutant

\* A service takes the place of the one with its number, or the first free one.
\* The table is read no further than a service there is no place for.
Listed(acc, service) ==
  LET same == {i \in DOMAIN acc.list : acc.list[i].number = service.number} IN
  IF same # {} /\ acc.fits
  THEN [acc EXCEPT !.list = [i \in DOMAIN @ |-> IF i \in same THEN service ELSE @[i]],
                   !.again = @ \cup same]
  ELSE IF acc.fits /\ Len(acc.list) < MaxServices
  THEN [acc EXCEPT !.list = Append(@, service)]
  ELSE [acc EXCEPT !.fits = FALSE]

Parsed ==
  LET after[j \in 0..Len(Tables[table])] ==
        IF j = 0 THEN [list |-> services, fits |-> TRUE, again |-> {}]
        ELSE Listed(after[j - 1], Tables[table][j])
  IN after[Len(Tables[table])]

Freed == [p \in Place |-> NoFile]

\* aasReset, when the table changed; a service listed again starts anew.
NotFreed(again) == files  \* mutant
FilesAfterSig(again) ==
  IF sig # 0 THEN Freed ELSE [p \in Place |-> IF p[1] \in again THEN NoFile ELSE files[p]]

InUse(fs) == {p \in Place : fs[p].timestamp # 0}

\* parseSIG.
ParseSig ==
  /\ sig # table
  /\ sig' = table
  /\ \E parsed \in {Parsed} : services' = parsed.list /\ files' = FilesAfterSig(parsed.again)
  /\ counter' = IF sig # 0 THEN 1 ELSE counter
  /\ done' = [p \in Place |-> IF p \in InUse(files') THEN done[p] ELSE 0]
  /\ late' = late \cap InUse(files')
  /\ early' = (early /\ InUse(files') # {})
  /\ complete' = None
  /\ UNCHANGED <<station, since, trouble>>

-----------------------------------------------------------------------------
(* Fragments. *)

\* Only the order of timestamps matters: they are kept as ranks.
Rank(t, used) == Cardinality({u \in used \ {0} : u <= t})

StoreRanked(fs, c) ==
  LET used == {fs[p].timestamp : p \in Place} \cup {c} IN
  /\ files' = [p \in Place |-> [fs[p] EXCEPT !.timestamp = Rank(@, used)]]
  /\ counter' = Rank(c, used)

Held(s, lot) == {i \in 1..Slots : files[<<s, i>>].timestamp # 0 /\ files[<<s, i>>].lot = lot}

\* findFreeLot: a slot never used, or else the one used least recently.
FirstSlot(s) == 1  \* mutant
FreeSlot(s) ==
  CHOOSE i \in 1..Slots : \A j \in 1..Slots :
    \/ files[<<s, i>>].timestamp < files[<<s, j>>].timestamp
    \/ files[<<s, i>>].timestamp = files[<<s, j>>].timestamp /\ i <= j

\* findLot, or a free slot.
SlotFor(s, lot) ==
  IF Held(s, lot) # {} THEN CHOOSE i \in Held(s, lot) : TRUE ELSE FreeSlot(s)

\* A header says what is kept of the file is of another one.  The expiry is kept
\* as time.Date made it, and compared with what was sent.
Changed(file, v) == file.name # 0 /\ (file.name # v \/ v \in Odd)

WithHeader(file, lot, v) ==
  [(IF Changed(file, v) THEN [NoFile EXCEPT !.lot = lot, !.timestamp = counter + 1]
    ELSE [file EXCEPT !.lot = lot, !.timestamp = counter]) EXCEPT !.name = v]

WithFragment(file, f, v) == [file EXCEPT !.frags[f] = IF @ = 0 THEN v ELSE @]

\* Whether the fragment, or the header it came with, brought something new.
AnyFragment(file, f, v) == TRUE  \* mutant
NewData(file, f, v) == (f = 0 /\ (file.name = 0 \/ Changed(file, v))) \/ file.frags[f] = 0

AllThere(file) == file.name # 0 /\ \A f \in 0..Size[file.name] - 1 : file.frags[f] # 0

\* Fragment f of version v of a lot, for slot i of component s, which held old.
Stored(old, lot, f, v) ==
  WithFragment(IF f = 0 THEN WithHeader(old, lot, v)
               ELSE [old EXCEPT !.lot = lot, !.timestamp = counter], f, v)

Told(p, old, new, f, v) ==
  IF NewData(old, f, v) /\ AllThere(new)
  THEN [place |-> p, version |-> new.name, data |-> {new.frags[g] : g \in 0..Size[new.name] - 1}]
  ELSE None

TakeFragment(s, lot, f, v) ==
  \E i \in {SlotFor(s, lot)} :
  \E old \in {IF Held(s, lot) # {} THEN files[<<s, i>>] ELSE NoFile} :
  \E new \in {Stored(old, lot, f, v)} :
    LET p == <<s, i>>
        told == Told(p, old, new, f, v)
        fresh == Held(s, lot) = {} \/ (f = 0 /\ Changed(old, v))
    IN
    /\ \E fs \in {[files EXCEPT ![p] = new]} : StoreRanked(fs, counter + 1)
    /\ complete' = told
    /\ done' = [done EXCEPT ![p] = IF told # None THEN told.version
                                   ELSE IF Held(s, lot) # {} THEN @ ELSE 0]
    /\ late' = (IF fresh THEN late \ {p} ELSE late) \cup (IF new.name # v THEN {p} ELSE {})

\* findPort.
Component(port) ==
  IF \E s \in DOMAIN services : services[s].port = port
  THEN CHOOSE s \in DOMAIN services :
         services[s].port = port /\ \A t \in 1..s - 1 : services[t].port # port
  ELSE 0

Dropped == complete' = None /\ UNCHANGED <<files, counter, done, late>>

\* processPort: the fragment of lot l whose turn it is, on the port of the table's
\* first service.
Receive(l) ==
  LET s == Component(Tables[table][1].port) IN
  /\ l \in sends
  /\ IF s = 0 THEN Dropped ELSE TakeFragment(s, l, next[l], cur[l])
  /\ early' = (early \/ (s # 0 /\ sig = 0))
  /\ next' = [next EXCEPT ![l] = (@ + 1) % Size[cur[l]]]
  /\ UNCHANGED <<sends, table, cur, sig, services, since, trouble>>

-----------------------------------------------------------------------------
(* The station, the channel and the application. *)

Trouble == trouble < MaxTrouble /\ trouble' = trouble + 1

Lose(l) ==
  /\ l \in sends /\ Trouble
  /\ next' = [next EXCEPT ![l] = (@ + 1) % Size[cur[l]]]
  /\ complete' = None
  /\ UNCHANGED <<sends, table, cur, sig, services, files, counter, done, late, early, since>>

\* Another file under the same lot number.
ChangeFile(l) ==
  /\ l \in sends /\ next[l] = 0 /\ cur[l] + 1 \in Version
  /\ cur' = [cur EXCEPT ![l] = @ + 1]
  /\ complete' = None
  /\ UNCHANGED <<sends, table, next, sig, services, files, counter, done, late, early, since, trouble>>

\* A new lot in the place of one.
ChangeLot(l) ==
  /\ l \in sends /\ next[l] = 0
  /\ \E m \in Lots : /\ \A n \in sends : n < m
                     /\ sends' = (sends \ {l}) \cup {m}
  /\ complete' = None
  /\ UNCHANGED <<table, cur, next, sig, services, files, counter, done, late, early, since, trouble>>

\* Another table, or another station's, and other files.
ChangeTable ==
  /\ table + 1 \in DOMAIN Tables /\ \A l \in sends : cur[l] + 1 \in Version
  /\ table' = table + 1
  /\ cur' = [l \in Lots |-> IF l \in sends THEN cur[l] + 1 ELSE cur[l]]
  /\ next' = [l \in Lots |-> 0]
  /\ since' = cur'
  /\ complete' = None
  /\ UNCHANGED <<sends, sig, services, files, counter, done, late, early, trouble>>

\* Radio.Reset: aasReset leaves the list of services.
Reset ==
  /\ Trouble
  /\ sig' = 0 /\ files' = Freed /\ counter' = 1
  /\ complete' = None
  /\ done' = [p \in Place |-> 0] /\ late' = {} /\ early' = FALSE
  /\ UNCHANGED <<station, services, since>>

Next ==
  \/ ParseSig \/ ChangeTable \/ Reset
  \/ \E l \in Lots : Receive(l) \/ Lose(l) \/ ChangeFile(l) \/ ChangeLot(l)

Spec == Init /\ [][Next]_vars

\* A station repeats its table and its files without end.
FairSpec == Spec /\ WF_vars(ParseSig) /\ \A l \in Lots : WF_vars(Receive(l))

-----------------------------------------------------------------------------

\* A file told complete is of one version, unless fragments came before the header
\* that goes with them: processPort cannot tell those of another file of the lot
\* (output.go:833).
CompleteWhole ==
  complete # None /\ complete.place \notin late => complete.data = {complete.version}

\* Once the receiver has the station's table, no fragment of the files before it is
\* kept, unless fragments were taken after a reset without any table (output.go:520).
TablesUnmixed ==
  sig = table /\ ~early =>
    \A p \in InUse(files), f \in Fragment :
      files[p].frags[f] # 0 => files[p].frags[f] >= since[files[p].lot]

\* No file is made of two, neither of one lot nor of two tables.
FilesUnmixed == CompleteWhole /\ TablesUnmixed

\* A file is told complete once while it keeps its slot, however often it is sent, unless
\* its expiry is no date or fragments of another came without their header: if that
\* one is longer, one of them is new data for a file long complete (output.go:853).
CompleteOnce ==
  [][complete' # None /\ complete'.version \notin Odd /\ complete'.place \notin late'
       => LET p == complete'.place IN
          files[p].lot = files'[p].lot => done[p] # complete'.version]_vars

\* The last version of every file is told complete if the slots are enough for
\* the lots that are sent, whatever lots fill them already.
AllComplete ==
  Cardinality(First) <= Slots =>
    <>[](\A l \in sends : \E p \in InUse(files) : files[p].lot = l /\ done[p] = cur[l])
=============================================================================
