---------------------------- MODULE AasFilesProofs ----------------------------
(***************************************************************************)
(* Safety of AasFiles for any lots, slots, versions and sizes of files,    *)
(* any tables and any number of troubles.                                  *)
(***************************************************************************)
EXTENDS AasFiles, FiniteSetTheorems, WellFoundedInduction, SequenceTheorems, TLAPS

-----------------------------------------------------------------------------
(* Facts about numbers. *)

\* A set of numbers has a least one: the numbers below it are a smallest such set.
LEMMA Least ==
  ASSUME NEW T, T \subseteq Nat, T # {}
  PROVE  \E x \in T : \A y \in T : x <= y
<1> DEFINE R == StrictSubsetOrdering(Nat)
           U == {0..n - 1 : n \in T}
<1>1. IsWellFoundedOn(R, FiniteSubsetsOf(Nat))
  BY FS_StrictSubsetOrderingWellFounded
<1>2. U \subseteq FiniteSubsetsOf(Nat) /\ U # {}
  <2>1. ASSUME NEW n \in T PROVE 0..n - 1 \in FiniteSubsetsOf(Nat)
    <3>1. IsFiniteSet(0..n - 1)
      BY FS_Interval
    <3> QED
      BY <3>1 DEF FiniteSubsetsOf
  <2> QED
    BY <2>1
<1> HIDE DEF R
<1>3. PICK u \in U : \A v \in U : ~ (<<v, u>> \in R)
  <2> HIDE DEF U
  <2> QED
    BY <1>1, <1>2, WFMin
<1>4. PICK x \in T : u = 0..x - 1
  OBVIOUS
<1>5. ASSUME NEW y \in T, ~(x <= y) PROVE FALSE
  <2> DEFINE v == 0..y - 1
  <2>1. v \in U /\ v \subseteq u /\ v # u /\ v \subseteq Nat /\ u \subseteq Nat
    <3>1. y \in u /\ y \notin v /\ x \in Nat /\ y \in Nat
      BY <1>4, <1>5
    <3> QED
      BY <1>4, <1>5, <3>1
  <2> HIDE DEF v, U
  <2>2. <<v, u>> \in R
    BY <2>1 DEF R, StrictSubsetOrdering
  <2> QED
    BY <1>3, <2>1, <2>2
<1> QED
  BY <1>5

\* Induction, up to n: a set with 0, and with i + 1 whenever it has i.
LEMMA Inductive ==
  ASSUME NEW n \in Nat, NEW T, 0 \in T, \A i \in 0..n - 1 : i \in T => i + 1 \in T
  PROVE  0..n \subseteq T
<1> SUFFICES ASSUME (0..n) \ T # {} PROVE FALSE
  OBVIOUS
<1> DEFINE Missing == (0..n) \ T
<1>1. PICK x \in Missing : \A y \in Missing : x <= y
  <2>1. Missing \subseteq Nat /\ Missing # {}
    OBVIOUS
  <2> HIDE DEF Missing
  <2> QED
    BY <2>1, Least
<1>2. x # 0
  OBVIOUS
<1>3. x - 1 \in 0..n - 1 /\ ~(x <= x - 1)
  BY <1>2
<1>4. x - 1 \in T
  BY <1>1, <1>3
<1> QED
  BY <1>3, <1>4

\* f begins with a and goes on by F, up to n.
Recurs(f, n, a, F) == f[0] = a /\ \A i \in 1..n : f[i] = F[<<i, f[i - 1]>>]

\* There is such a function.
LEMMA Recursion ==
  ASSUME NEW n \in Nat, NEW A, NEW a \in A, NEW F \in [(1..n) \X A -> A]
  PROVE  \E f \in [0..n -> A] : Recurs(f, n, a, F)
<1> DEFINE Goes(f, m) == Recurs(f, m, a, F)
           T == {m \in 0..n : \E f \in [0..m -> A] : Goes(f, m)}
<1> USE DEF Recurs
<1>1. 0 \in T
  <2> DEFINE f == [i \in 0..0 |-> a]
  <2>1. f \in [0..0 -> A] /\ Goes(f, 0)
    OBVIOUS
  <2>2. \E h \in [0..0 -> A] : Goes(h, 0)
    BY <2>1
  <2> QED
    BY <2>2
<1>2. ASSUME NEW m \in 0..n - 1, m \in T PROVE m + 1 \in T
  <2>1. PICK f \in [0..m -> A] : Goes(f, m)
    BY <1>2
  <2> DEFINE g == [i \in 0..m + 1 |-> IF i = m + 1 THEN F[<<m + 1, f[m]>>] ELSE f[i]]
  <2>2. F[<<m + 1, f[m]>>] \in A
    OBVIOUS
  <2>3. g \in [0..m + 1 -> A]
    BY <2>2
  <2>4. \A i \in 0..m : g[i] = f[i]
    OBVIOUS
  <2>5. g[m + 1] = F[<<m + 1, f[m]>>]
    OBVIOUS
  <2> HIDE DEF g
  <2>6. Goes(g, m + 1)
    <3>1. g[0] = a
      BY <2>1, <2>4
    <3>2. ASSUME NEW i \in 1..m + 1 PROVE g[i] = F[<<i, g[i - 1]>>]
      <4>1. CASE i = m + 1
        BY <2>4, <2>5, <4>1
      <4>2. CASE i # m + 1
        <5>1. i \in 1..m /\ i - 1 \in 0..m /\ i \in 0..m
          BY <4>2
        <5> QED
          BY <2>1, <2>4, <5>1
      <4> QED
        BY <4>1, <4>2
    <3> QED
      BY <3>1, <3>2
  <2> QED
    BY <2>3, <2>6
<1>3. n \in T
  <2> HIDE DEF T
  <2>1. 0..n \subseteq T
    BY <1>1, <1>2, Inductive
  <2> QED
    BY <2>1
<1> QED
  BY <1>3

-----------------------------------------------------------------------------
\* The fragment whose turn it is is one of the version that is sent, and no version
\* gives way to an earlier one.
CarouselGoes ==
  \A l \in Lots : next[l] < Size[cur[l]] /\ since[l] <= cur[l]

\* The receiver has no table that the station has not begun to send, and without one
\* no file but those that came early.
TableKnown ==
  /\ sig <= table
  /\ sig = 0 /\ ~early => InUse(files) = {}

\* A slot in use is that of a lot.  Its file's header was sent by now, and the version
\* told complete came no later.
HeadersSent ==
  \A p \in InUse(files) : /\ files[p].lot \in Lots
                          /\ files[p].name <= cur[files[p].lot]
                          /\ done[p] <= files[p].name

\* Where no fragments came before their header, all are of the version of the header.
HeadersFirst ==
  \A p \in InUse(files) \ late, f \in Fragment : files[p].frags[f] \in {0, files[p].name}

\* There a file told complete is still complete.
DoneStays ==
  \A p \in InUse(files) \ late :
    done[p] # 0 /\ done[p] = files[p].name /\ done[p] \notin Odd => AllThere(files[p])

\* Nothing was told from a slot that is free.
FreeUntold == \A p \in Place : done[p] # 0 => p \in InUse(files)

IInv ==
  /\ TypeOK /\ CarouselGoes /\ TableKnown /\ HeadersSent
  /\ HeadersFirst /\ CompleteWhole /\ TablesUnmixed /\ DoneStays /\ FreeUntold

Top == Cardinality(Place) + 1
File == [lot: Lots \cup {0}, name: Version \cup {0},
         frags: [Fragment -> Version \cup {0}], timestamp: 0..Top]

\* A file whose timestamp is not ranked yet.
Unranked == [lot: Lots \cup {0}, name: Version \cup {0},
             frags: [Fragment -> Version \cup {0}], timestamp: Nat]
Service == [number: Nat, port: Nat]

USE DEF station

-----------------------------------------------------------------------------

\* Sizes and the places are finite numbers.
LEMMA Consts ==
  /\ Version \subseteq Nat \ {0} /\ 1 \in Version /\ \A v \in Version : Size[v] \in Nat \ {0}
  /\ Largest \in Nat \ {0} /\ \A v \in Version : Size[v] <= Largest
  /\ 0 \in Fragment /\ Fragment \subseteq Nat
  /\ \A v \in Version : 0..Size[v] - 1 \subseteq Fragment
  /\ IsFiniteSet(Place) /\ Top \in Nat \ {0} /\ Cardinality(Place) \in Nat
<1>1. Version \subseteq Nat \ {0} /\ 1 \in Version /\ \A v \in Version : Size[v] \in Nat \ {0}
  BY SizeAssumption
<1>2. PICK v \in Version : \A w \in Version : Size[v] >= Size[w]
  BY SizeAssumption
<1>3. Size[v] \in {Size[w] : w \in Version}
  OBVIOUS
<1>4. Largest \in {Size[w] : w \in Version} /\ \A w \in Version : Largest >= Size[w]
  BY <1>2, <1>3 DEF Largest
<1>5. Largest \in Nat \ {0} /\ \A w \in Version : Size[w] <= Largest
  BY <1>1, <1>4
<1>6. 0 \in Fragment /\ Fragment \subseteq Nat /\ \A w \in Version : 0..Size[w] - 1 \subseteq Fragment
  BY <1>1, <1>5 DEF Fragment
<1>7. IsFiniteSet(1..MaxServices) /\ IsFiniteSet(1..Slots)
  BY FilesAssumption, FS_Interval
<1>8. IsFiniteSet(Place)
  BY <1>7, FS_Product DEF Place
<1>9. Cardinality(Place) \in Nat
  BY <1>8, FS_CardinalityType
<1> QED
  BY <1>1, <1>5, <1>6, <1>8, <1>9 DEF Top

\* TypeOK, with the names given above.
LEMMA Typed ==
  ASSUME TypeOK
  PROVE  /\ sends \subseteq Lots /\ table \in DOMAIN Tables
         /\ cur \in [Lots -> Version] /\ next \in [Lots -> Fragment]
         /\ sig \in DOMAIN Tables \cup {0}
         /\ services \in Seq(Service) /\ Len(services) <= MaxServices
         /\ files \in [Place -> File] /\ counter \in 1..Top
         /\ complete \in [place: Place, version: Version, data: SUBSET Version] \cup {None}
         /\ done \in [Place -> Version \cup {0}] /\ late \subseteq Place /\ early \in BOOLEAN
         /\ since \in [Lots -> Version] /\ trouble \in 0..MaxTrouble
  BY DEF TypeOK, File, Top, Service

\* Tables are numbered from 1.
LEMMA TableIs == ASSUME TypeOK PROVE table \in Nat \ {0} /\ sig \in Nat
<1>1. table \in DOMAIN Tables /\ sig \in DOMAIN Tables \cup {0}
  BY Typed
<1>2. DOMAIN Tables = 1..Len(Tables) /\ Len(Tables) \in Nat
  BY TablesAssumption, LenProperties, Zenon
<1> QED
  BY <1>1, <1>2

\* An empty slot.
LEMMA NoFileIs ==
  /\ NoFile \in File /\ NoFile.timestamp = 0 /\ NoFile.lot = 0 /\ NoFile.name = 0
  /\ \A f \in Fragment : NoFile.frags[f] = 0
  /\ Freed \in [Place -> File] /\ InUse(Freed) = {}
<1>1. 0 \in 0..Top
  BY Consts
<1>2. NoFile \in File
  BY <1>1 DEF NoFile, File
<1> QED
  BY <1>2 DEF NoFile, Freed, InUse

-----------------------------------------------------------------------------
(* Ranks. *)

\* A timestamp keeps being one, and no timestamp none.
LEMMA RankIs ==
  ASSUME NEW used \in SUBSET Nat, IsFiniteSet(used), Cardinality(used) <= Top, NEW t \in used
  PROVE  Rank(t, used) \in 0..Top /\ (Rank(t, used) = 0 <=> t = 0)
<1> DEFINE below == {u \in used \ {0} : u <= t}
<1>1. below \in SUBSET used
  OBVIOUS
<1>2. t \in Nat /\ (below = {} <=> t = 0)
  <2>1. t \in Nat /\ (t # 0 => t \in below)
    OBVIOUS
  <2>2. ASSUME t = 0, NEW u \in below PROVE FALSE
    <3>1. u \in Nat /\ u # 0 /\ u <= 0
      BY <2>2
    <3> QED
      BY <3>1
  <2> QED
    BY <2>1, <2>2
<1> HIDE DEF below
<1>3. /\ IsFiniteSet(below) /\ Cardinality(below) <= Cardinality(used)
  BY <1>1, FS_Subset
<1>4. Cardinality(below) \in Nat /\ Cardinality(used) \in Nat
  BY <1>3, FS_CardinalityType
<1>5. Cardinality(below) = 0 <=> below = {}
  BY <1>3, FS_EmptySet, Zenon
<1>6. Rank(t, used) = Cardinality(below)
  BY DEF Rank, below
<1> QED
  BY <1>2, <1>3, <1>4, <1>5, <1>6, Consts

\* Ranking changes nothing else.
LEMMA RankedIs ==
  ASSUME NEW fs \in [Place -> Unranked], NEW c \in Nat \ {0}, StoreRanked(fs, c)
  PROVE  /\ files' \in [Place -> File] /\ counter' \in 1..Top
         /\ InUse(files') = InUse(fs)
         /\ \A p \in Place : /\ files'[p].lot = fs[p].lot /\ files'[p].name = fs[p].name
                             /\ files'[p].frags = fs[p].frags
<1> DEFINE stamps == {fs[p].timestamp : p \in Place}
           stamp == [p \in Place |-> fs[p].timestamp]
           used == stamps \cup {c}
<1>1. stamp \in Surjection(Place, stamps)
  BY DEF Surjection
<1>2. stamps \subseteq Nat
  BY DEF Unranked
<1> HIDE DEF stamp
<1>3. IsFiniteSet(stamps) /\ Cardinality(stamps) <= Cardinality(Place)
  <2> HIDE DEF stamps
  <2> QED
    BY <1>1, FS_Surjection, Consts
<1>4. IsFiniteSet(used) /\ Cardinality(used) <= Top
  <2> HIDE DEF stamps
  <2>1. Cardinality(stamps) \in Nat
    BY <1>3, FS_CardinalityType
  <2>2. /\ IsFiniteSet(stamps \cup {c})
        /\ Cardinality(stamps \cup {c}) = IF c \in stamps THEN Cardinality(stamps) ELSE Cardinality(stamps) + 1
    BY <1>3, FS_AddElement
  <2>3. Cardinality(stamps \cup {c}) \in Nat
    BY <2>2, FS_CardinalityType
  <2> QED
    BY <1>3, <2>1, <2>2, <2>3, Consts DEF Top
<1>5. used \in SUBSET Nat /\ c \in used /\ \A p \in Place : fs[p].timestamp \in used
  BY <1>2
<1>6. /\ files' = [p \in Place |-> [fs[p] EXCEPT !.timestamp = Rank(@, used)]]
      /\ counter' = Rank(c, used)
  BY DEF StoreRanked
<1> HIDE DEF used, stamps
<1>7. ASSUME NEW t \in used PROVE Rank(t, used) \in 0..Top /\ (Rank(t, used) = 0 <=> t = 0)
  BY <1>4, <1>5, <1>7, RankIs
<1>8. counter' \in 1..Top
  BY <1>5, <1>6, <1>7, Consts
<1>9. ASSUME NEW p \in Place
      PROVE  /\ files'[p] \in File
             /\ files'[p].timestamp = 0 <=> fs[p].timestamp = 0
             /\ files'[p].lot = fs[p].lot /\ files'[p].name = fs[p].name
             /\ files'[p].frags = fs[p].frags
  <2> DEFINE r == Rank(fs[p].timestamp, used)
  <2>1. r \in 0..Top /\ (r = 0 <=> fs[p].timestamp = 0)
    BY <1>5, <1>7
  <2>2. files'[p] = [fs[p] EXCEPT !.timestamp = r]
    BY <1>6
  <2> HIDE DEF r
  <2> QED
    BY <2>1, <2>2 DEF Unranked, File
<1>10. files' \in [Place -> File]
  BY <1>6, <1>9
<1> QED
  BY <1>8, <1>9, <1>10 DEF InUse

-----------------------------------------------------------------------------
(* The table. *)

\* What parseSIG makes of a table: no more services than there is place for.
Accumulated ==
  [list: {l \in Seq(Service) : Len(l) <= MaxServices}, fits: BOOLEAN, again: SUBSET Nat]

\* One service of a table keeps the list within its limit.
LEMMA ListedIs ==
  ASSUME NEW acc \in Accumulated, NEW service \in Service
  PROVE  Listed(acc, service) \in Accumulated
<1> DEFINE same == {i \in DOMAIN acc.list : acc.list[i].number = service.number}
           replaced == [i \in DOMAIN acc.list |-> IF i \in same THEN service ELSE acc.list[i]]
<1>1. /\ acc.list \in Seq(Service) /\ Len(acc.list) <= MaxServices
      /\ acc.fits \in BOOLEAN /\ acc.again \in SUBSET Nat
  BY DEF Accumulated
<1>2. DOMAIN acc.list = 1..Len(acc.list) /\ Len(acc.list) \in Nat /\ MaxServices \in Nat
  BY <1>1, LenProperties, FilesAssumption
<1>3. replaced \in Seq(Service) /\ Len(replaced) = Len(acc.list)
  BY <1>1, <1>2
<1>4. same \subseteq Nat
  BY <1>2
<1>5. CASE same # {} /\ acc.fits
  <2>1. Listed(acc, service) = [acc EXCEPT !.list = replaced, !.again = acc.again \cup same]
    BY <1>5 DEF Listed
  <2> HIDE DEF replaced, same
  <2>2. acc.again \cup same \in SUBSET Nat
    BY <1>1, <1>4
  <2> QED
    BY <1>1, <1>3, <2>1, <2>2 DEF Accumulated
<1>6. CASE ~(same # {} /\ acc.fits) /\ acc.fits /\ Len(acc.list) < MaxServices
  <2>1. Listed(acc, service) = [acc EXCEPT !.list = Append(acc.list, service)]
    BY <1>6 DEF Listed
  <2>2. Append(acc.list, service) \in Seq(Service) /\ Len(Append(acc.list, service)) <= MaxServices
    BY <1>1, <1>2, <1>6
  <2> QED
    BY <1>1, <2>1, <2>2 DEF Accumulated
<1>7. CASE ~(same # {} /\ acc.fits) /\ ~(acc.fits /\ Len(acc.list) < MaxServices)
  <2>1. Listed(acc, service) = [acc EXCEPT !.fits = FALSE]
    BY <1>7 DEF Listed
  <2> QED
    BY <1>1, <2>1 DEF Accumulated
<1> QED
  BY <1>5, <1>6, <1>7

\* So do all of them, by induction over the table.
LEMMA ParsedIs == ASSUME TypeOK PROVE Parsed \in Accumulated
<1> DEFINE entries == Tables[table]
           n == Len(entries)
           a == [list |-> services, fits |-> TRUE, again |-> {}]
           F == [x \in (1..n) \X Accumulated |-> Listed(x[2], entries[x[1]])]
           Goes(f) == f = [j \in 0..n |-> IF j = 0 THEN a ELSE Listed(f[j - 1], entries[j])]
<1>1. table \in DOMAIN Tables /\ services \in Seq(Service) /\ Len(services) <= MaxServices
  BY Typed
<1>2. entries \in Seq(Service)
  BY <1>1, TablesAssumption, LenProperties, ElementOfSeq DEF Service
<1>3. n \in Nat /\ \A j \in 1..n : entries[j] \in Service
  BY <1>2, LenProperties, ElementOfSeq
<1>4. a \in Accumulated
  BY <1>1 DEF Accumulated
<1>5. ASSUME NEW j \in 1..n, NEW acc \in Accumulated PROVE Listed(acc, entries[j]) \in Accumulated
  BY <1>3, ListedIs
<1>6. Parsed = (CHOOSE f : Goes(f))[n]
  BY DEF Parsed
<1> HIDE DEF entries, n, a
<1>7. F \in [(1..n) \X Accumulated -> Accumulated]
  BY <1>5
<1>8. PICK f \in [0..n -> Accumulated] : Recurs(f, n, a, F)
  <2> HIDE DEF F
  <2>1. n \in Nat
    BY <1>3
  <2> QED
    BY <2>1, <1>4, <1>7, Recursion
<1>9. Goes(f)
  <2>1. ASSUME NEW i \in 1..n PROVE f[i] = Listed(f[i - 1], entries[i])
    <3>1. i - 1 \in 0..n /\ f[i - 1] \in Accumulated
      BY <1>3
    <3> QED
      BY <1>8, <3>1 DEF Recurs
  <2>2. ASSUME NEW j \in 0..n PROVE f[j] = IF j = 0 THEN a ELSE Listed(f[j - 1], entries[j])
    BY <1>8, <2>1, <1>3 DEF Recurs
  <2> QED
    BY <2>2
<1> DEFINE g == CHOOSE h : Goes(h)
<1>10. Goes(g)
  BY <1>9
<1> HIDE DEF g
<1> DEFINE T == {j \in 0..n : g[j] \in Accumulated}
<1>11. 0 \in T
  BY <1>3, <1>4, <1>10
<1>12. ASSUME NEW j \in 0..n - 1, j \in T PROVE j + 1 \in T
  <2>1. j + 1 \in 1..n /\ j + 1 \in 0..n /\ j + 1 # 0 /\ (j + 1) - 1 = j
    BY <1>3
  <2>2. g[j + 1] = Listed(g[j], entries[j + 1])
    BY <1>10, <2>1
  <2> QED
    BY <1>5, <1>12, <2>1, <2>2
<1>13. 0..n \subseteq T
  <2> HIDE DEF T
  <2> QED
    BY <1>3, <1>11, <1>12, Inductive
<1>14. g[n] \in Accumulated
  BY <1>3, <1>13
<1> QED
  BY <1>6, <1>14 DEF g

-----------------------------------------------------------------------------
(* Slots. *)

\* findPort finds a service of the list, or none.
LEMMA ComponentIs ==
  ASSUME TypeOK, NEW port
  PROVE  Component(port) \in 0..MaxServices
<1> DEFINE found == {s \in DOMAIN services : services[s].port = port}
<1>1. /\ DOMAIN services = 1..Len(services) /\ Len(services) \in Nat /\ Len(services) <= MaxServices
      /\ MaxServices \in Nat
  BY Typed, LenProperties, FilesAssumption
<1>2. CASE found = {}
  BY <1>1, <1>2 DEF Component
<1>3. CASE found # {}
  <2>1. PICK s \in found : \A t \in found : s <= t
    <3>1. found \subseteq Nat
      BY <1>1
    <3> HIDE DEF found
    <3> QED
      BY <1>3, <3>1, Least
  <2>2. ASSUME NEW t \in 1..s - 1 PROVE services[t].port # port
    <3>1. t \in DOMAIN services /\ ~(s <= t)
      BY <1>1, <2>2
    <3> QED
      BY <2>1, <3>1
  <2>3. Component(port) \in DOMAIN services
    BY <1>3, <2>1, <2>2 DEF Component
  <2> QED
    BY <1>1, <2>3
<1> QED
  BY <1>2, <1>3

\* findLot and findFreeLot find a slot: that of the lot, if it has one.
LEMMA SlotIs ==
  ASSUME TypeOK, NEW s \in 1..MaxServices, NEW lot
  PROVE  /\ SlotFor(s, lot) \in 1..Slots
         /\ Held(s, lot) # {} => SlotFor(s, lot) \in Held(s, lot)
<1> DEFINE stamp(i) == files[<<s, i>>].timestamp
           stamps == {stamp(i) : i \in 1..Slots}
<1>1. Slots \in Nat \ {0} /\ \A i \in 1..Slots : stamp(i) \in Nat
  <2>1. \A i \in 1..Slots : <<s, i>> \in Place /\ files[<<s, i>>] \in File
    BY Typed DEF Place
  <2> QED
    BY <2>1, FilesAssumption, Consts DEF File
<1>2. PICK least \in stamps : \A t \in stamps : least <= t
  <2>1. stamps \subseteq Nat /\ stamp(1) \in stamps
    <3>1. 1 \in 1..Slots
      BY <1>1
    <3> HIDE DEF stamp
    <3> QED
      BY <1>1, <3>1
  <2> HIDE DEF stamps
  <2> QED
    BY <2>1, Least
<1> DEFINE oldest == {i \in 1..Slots : stamp(i) = least}
<1>3. PICK i \in oldest : \A j \in oldest : i <= j
  <2>1. oldest \subseteq Nat /\ oldest # {}
    BY <1>2
  <2> HIDE DEF oldest
  <2> QED
    BY <2>1, Least
<1>4. i \in 1..Slots /\ \A j \in 1..Slots : stamp(i) < stamp(j) \/ (stamp(i) = stamp(j) /\ i <= j)
  <2>1. i \in 1..Slots /\ stamp(i) = least
    BY <1>3
  <2>2. ASSUME NEW j \in 1..Slots PROVE stamp(i) < stamp(j) \/ (stamp(i) = stamp(j) /\ i <= j)
    <3>1. least <= stamp(j) /\ least \in Nat /\ stamp(j) \in Nat
      BY <1>1, <1>2, <2>1
    <3>2. CASE stamp(j) = least
      BY <1>3, <2>1, <3>2
    <3>3. CASE stamp(j) # least
      BY <2>1, <3>1, <3>3
    <3> QED
      BY <3>2, <3>3
  <2> QED
    BY <2>1, <2>2
<1>5. FreeSlot(s) \in 1..Slots
  BY <1>4 DEF FreeSlot
<1> QED
  BY <1>5 DEF SlotFor, Held

-----------------------------------------------------------------------------
(* A fragment in its slot. *)

\* A header of another file: what was there of the slot's file goes.
Afresh(old, f, v) == f = 0 /\ Changed(old, v)

\* The slot after a fragment: anew, or with what it had and the fragment.
LEMMA StoredIs ==
  ASSUME counter \in 1..Top, NEW old \in File, NEW lot \in Lots, NEW v \in Version, NEW f \in Fragment
  PROVE  LET new == Stored(old, lot, f, v) IN
         /\ new \in Unranked /\ new.lot = lot /\ new.timestamp # 0
         /\ new.name = IF f = 0 THEN v ELSE old.name
         /\ \A g \in Fragment :
              new.frags[g] = IF g = f /\ (Afresh(old, f, v) \/ old.frags[g] = 0) THEN v
                             ELSE IF Afresh(old, f, v) THEN 0 ELSE old.frags[g]
<1> DEFINE base == IF f = 0 THEN WithHeader(old, lot, v)
                   ELSE [old EXCEPT !.lot = lot, !.timestamp = counter]
           new == Stored(old, lot, f, v)
<1>1. /\ counter \in Nat /\ counter # 0 /\ counter + 1 \in Nat /\ counter + 1 # 0
      /\ lot \in Lots \cup {0} /\ v \in Version \cup {0}
      /\ old.lot \in Lots \cup {0} /\ old.name \in Version \cup {0}
      /\ old.frags \in [Fragment -> Version \cup {0}]
  BY Consts DEF File
<1>2. /\ base \in Unranked /\ base.lot = lot /\ base.timestamp # 0
      /\ base.name = IF f = 0 THEN v ELSE old.name
      /\ \A g \in Fragment : base.frags[g] = IF Afresh(old, f, v) THEN 0 ELSE old.frags[g]
  <2>1. CASE f # 0
    <3>1. base = [old EXCEPT !.lot = lot, !.timestamp = counter]
      BY <2>1
    <3> HIDE DEF base
    <3> QED
      BY <1>1, <2>1, <3>1 DEF File, Unranked, Afresh
  <2>2. CASE f = 0 /\ Changed(old, v)
    <3>1. base = [[NoFile EXCEPT !.lot = lot, !.timestamp = counter + 1] EXCEPT !.name = v]
      BY <2>2 DEF WithHeader
    <3>2. base = [lot |-> lot, name |-> v, frags |-> [g \in Fragment |-> 0], timestamp |-> counter + 1]
      BY <3>1 DEF NoFile
    <3> HIDE DEF base
    <3> QED
      BY <1>1, <2>2, <3>2 DEF Unranked, Afresh
  <2>3. CASE f = 0 /\ ~Changed(old, v)
    <3>1. base = [[old EXCEPT !.lot = lot, !.timestamp = counter] EXCEPT !.name = v]
      BY <2>3 DEF WithHeader
    <3>2. base = [lot |-> lot, name |-> v, frags |-> old.frags, timestamp |-> counter]
      BY <3>1 DEF File
    <3> HIDE DEF base
    <3> QED
      BY <1>1, <2>3, <3>2 DEF Unranked, Afresh
  <2> QED
    BY <2>1, <2>2, <2>3
<1>3. new = [base EXCEPT !.frags[f] = IF base.frags[f] = 0 THEN v ELSE base.frags[f]]
  BY DEF Stored, WithFragment
<1> HIDE DEF base, new
<1> DEFINE frags == [base.frags EXCEPT ![f] = IF base.frags[f] = 0 THEN v ELSE base.frags[f]]
<1>4. base.frags \in [Fragment -> Version \cup {0}]
  BY <1>2 DEF Unranked
<1>5. /\ frags \in [Fragment -> Version \cup {0}]
      /\ \A g \in Fragment : frags[g] = IF g = f /\ base.frags[g] = 0 THEN v ELSE base.frags[g]
  BY <1>1, <1>4
<1>6. new = [base EXCEPT !.frags = frags]
  BY <1>3
<1> HIDE DEF frags
<1>7. /\ new \in Unranked /\ new.lot = base.lot /\ new.timestamp = base.timestamp
      /\ new.name = base.name /\ new.frags = frags
  BY <1>2, <1>5, <1>6 DEF Unranked
<1>8. \A g \in Fragment :
        new.frags[g] = IF g = f /\ (Afresh(old, f, v) \/ old.frags[g] = 0) THEN v
                       ELSE IF Afresh(old, f, v) THEN 0 ELSE old.frags[g]
  BY <1>2, <1>5, <1>7
<1> QED
  BY <1>2, <1>7, <1>8 DEF new

\* What is told is of the slot, and all there.
LEMMA ToldIs ==
  ASSUME NEW p \in Place, NEW old \in File, NEW new \in Unranked, NEW f, NEW v, Told(p, old, new, f, v) # None
  PROVE  LET told == Told(p, old, new, f, v) IN
         /\ told \in [place: Place, version: Version, data: SUBSET Version]
         /\ told.place = p /\ told.version = new.name /\ new.name \in Version
         /\ told.data = {new.frags[g] : g \in 0..Size[new.name] - 1} /\ told.data # {}
         /\ NewData(old, f, v) /\ AllThere(new)
<1>1. /\ NewData(old, f, v) /\ AllThere(new)
      /\ Told(p, old, new, f, v) = [place |-> p, version |-> new.name,
                                    data |-> {new.frags[g] : g \in 0..Size[new.name] - 1}]
  BY DEF Told
<1>2. /\ new.name \in Version /\ new.frags \in [Fragment -> Version \cup {0}]
      /\ \A g \in 0..Size[new.name] - 1 : new.frags[g] # 0
  BY <1>1 DEF AllThere, Unranked
<1>3. /\ 0..Size[new.name] - 1 \subseteq Fragment /\ 0 \in 0..Size[new.name] - 1
  <2>1. Size[new.name] \in Nat \ {0} /\ 0..Size[new.name] - 1 \subseteq Fragment
    BY <1>2, Consts, Zenon
  <2> HIDE DEF Fragment
  <2> QED
    BY <2>1
<1> DEFINE data == {new.frags[g] : g \in 0..Size[new.name] - 1}
<1>4. data \in SUBSET Version /\ data # {}
  BY <1>2, <1>3
<1> HIDE DEF data
<1> QED
  BY <1>1, <1>2, <1>4 DEF data

\* The slot and the histories after a fragment was taken.
Put(p, old, new, lot, f, v) ==
  /\ files' \in [Place -> File] /\ counter' \in 1..Top
  /\ InUse(files') = InUse(files) \cup {p}
  /\ \A q \in Place \ {p} : /\ files'[q].lot = files[q].lot /\ files'[q].name = files[q].name
                            /\ files'[q].frags = files[q].frags
  /\ files'[p].lot = new.lot /\ files'[p].name = new.name /\ files'[p].frags = new.frags
  /\ complete' = Told(p, old, new, f, v)
  /\ p \in InUse(files) /\ files[p].lot = lot => old = files[p]
  /\ ~(p \in InUse(files) /\ files[p].lot = lot) => old = NoFile
  /\ done' = [done EXCEPT ![p] = IF complete' # None THEN new.name
                                 ELSE IF p \in InUse(files) /\ files[p].lot = lot THEN @ ELSE 0]
  /\ late' = (IF ~(p \in InUse(files) /\ files[p].lot = lot) \/ Afresh(old, f, v) THEN late \ {p} ELSE late)
             \cup (IF new.name # v THEN {p} ELSE {})

\* A fragment taken changes its slot only, but for the ranks.
LEMMA TakenIs ==
  ASSUME TypeOK, NEW s \in 1..MaxServices, NEW lot \in Lots, NEW v \in Version, NEW f \in Fragment,
         TakeFragment(s, lot, f, v)
  PROVE  \E p \in Place, old \in File, new \in Unranked :
           new = Stored(old, lot, f, v) /\ Put(p, old, new, lot, f, v)
<1> DEFINE i == SlotFor(s, lot)
           p == <<s, i>>
           held == Held(s, lot) # {}
           old == IF held THEN files[p] ELSE NoFile
           new == Stored(old, lot, f, v)
           fs == [files EXCEPT ![p] = new]
<1>1. /\ files \in [Place -> File] /\ counter \in 1..Top /\ counter + 1 \in Nat \ {0}
      /\ done \in [Place -> Version \cup {0}]
  BY Typed, Consts
<1>2. i \in 1..Slots /\ (held => i \in Held(s, lot))
  BY SlotIs
<1>3. p \in Place
  BY <1>2 DEF Place
<1>4. held <=> p \in InUse(files) /\ files[p].lot = lot
  BY <1>2, <1>3 DEF InUse, Held
<1>5. old \in File
  BY <1>1, <1>3, NoFileIs
<1>6. /\ StoreRanked(fs, counter + 1)
      /\ complete' = Told(p, old, new, f, v)
      /\ done' = [done EXCEPT ![p] = IF Told(p, old, new, f, v) # None THEN Told(p, old, new, f, v).version
                                     ELSE IF held THEN @ ELSE 0]
      /\ late' = (IF ~held \/ Afresh(old, f, v) THEN late \ {p} ELSE late)
                 \cup (IF new.name # v THEN {p} ELSE {})
  BY DEF TakeFragment, Afresh
<1> HIDE DEF i
<1> HIDE DEF p, held, new
<1>7. held => old = files[p]
  OBVIOUS
<1>8. ~held => old = NoFile
  OBVIOUS
<1> HIDE DEF old
<1>9. new \in Unranked /\ new.timestamp # 0
  BY <1>1, <1>5, StoredIs DEF new
<1>10. File \subseteq Unranked
  BY Consts DEF File, Unranked
<1>11. /\ fs \in [Place -> Unranked] /\ fs[p] = new /\ \A q \in Place \ {p} : fs[q] = files[q]
  BY <1>1, <1>3, <1>9, <1>10
<1> HIDE DEF fs
<1>12. /\ files' \in [Place -> File] /\ counter' \in 1..Top
       /\ InUse(files') = InUse(fs)
       /\ \A q \in Place : /\ files'[q].lot = fs[q].lot /\ files'[q].name = fs[q].name
                           /\ files'[q].frags = fs[q].frags
  BY <1>1, <1>6, <1>11, RankedIs
<1>13. InUse(fs) = InUse(files) \cup {p}
  BY <1>3, <1>9, <1>11 DEF InUse
<1>14. Told(p, old, new, f, v) # None => Told(p, old, new, f, v).version = new.name
  BY <1>3, <1>5, <1>9, ToldIs
<1>15. done' = [done EXCEPT ![p] = IF complete' # None THEN new.name ELSE IF held THEN @ ELSE 0]
  BY <1>6, <1>14
<1>16. Put(p, old, new, lot, f, v)
  BY <1>3, <1>4, <1>6, <1>7, <1>8, <1>11, <1>12, <1>13, <1>15 DEF Put
<1> QED
  BY <1>3, <1>5, <1>9, <1>16 DEF new

\* A fragment taken keeps every part of the invariant, whatever slot it goes to.
LEMMA PutKeeps ==
  ASSUME IInv, NEW l \in Lots, NEW p \in Place, NEW old \in File, NEW new \in Unranked,
         new = Stored(old, l, next[l], cur[l]), Put(p, old, new, l, next[l], cur[l]),
         cur' = cur, since' = since, sig' = sig, table' = table,
         early' = (early \/ sig = 0)
  PROVE  /\ HeadersSent' /\ HeadersFirst' /\ CompleteWhole' /\ TablesUnmixed' /\ DoneStays' /\ FreeUntold'
         /\ sig' = 0 /\ ~early' => InUse(files') = {}
         /\ complete' \in [place: Place, version: Version, data: SUBSET Version] \cup {None}
         /\ done' \in [Place -> Version \cup {0}] /\ late' \subseteq Place
<1> DEFINE f == next[l]
           v == cur[l]
           held == p \in InUse(files) /\ files[p].lot = l
           afresh == Afresh(old, f, v)
           told == complete' # None
<1>1. /\ TypeOK /\ CarouselGoes /\ HeadersSent /\ HeadersFirst /\ TablesUnmixed /\ DoneStays
      /\ f \in Fragment /\ v \in Version /\ v \in Nat /\ v # 0 /\ counter \in 1..Top
      /\ f \in 0..Size[v] - 1 /\ since[l] <= v /\ since[l] \in Nat /\ cur \in [Lots -> Version]
      /\ files \in [Place -> File] /\ done \in [Place -> Version \cup {0}] /\ late \subseteq Place
      /\ since \in [Lots -> Version] /\ Version \subseteq Nat /\ Fragment \subseteq Nat
  <2>1. /\ TypeOK /\ CarouselGoes /\ HeadersSent /\ HeadersFirst /\ TablesUnmixed /\ DoneStays
    BY DEF IInv
  <2>2. f < Size[v] /\ since[l] <= v
    BY <2>1 DEF CarouselGoes
  <2>3. /\ f \in Fragment /\ v \in Version /\ counter \in 1..Top /\ since[l] \in Version
        /\ files \in [Place -> File] /\ done \in [Place -> Version \cup {0}] /\ late \subseteq Place
        /\ cur \in [Lots -> Version] /\ since \in [Lots -> Version]
    BY <2>1, Typed
  <2>4. Version \subseteq Nat \ {0} /\ Fragment \subseteq Nat /\ Size[v] \in Nat
    BY <2>3, Consts
  <2> HIDE DEF f, v
  <2>5. f \in Nat /\ v \in Nat /\ v # 0 /\ since[l] \in Nat
    BY <2>3, <2>4
  <2>6. f \in 0..Size[v] - 1
    BY <2>2, <2>4, <2>5
  <2> QED
    BY <2>1, <2>2, <2>3, <2>4, <2>5, <2>6
<1>2. /\ new.lot = l /\ new.name = IF f = 0 THEN v ELSE old.name
      /\ \A g \in Fragment :
           new.frags[g] = IF g = f /\ (afresh \/ old.frags[g] = 0) THEN v
                          ELSE IF afresh THEN 0 ELSE old.frags[g]
  BY <1>1, StoredIs
<1>3. /\ files' \in [Place -> File]
      /\ InUse(files') = InUse(files) \cup {p}
      /\ \A q \in Place \ {p} : /\ files'[q].lot = files[q].lot /\ files'[q].name = files[q].name
                                /\ files'[q].frags = files[q].frags
      /\ files'[p].lot = new.lot /\ files'[p].name = new.name /\ files'[p].frags = new.frags
      /\ complete' = Told(p, old, new, f, v)
      /\ (held => old = files[p]) /\ (~held => old = NoFile)
      /\ done' = [done EXCEPT ![p] = IF told THEN new.name ELSE IF held THEN @ ELSE 0]
      /\ late' = (IF ~held \/ afresh THEN late \ {p} ELSE late) \cup (IF new.name # v THEN {p} ELSE {})
  BY DEF Put
<1>4. told => /\ complete' \in [place: Place, version: Version, data: SUBSET Version]
              /\ complete'.place = p /\ complete'.version = new.name /\ new.name \in Version
              /\ complete'.data = {new.frags[g] : g \in 0..Size[new.name] - 1} /\ complete'.data # {}
              /\ NewData(old, f, v) /\ AllThere(new)
  BY <1>3, ToldIs
<1>5. /\ new.name \in Version \cup {0} /\ old.name \in Version \cup {0}
      /\ new.frags \in [Fragment -> Version \cup {0}] /\ old.frags \in [Fragment -> Version \cup {0}]
  BY DEF File, Unranked
<1>6. ~held => old.name = 0 /\ (\A g \in Fragment : old.frags[g] = 0) /\ ~afresh
  BY <1>3, NoFileIs DEF Afresh, Changed
<1>7. held => old.name <= v /\ done[p] <= old.name
  BY <1>1, <1>3 DEF HeadersSent
<1>8. /\ \A q \in Place \ {p} : done'[q] = done[q]
      /\ done'[p] = IF told THEN new.name ELSE IF held THEN done[p] ELSE 0
      /\ done' \in [Place -> Version \cup {0}]
  BY <1>1, <1>3, <1>4
<1>9. afresh <=> f = 0 /\ old.name # 0 /\ (old.name # v \/ v \in Odd)
  BY DEF Afresh, Changed
<1>10. AllThere(new) <=> new.name # 0 /\ \A g \in 0..Size[new.name] - 1 : new.frags[g] # 0
  BY DEF AllThere
<1>11. AllThere(old) <=> old.name # 0 /\ \A g \in 0..Size[old.name] - 1 : old.frags[g] # 0
  BY DEF AllThere
<1>12. \A w \in Version : 0..Size[w] - 1 \subseteq Fragment /\ Size[w] \in Nat \ {0}
  BY Consts
<1>13. cur' = cur /\ since' = since
  OBVIOUS
<1>nat. /\ done[p] \in Nat /\ done'[p] \in Nat /\ old.name \in Nat /\ new.name \in Nat
        /\ \A g \in Fragment : new.frags[g] \in Nat
  <2>1. Version \cup {0} \subseteq Nat
    BY <1>1
  <2> QED
    BY <1>1, <1>5, <1>8, <2>1
<1> HIDE DEF told, held, afresh, f, v
<1>14. HeadersSent'
  <2> SUFFICES ASSUME NEW q \in InUse(files')
               PROVE  /\ files'[q].lot \in Lots /\ files'[q].name <= cur[files'[q].lot]
                      /\ done'[q] <= files'[q].name
    BY <1>13 DEF HeadersSent
  <2>1. CASE q # p
    <3>1. q \in InUse(files) /\ q \in Place \ {p}
      BY <1>3, <2>1 DEF InUse
    <3> QED
      BY <1>1, <1>3, <1>8, <3>1 DEF HeadersSent
  <2>2. CASE q = p
    <3>1. new.name <= v
      BY <1>1, <1>2, <1>6, <1>7
    <3>2. done'[p] <= new.name
      <4>1. CASE told
        BY <1>8, <1>nat, <4>1
      <4>2. CASE ~told /\ held
        <5>1. done[p] \in Nat /\ old.name \in Nat /\ done[p] <= old.name /\ old.name <= v /\ done'[p] = done[p]
          BY <1>7, <1>8, <1>nat, <4>2
        <5> QED
          BY <1>1, <1>2, <5>1
      <4>3. CASE ~told /\ ~held
        BY <1>8, <1>nat, <4>3
      <4> QED
        BY <4>1, <4>2, <4>3
    <3> QED
      BY <1>2, <1>3, <2>2, <3>1, <3>2 DEF v
  <2> QED
    BY <2>1, <2>2
<1>15. p \notin late' => /\ new.name = v
                         /\ ~held \/ afresh \/ p \notin late
  BY <1>3
<1>16. p \notin late' => \A g \in Fragment : new.frags[g] \in {0, new.name}
  <2> SUFFICES ASSUME p \notin late', NEW g \in Fragment PROVE new.frags[g] \in {0, v}
    BY <1>15
  <2>1. CASE ~held \/ afresh
    BY <1>2, <1>6, <2>1
  <2>2. CASE held /\ ~afresh
    <3>1. old.frags[g] \in {0, old.name}
      BY <1>1, <1>3, <1>15, <2>2 DEF HeadersFirst, held
    <3>2. old.name \in {0, v}
      BY <1>2, <1>9, <1>15, <2>2
    <3> QED
      BY <1>2, <2>2, <3>1, <3>2
  <2> QED
    BY <2>1, <2>2
<1>17. HeadersFirst'
  <2> SUFFICES ASSUME NEW q \in InUse(files'), q \notin late', NEW g \in Fragment
               PROVE  files'[q].frags[g] \in {0, files'[q].name}
    BY DEF HeadersFirst
  <2>1. CASE q # p
    <3>1. q \in InUse(files) /\ q \in Place \ {p} /\ q \notin late
      BY <1>3, <2>1 DEF InUse
    <3> QED
      BY <1>1, <1>3, <3>1 DEF HeadersFirst
  <2>2. CASE q = p
    BY <1>3, <1>16, <2>2
  <2> QED
    BY <2>1, <2>2
<1>18. CompleteWhole'
  <2> SUFFICES ASSUME told, p \notin late' PROVE complete'.data = {new.name}
    BY <1>4 DEF CompleteWhole, told
  <2>1. \A g \in 0..Size[new.name] - 1 : new.frags[g] = new.name
    BY <1>4, <1>10, <1>12, <1>16
  <2> QED
    BY <1>4, <2>1
<1>19. ASSUME sig' = table', ~early', NEW q \in InUse(files'), NEW g \in Fragment, files'[q].frags[g] # 0
       PROVE  files'[q].frags[g] >= since'[files'[q].lot]
  <2>1. \A r \in InUse(files) : files[r].frags[g] # 0 => files[r].frags[g] >= since[files[r].lot]
    BY <1>1, <1>19 DEF TablesUnmixed
  <2>2. CASE q # p
    <3>1. q \in InUse(files) /\ q \in Place \ {p}
      BY <1>3, <1>19, <2>2 DEF InUse
    <3> QED
      BY <1>3, <1>13, <1>19, <2>1, <3>1
  <2>3. CASE q = p
    <3>1. new.frags[g] # 0
      BY <1>3, <1>19, <2>3
    <3>2. CASE new.frags[g] = v
      BY <1>1, <1>2, <1>3, <1>13, <2>3, <3>2 DEF v
    <3>3. CASE new.frags[g] # v
      <4>1. new.frags[g] = old.frags[g] /\ held
        BY <1>2, <1>6, <3>1, <3>3
      <4> QED
        BY <1>2, <1>3, <1>13, <2>1, <2>3, <3>1, <4>1 DEF held
    <3> QED
      BY <3>2, <3>3
  <2> QED
    BY <2>2, <2>3
<1>20. TablesUnmixed'
  BY <1>19 DEF TablesUnmixed
<1>21. p \notin late' /\ done'[p] # 0 /\ done'[p] = new.name /\ done'[p] \notin Odd => AllThere(new)
  <2> SUFFICES ASSUME p \notin late', done'[p] # 0, done'[p] = new.name, new.name \notin Odd, ~told
               PROVE  AllThere(new)
    BY <1>4
  <2>1. held /\ done[p] = v /\ old.name = v /\ ~afresh
    <3>1. held /\ done'[p] = done[p]
      BY <1>8
    <3>2. done[p] = v /\ done[p] <= old.name /\ old.name <= v /\ old.name \in Nat
      BY <1>1, <1>2, <1>7, <1>8, <1>15, <1>nat, <3>1
    <3> QED
      BY <1>1, <1>9, <1>15, <3>1, <3>2
  <2>2. AllThere(old)
    <3>1. p \in InUse(files) \ late /\ done[p] = files[p].name /\ done[p] # 0 /\ done[p] \notin Odd /\ old = files[p]
      BY <1>1, <1>3, <1>15, <2>1 DEF held
    <3> QED
      BY <1>1, <3>1 DEF DoneStays
  <2>3. \A g \in 0..Size[v] - 1 : new.frags[g] # 0
    BY <1>1, <1>2, <1>11, <1>12, <2>1, <2>2
  <2> QED
    BY <1>1, <1>10, <1>15, <2>3
<1>22. DoneStays'
  <2> SUFFICES ASSUME NEW q \in InUse(files'), q \notin late', done'[q] # 0, done'[q] = files'[q].name,
                      done'[q] \notin Odd
               PROVE  AllThere(files'[q])
    BY DEF DoneStays
  <2>1. CASE q # p
    <3>1. q \in InUse(files) /\ q \in Place \ {p} /\ q \notin late
      BY <1>3, <2>1 DEF InUse
    <3> QED
      BY <1>1, <1>3, <1>8, <3>1 DEF DoneStays, AllThere
  <2>2. CASE q = p
    BY <1>3, <1>21, <2>2 DEF AllThere
  <2> QED
    BY <2>1, <2>2
<1>23. early' = FALSE => sig' # 0
  OBVIOUS
<1>24. complete' \in [place: Place, version: Version, data: SUBSET Version] \cup {None}
  BY <1>4 DEF told
<1>25. late' \subseteq Place
  BY <1>1, <1>3
<1>26. FreeUntold'
  BY <1>3, <1>8 DEF FreeUntold, IInv
<1> QED
  BY <1>8, <1>14, <1>17, <1>18, <1>20, <1>22, <1>23, <1>24, <1>25, <1>26

-----------------------------------------------------------------------------
(* Steps. *)

\* The invariant holds before anything is received.
LEMMA InitIInv == Init => IInv
<1> SUFFICES ASSUME Init PROVE IInv
  OBVIOUS
<1>1. /\ sends = First /\ table = 1 /\ cur = [l \in Lots |-> 1]
      /\ next \in [Lots -> Fragment] /\ \A l \in Lots : next[l] < IF l \in sends THEN Size[1] ELSE 1
      /\ sig = 0 /\ services = << >> /\ files = [p \in Place |-> NoFile] /\ counter = 1
      /\ complete = None /\ done = [p \in Place |-> 0] /\ late = {} /\ early = FALSE
      /\ since = [l \in Lots |-> 1] /\ trouble = 0
  BY DEF Init
<1>2. /\ files = Freed /\ files \in [Place -> File] /\ InUse(files) = {}
  BY <1>1, NoFileIs DEF Freed
<1>3. CarouselGoes
  <2> SUFFICES ASSUME NEW l \in Lots PROVE next[l] < Size[cur[l]] /\ since[l] <= cur[l]
    BY DEF CarouselGoes
  <2>1. next[l] < (IF l \in sends THEN Size[1] ELSE 1) /\ next[l] \in Fragment /\ cur[l] = 1 /\ since[l] = 1
    BY <1>1
  <2>2. Size[1] \in Nat \ {0} /\ next[l] \in Nat
    BY <2>1, Consts
  <2> QED
    BY <2>1, <2>2
<1>4. TypeOK
  <2>1. 1 \in 1..Top /\ 1 \in Version /\ MaxTrouble \in Nat /\ MaxServices \in Nat
    BY Consts, FilesAssumption
  <2>2. services \in Seq(Service) /\ Len(services) = 0
    BY <1>1
  <2>3. /\ sends \subseteq Lots /\ table \in DOMAIN Tables /\ cur \in [Lots -> Version]
        /\ since \in [Lots -> Version] /\ done \in [Place -> Version \cup {0}]
    BY <1>1, <2>1, FilesAssumption, TablesAssumption
  <2>4. services \in Seq(Service) /\ Len(services) <= MaxServices
    BY <2>1, <2>2
  <2>5. /\ sig = 0 /\ counter \in 1..Top /\ complete = None /\ late = {} /\ early = FALSE
        /\ trouble \in 0..MaxTrouble
    BY <1>1, <2>1
  <2> QED
    BY <1>1, <1>2, <2>3, <2>4, <2>5 DEF TypeOK, Top, File, Service
<1>5. TableKnown
  BY <1>1, <1>2 DEF TableKnown
<1>6. CompleteWhole
  BY <1>1 DEF CompleteWhole
<1>7. HeadersSent /\ HeadersFirst /\ TablesUnmixed /\ DoneStays
  BY <1>2 DEF HeadersSent, HeadersFirst, TablesUnmixed, DoneStays
<1>8. FreeUntold
  BY <1>1 DEF FreeUntold
<1> QED
  BY <1>3, <1>4, <1>5, <1>6, <1>7, <1>8 DEF IInv

\* What the receiver keeps stays what it was when versions only give way to later ones.
Stays ==
  /\ UNCHANGED <<table, sig, services, files, counter, done, late, since>>
  /\ complete' = None
  /\ early' \in BOOLEAN /\ (early => early')

\* Such a step keeps the invariant of the slots.
LEMMA StaysKeeps ==
  ASSUME IInv, Stays,
         sends' \subseteq Lots, cur' \in [Lots -> Version], next' \in [Lots -> Fragment],
         trouble' \in 0..MaxTrouble,
         \A l \in Lots : next'[l] < Size[cur'[l]] /\ cur[l] <= cur'[l]
  PROVE  IInv'
<1>1. TypeOK'
  BY DEF IInv, Stays, TypeOK
<1>2. /\ cur \in [Lots -> Version] /\ since \in [Lots -> Version] /\ Version \subseteq Nat
      /\ files \in [Place -> File]
  BY Typed, Consts DEF IInv
<1>3. \A l \in Lots : cur[l] \in Nat /\ cur'[l] \in Nat /\ since[l] \in Nat
  BY <1>2
<1>4. CarouselGoes'
  BY <1>3 DEF IInv, Stays, CarouselGoes
<1>5. HeadersSent'
  <2> SUFFICES ASSUME NEW p \in InUse(files)
               PROVE  /\ files[p].lot \in Lots /\ files[p].name <= cur'[files[p].lot]
                      /\ done[p] <= files[p].name
    BY DEF HeadersSent, Stays, InUse
  <2>1. /\ files[p].lot \in Lots /\ files[p].name <= cur[files[p].lot]
        /\ done[p] <= files[p].name
    BY DEF IInv, HeadersSent
  <2>2. files[p].name \in Nat
    <3>1. p \in Place /\ files[p] \in File
      BY <1>2 DEF InUse
    <3>2. files[p].name \in Version \cup {0}
      BY <3>1 DEF File
    <3>3. Version \cup {0} \subseteq Nat
      BY <1>2
    <3> QED
      BY <3>2, <3>3, Zenon
  <2>3. cur[files[p].lot] <= cur'[files[p].lot] /\ cur[files[p].lot] \in Nat /\ cur'[files[p].lot] \in Nat
    BY <1>3, <2>1
  <2> QED
    BY <2>1, <2>2, <2>3
<1>6. TableKnown' /\ HeadersFirst' /\ TablesUnmixed' /\ DoneStays' /\ FreeUntold'
  BY DEF IInv, Stays, TableKnown, HeadersFirst, TablesUnmixed, DoneStays, FreeUntold, InUse, AllThere
<1>7. CompleteWhole'
  BY DEF Stays, CompleteWhole
<1> QED
  BY <1>1, <1>4, <1>5, <1>6, <1>7 DEF IInv

\* Slots are freed, or keep what they had.
Frees ==
  /\ files' \in [Place -> File]
  /\ \A p \in InUse(files') : p \in InUse(files) /\ files'[p] = files[p]
  /\ done' = [p \in Place |-> IF p \in InUse(files') THEN done[p] ELSE 0]
  /\ late' = late \cap InUse(files')
  /\ complete' = None
  /\ UNCHANGED <<station, since>>

\* So does such a step.
LEMMA FreesKeeps ==
  ASSUME IInv, Frees
  PROVE  /\ CarouselGoes' /\ HeadersSent' /\ HeadersFirst' /\ CompleteWhole' /\ DoneStays' /\ FreeUntold'
         /\ done' \in [Place -> Version \cup {0}] /\ late' \subseteq Place
<1>1. done \in [Place -> Version \cup {0}] /\ late \subseteq Place
  BY Typed DEF IInv
<1>2. \A p \in InUse(files') :
        /\ p \in Place /\ p \in InUse(files) /\ files'[p] = files[p] /\ done'[p] = done[p]
        /\ p \in late' <=> p \in late
  BY DEF Frees, InUse
<1>3. HeadersSent'
  BY <1>2 DEF IInv, Frees, HeadersSent
<1>4. HeadersFirst'
  BY <1>2 DEF IInv, HeadersFirst
<1>5. DoneStays'
  BY <1>2 DEF IInv, DoneStays, AllThere
<1>6. FreeUntold' /\ CompleteWhole' /\ CarouselGoes'
  BY DEF IInv, Frees, FreeUntold, CompleteWhole, CarouselGoes
<1>7. done' \in [Place -> Version \cup {0}] /\ late' \subseteq Place
  BY <1>1 DEF Frees
<1> QED
  BY <1>3, <1>4, <1>5, <1>6, <1>7

\* A SIG table keeps the invariant: what it frees has no history.
LEMMA ParseSigKeeps == IInv /\ ParseSig => IInv'
<1> SUFFICES ASSUME IInv, ParseSig PROVE IInv'
  OBVIOUS
<1>1. /\ sig' = table /\ services' = Parsed.list /\ files' = FilesAfterSig(Parsed.again)
      /\ counter' = IF sig # 0 THEN 1 ELSE counter
      /\ done' = [p \in Place |-> IF p \in InUse(files') THEN done[p] ELSE 0]
      /\ late' = late \cap InUse(files')
      /\ early' = (early /\ InUse(files') # {})
      /\ complete' = None
      /\ UNCHANGED <<station, since, trouble>>
  BY DEF ParseSig
<1>2. services' \in Seq(Service) /\ Len(services') <= MaxServices
  BY <1>1, ParsedIs DEF IInv, Accumulated
<1>3. TypeOK /\ files \in [Place -> File] /\ counter \in 1..Top /\ 1 \in 1..Top
  BY Typed, Consts DEF IInv
<1>4. /\ files' \in [Place -> File]
      /\ \A p \in InUse(files') : p \in InUse(files) /\ files'[p] = files[p]
      /\ sig # 0 => InUse(files') = {}
  <2>1. CASE sig # 0
    BY <1>1, <2>1, NoFileIs DEF FilesAfterSig
  <2>2. CASE sig = 0
    <3> DEFINE again == Parsed.again
    <3>1. files' = [p \in Place |-> IF p[1] \in again THEN NoFile ELSE files[p]]
      BY <1>1, <2>2 DEF FilesAfterSig
    <3> HIDE DEF again
    <3> QED
      BY <1>3, <2>2, <3>1, NoFileIs DEF InUse
  <2> QED
    BY <2>1, <2>2
<1>5. Frees
  BY <1>1, <1>4 DEF Frees
<1>6. /\ CarouselGoes' /\ HeadersSent' /\ HeadersFirst' /\ CompleteWhole' /\ DoneStays' /\ FreeUntold'
      /\ done' \in [Place -> Version \cup {0}] /\ late' \subseteq Place
  BY <1>5, FreesKeeps
<1>7. TypeOK'
  BY <1>1, <1>2, <1>3, <1>4, <1>6 DEF TypeOK, File, Service, Top
<1>8. TableKnown'
  <2>1. table \in Nat \ {0}
    BY <1>3, TableIs
  <2> QED
    BY <1>1, <2>1 DEF TableKnown
<1>9. ~early' => InUse(files') = {}
  <2>1. sig = 0 /\ ~early => InUse(files) = {}
    BY DEF IInv, TableKnown
  <2> QED
    BY <1>1, <1>4, <2>1
<1>10. TablesUnmixed'
  BY <1>9 DEF TablesUnmixed
<1> QED
  BY <1>6, <1>7, <1>8, <1>10 DEF IInv

\* aasReset keeps it: no slot is in use after it.
LEMMA ResetKeeps == IInv /\ Reset => IInv'
<1> SUFFICES ASSUME IInv, Reset PROVE IInv'
  OBVIOUS
<1>1. /\ trouble' \in 0..MaxTrouble
      /\ sig' = 0 /\ files' = Freed /\ counter' = 1 /\ complete' = None
      /\ done' = [p \in Place |-> 0] /\ late' = {} /\ early' = FALSE
      /\ UNCHANGED <<station, services, since>>
  <2>1. trouble \in 0..MaxTrouble /\ MaxTrouble \in Nat
    BY Typed, FilesAssumption DEF IInv
  <2> QED
    BY <2>1 DEF Reset, Trouble
<1>2. files' \in [Place -> File] /\ InUse(files') = {} /\ 1 \in 1..Top
  BY <1>1, NoFileIs, Consts
<1>3. Frees
  BY <1>1, <1>2 DEF Frees
<1>4. /\ CarouselGoes' /\ HeadersSent' /\ HeadersFirst' /\ CompleteWhole' /\ DoneStays' /\ FreeUntold'
      /\ done' \in [Place -> Version \cup {0}] /\ late' \subseteq Place
  BY <1>3, FreesKeeps
<1>5. TypeOK'
  BY <1>1, <1>2, <1>4 DEF IInv, TypeOK, File, Top
<1>6. TableKnown' /\ TablesUnmixed'
  <2>1. table' \in Nat \ {0}
    <3>1. table' = table /\ TypeOK
      BY <1>1 DEF IInv
    <3> QED
      BY <3>1, TableIs
  <2> QED
    BY <1>1, <1>2, <2>1 DEF TableKnown, TablesUnmixed
<1> QED
  BY <1>4, <1>5, <1>6 DEF IInv

\* Whatever becomes of it, the turn comes to the next fragment of the version.
LEMMA NextFragment ==
  ASSUME IInv, NEW l \in Lots, next' = [next EXCEPT ![l] = (@ + 1) % Size[cur[l]]]
  PROVE  next' \in [Lots -> Fragment] /\ \A k \in Lots : next'[k] < Size[cur[k]]
<1>1. cur \in [Lots -> Version] /\ next \in [Lots -> Fragment]
  BY Typed DEF IInv
<1> DEFINE n == next[l]
           size == Size[cur[l]]
<1>2. n \in Nat /\ size \in Nat \ {0} /\ 0..size - 1 \subseteq Fragment
  BY <1>1, Consts, Zenon
<1>3. (n + 1) % size \in 0..size - 1 /\ (n + 1) % size < size
  <2> HIDE DEF n, size
  <2> QED
    BY <1>2
<1>4. next' = [next EXCEPT ![l] = (n + 1) % size]
  OBVIOUS
<1>5. \A k \in Lots : next[k] < Size[cur[k]]
  BY DEF IInv, CarouselGoes
<1> DEFINE m == (n + 1) % size
<1>6. m \in Fragment /\ m < size
  BY <1>2, <1>3
<1> HIDE DEF m
<1> QED
  BY <1>1, <1>4, <1>5, <1>6 DEF m

\* A fragment of a lot keeps it, wherever findLot puts it.
LEMMA ReceiveKeeps == ASSUME IInv, NEW l \in Lots, Receive(l) PROVE IInv'
<1> DEFINE s == Component(Tables[table][1].port)
<1>1. /\ IF s = 0 THEN Dropped ELSE TakeFragment(s, l, next[l], cur[l])
      /\ early' = (early \/ (s # 0 /\ sig = 0))
      /\ next' = [next EXCEPT ![l] = (@ + 1) % Size[cur[l]]]
      /\ UNCHANGED <<sends, table, cur, sig, services, since, trouble>>
  BY DEF Receive
<1>2. TypeOK /\ CarouselGoes /\ s \in 0..MaxServices /\ MaxServices \in Nat
  BY ComponentIs, FilesAssumption DEF IInv
<1>3. /\ sends \subseteq Lots /\ cur \in [Lots -> Version] /\ next \in [Lots -> Fragment]
      /\ trouble \in 0..MaxTrouble /\ early \in BOOLEAN
  BY <1>2, Typed
<1>4. next' \in [Lots -> Fragment] /\ \A k \in Lots : next'[k] < Size[cur[k]]
  BY <1>1, NextFragment
<1> HIDE DEF s
<1>5. CASE s = 0
  <2>1. Stays
    BY <1>1, <1>3, <1>5 DEF Dropped, Stays
  <2>2. \A k \in Lots : cur[k] <= cur'[k]
    <3>1. \A k \in Lots : cur[k] \in Nat
      BY <1>3, Consts
    <3> QED
      BY <1>1, <3>1
  <2> QED
    BY <1>1, <1>3, <1>4, <2>1, <2>2, StaysKeeps
<1>6. CASE s # 0
  <2>1. s \in 1..MaxServices /\ cur[l] \in Version /\ next[l] \in Fragment
    BY <1>2, <1>3, <1>6
  <2>2. PICK p \in Place, old \in File, new \in Unranked :
           new = Stored(old, l, next[l], cur[l]) /\ Put(p, old, new, l, next[l], cur[l])
    BY <1>1, <1>2, <1>6, <2>1, TakenIs
  <2>3. early' = (early \/ sig = 0)
    BY <1>1, <1>6
  <2>4. /\ HeadersSent' /\ HeadersFirst' /\ CompleteWhole' /\ TablesUnmixed' /\ DoneStays' /\ FreeUntold'
        /\ sig' = 0 /\ ~early' => InUse(files') = {}
        /\ complete' \in [place: Place, version: Version, data: SUBSET Version] \cup {None}
        /\ done' \in [Place -> Version \cup {0}] /\ late' \subseteq Place
    BY <1>1, <2>2, <2>3, PutKeeps
  <2>5. files' \in [Place -> File] /\ counter' \in 1..Top
    BY <2>2 DEF Put
  <2>6. TypeOK'
    BY <1>1, <1>2, <1>4, <2>3, <2>4, <2>5 DEF TypeOK, File, Top
  <2>7. CarouselGoes' /\ TableKnown'
    BY <1>1, <1>4, <2>4 DEF IInv, CarouselGoes, TableKnown
  <2> QED
    BY <2>4, <2>6, <2>7 DEF IInv
<1> QED
  BY <1>5, <1>6

\* The station's and the channel's steps leave what the receiver keeps.
LEMMA StationKeeps ==
  ASSUME IInv, NEW l \in Lots, Lose(l) \/ ChangeFile(l) \/ ChangeLot(l)
  PROVE  IInv'
<1>1. /\ sends \subseteq Lots /\ cur \in [Lots -> Version] /\ next \in [Lots -> Fragment]
      /\ trouble \in 0..MaxTrouble /\ early \in BOOLEAN /\ MaxTrouble \in Nat
  BY Typed, FilesAssumption DEF IInv
<1>2. /\ \A k \in Lots : cur[k] \in Nat /\ next[k] \in Nat /\ next[k] < Size[cur[k]]
      /\ \A v \in Version : Size[v] \in Nat \ {0}
  BY <1>1, Consts DEF IInv, CarouselGoes
<1>3. Stays
  BY <1>1 DEF Lose, ChangeFile, ChangeLot, Stays
<1>4. CASE Lose(l)
  <2>1. /\ next' = [next EXCEPT ![l] = (@ + 1) % Size[cur[l]]]
        /\ sends' = sends /\ cur' = cur /\ trouble' \in 0..MaxTrouble
    BY <1>1, <1>4 DEF Lose, Trouble
  <2>2. next' \in [Lots -> Fragment] /\ \A k \in Lots : next'[k] < Size[cur[k]]
    BY <2>1, NextFragment
  <2>3. \A k \in Lots : next'[k] < Size[cur'[k]] /\ cur[k] <= cur'[k]
    BY <1>2, <2>1, <2>2
  <2> QED
    BY <1>1, <1>3, <2>1, <2>2, <2>3, StaysKeeps
<1>5. CASE ChangeFile(l)
  <2>1. /\ next[l] = 0 /\ cur[l] + 1 \in Version /\ cur' = [cur EXCEPT ![l] = @ + 1]
        /\ sends' = sends /\ next' = next /\ trouble' = trouble
    BY <1>5 DEF ChangeFile
  <2>2. \A k \in Lots : next'[k] < Size[cur'[k]] /\ cur[k] <= cur'[k]
    <3> SUFFICES ASSUME NEW k \in Lots PROVE next'[k] < Size[cur'[k]] /\ cur[k] <= cur'[k]
      OBVIOUS
    <3>1. CASE k = l
      <4>1. cur'[k] = cur[l] + 1 /\ Size[cur'[k]] \in Nat \ {0} /\ next'[k] = 0
        BY <1>1, <1>2, <2>1, <3>1
      <4> QED
        BY <1>2, <3>1, <4>1
    <3>2. CASE k # l
      BY <1>1, <1>2, <2>1, <3>2
    <3> QED
      BY <3>1, <3>2
  <2>3. cur' \in [Lots -> Version]
    BY <1>1, <2>1
  <2> QED
    BY <1>1, <1>3, <2>1, <2>2, <2>3, StaysKeeps
<1>6. CASE ChangeLot(l)
  <2>1. sends' \subseteq Lots /\ cur' = cur /\ next' = next /\ trouble' = trouble
    BY <1>1, <1>6 DEF ChangeLot
  <2>2. \A k \in Lots : next'[k] < Size[cur'[k]] /\ cur[k] <= cur'[k]
    BY <1>2, <2>1
  <2> QED
    BY <1>1, <1>3, <2>1, <2>2, StaysKeeps
<1> QED
  BY <1>4, <1>5, <1>6

\* The station changes its table; nothing in the receiver does.
LEMMA ChangeTableKeeps == IInv /\ ChangeTable => IInv'
<1> SUFFICES ASSUME IInv, ChangeTable PROVE IInv'
  OBVIOUS
<1>1. /\ table + 1 \in DOMAIN Tables /\ \A l \in sends : cur[l] + 1 \in Version
      /\ table' = table + 1
      /\ cur' = [l \in Lots |-> IF l \in sends THEN cur[l] + 1 ELSE cur[l]]
      /\ next' = [l \in Lots |-> 0] /\ since' = cur' /\ complete' = None
      /\ UNCHANGED <<sends, sig, services, files, counter, done, late, early, trouble>>
  BY DEF ChangeTable
<1>2. /\ TypeOK /\ cur \in [Lots -> Version] /\ Version \subseteq Nat \ {0}
      /\ files \in [Place -> File] /\ table \in Nat
  <2>1. TypeOK
    BY DEF IInv
  <2> QED
    BY <2>1, TableIs, Typed, Consts
<1>3. ASSUME NEW l \in Lots
      PROVE  cur'[l] \in Version /\ cur[l] \in Nat /\ cur'[l] \in Nat /\ cur[l] <= cur'[l]
  <2>1. /\ cur[l] \in Version /\ cur[l] \in Nat
        /\ cur'[l] = IF l \in sends THEN cur[l] + 1 ELSE cur[l]
    BY <1>1, <1>2
  <2>2. cur'[l] \in Version
    BY <1>1, <2>1
  <2> QED
    BY <2>1, <2>2
<1>4. cur' \in [Lots -> Version] /\ since' \in [Lots -> Version]
  BY <1>1, <1>3
<1>5. next' \in [Lots -> Fragment] /\ \A l \in Lots : next'[l] = 0 /\ Size[cur'[l]] \in Nat \ {0}
  BY <1>1, <1>3, Consts
<1>6. TypeOK'
  BY <1>1, <1>2, <1>4, <1>5 DEF TypeOK
<1>7. CarouselGoes'
  BY <1>1, <1>3, <1>5 DEF CarouselGoes
<1>8. HeadersSent'
  <2> SUFFICES ASSUME NEW p \in InUse(files)
               PROVE  /\ files[p].lot \in Lots /\ files[p].name <= cur'[files[p].lot]
                      /\ done[p] <= files[p].name
    BY <1>1 DEF HeadersSent, InUse
  <2>1. /\ files[p].lot \in Lots /\ files[p].name <= cur[files[p].lot]
        /\ done[p] <= files[p].name
    BY DEF IInv, HeadersSent
  <2>2. files[p].name \in Nat
    <3>1. p \in Place /\ files[p] \in File
      BY <1>2 DEF InUse
    <3>2. files[p].name \in Version \cup {0}
      BY <3>1 DEF File
    <3>3. Version \cup {0} \subseteq Nat
      BY <1>2
    <3> QED
      BY <3>2, <3>3, Zenon
  <2>3. cur[files[p].lot] <= cur'[files[p].lot] /\ cur[files[p].lot] \in Nat /\ cur'[files[p].lot] \in Nat
    BY <1>3, <2>1
  <2> QED
    BY <2>1, <2>2, <2>3
<1>9. sig' \in Nat /\ sig' <= table /\ (sig' = 0 /\ ~early' => InUse(files') = {})
  <2>1. sig \in Nat
    BY <1>2, TableIs
  <2> QED
    BY <1>1, <2>1 DEF IInv, TableKnown, InUse
<1>10. TableKnown' /\ TablesUnmixed'
  BY <1>1, <1>2, <1>9 DEF TableKnown, TablesUnmixed
<1>11. HeadersFirst' /\ DoneStays' /\ FreeUntold'
  BY <1>1 DEF IInv, HeadersFirst, DoneStays, FreeUntold, InUse, AllThere
<1>12. CompleteWhole'
  BY <1>1 DEF CompleteWhole
<1> QED
  BY <1>6, <1>7, <1>8, <1>10, <1>11, <1>12 DEF IInv

\* Every step keeps the invariant.
LEMMA NextIInv == IInv /\ [Next]_vars => IInv'
<1> SUFFICES ASSUME IInv, [Next]_vars PROVE IInv'
  OBVIOUS
<1>1. CASE UNCHANGED vars
  BY <1>1 DEF vars, IInv, TypeOK, CarouselGoes, TableKnown, HeadersSent, HeadersFirst, CompleteWhole,
     TablesUnmixed, DoneStays, FreeUntold, InUse, AllThere
<1>2. CASE ParseSig
  BY <1>2, ParseSigKeeps
<1>3. CASE ChangeTable
  BY <1>3, ChangeTableKeeps
<1>4. CASE Reset
  BY <1>4, ResetKeeps
<1>5. ASSUME NEW l \in Lots, Receive(l) PROVE IInv'
  BY <1>5, ReceiveKeeps
<1>6. ASSUME NEW l \in Lots, Lose(l) \/ ChangeFile(l) \/ ChangeLot(l) PROVE IInv'
  BY <1>6, StationKeeps
<1> QED
  BY <1>1, <1>2, <1>3, <1>4, <1>5, <1>6 DEF Next

\* A file that is told complete was not told complete before from its slot.
LEMMA ReceiveTellsOnce ==
  ASSUME IInv, NEW l \in Lots, Receive(l),
         complete' # None, complete'.version \notin Odd, complete'.place \notin late',
         files[complete'.place].lot = files'[complete'.place].lot
  PROVE  done[complete'.place] # complete'.version
<1> DEFINE s == Component(Tables[table][1].port)
           f == next[l]
           v == cur[l]
<1>1. IF s = 0 THEN Dropped ELSE TakeFragment(s, l, f, v)
  BY DEF Receive
<1>2. /\ TypeOK /\ s \in 0..MaxServices /\ MaxServices \in Nat
      /\ f \in Fragment /\ v \in Version /\ f < Size[v] /\ files \in [Place -> File]
  BY ComponentIs, Typed, FilesAssumption DEF IInv, CarouselGoes
<1> HIDE DEF s
<1>3. s \in 1..MaxServices /\ TakeFragment(s, l, f, v)
  BY <1>1, <1>2 DEF Dropped
<1>4. PICK p \in Place, old \in File, new \in Unranked :
        new = Stored(old, l, f, v) /\ Put(p, old, new, l, f, v)
  BY <1>2, <1>3, TakenIs
<1> DEFINE held == p \in InUse(files) /\ files[p].lot = l
           afresh == Afresh(old, f, v)
<1>5. /\ complete' = Told(p, old, new, f, v)
      /\ held => old = files[p]
      /\ late' = (IF ~held \/ afresh THEN late \ {p} ELSE late) \cup (IF new.name # v THEN {p} ELSE {})
      /\ files'[p].lot = new.lot
  BY <1>4 DEF Put
<1>6. /\ complete'.place = p /\ complete'.version = new.name /\ NewData(old, f, v)
  BY <1>4, <1>5, ToldIs
<1>7. new.name = v /\ p \notin late'
  BY <1>5, <1>6
<1>8. new.lot = l /\ new.name = IF f = 0 THEN v ELSE old.name
  <2>1. counter \in 1..Top
    BY <1>2, Typed
  <2> QED
    BY <1>2, <1>4, <2>1, StoredIs
<1>9. CASE ~held
  <2>1. p \notin InUse(files)
    BY <1>5, <1>6, <1>8, <1>9
  <2>2. done[p] = 0
    BY <2>1 DEF IInv, FreeUntold
  <2> QED
    BY <1>2, <1>6, <1>7, <2>2, Consts
<1>10. CASE held /\ done[p] = v
  <2>1. old.name = v
    <3>1. done[p] <= old.name /\ old.name <= v
      BY <1>5, <1>10 DEF IInv, HeadersSent
    <3>2. Version \cup {0} \subseteq Nat
      BY Consts
    <3>3. old.name \in Nat /\ v \in Nat
      BY <1>2, <3>2 DEF File
    <3> HIDE DEF v
    <3> QED
      BY <1>10, <3>1, <3>3
  <2>2. v \notin Odd /\ v # 0
    BY <1>2, <1>6, <1>7, Consts
  <2>3. ~Changed(old, v) /\ ~afresh
    BY <2>1, <2>2 DEF Changed, Afresh
  <2>4. AllThere(old)
    <3>1. p \in InUse(files) \ late /\ old = files[p]
      BY <1>5, <1>7, <1>10, <2>3
    <3> QED
      BY <1>10, <2>1, <2>2, <3>1 DEF IInv, DoneStays
  <2>5. old.frags[f] # 0
    <3>1. f \in Nat /\ Size[v] \in Nat
      BY <1>2, Consts
    <3>2. f \in 0..Size[v] - 1
      <4> HIDE DEF f, v
      <4> QED
        BY <1>2, <3>1
    <3> QED
      BY <2>1, <2>4, <3>2 DEF AllThere
  <2> QED
    BY <1>6, <2>1, <2>2, <2>3, <2>5 DEF NewData
<1> QED
  BY <1>6, <1>7, <1>9, <1>10

-----------------------------------------------------------------------------
(* Theorems. *)

\* Every variable keeps its type, whatever the tables list and however the slots are
\* taken and freed: timestamps stay ranks, a list of services within its limit.
THEOREM TypeCorrect == Spec => []TypeOK
<1>1. IInv => TypeOK
  BY DEF IInv
<1> QED
  BY <1>1, InitIInv, NextIInv, PTL DEF Spec

\* A file told complete is of one version, and no fragment of a table's files is kept
\* past that table: processPort, parseSIG and aasReset.
THEOREM FilesWhole == Spec => []FilesUnmixed
<1>1. IInv => FilesUnmixed
  BY DEF IInv, FilesUnmixed
<1> QED
  BY <1>1, InitIInv, NextIInv, PTL DEF Spec

\* A file is told complete once while it keeps its slot: newData of processPort.
THEOREM ToldOnce == Spec => CompleteOnce
<1> DEFINE Once == complete' # None /\ complete'.version \notin Odd /\ complete'.place \notin late'
                     => LET p == complete'.place IN
                        files[p].lot = files'[p].lot => done[p] # complete'.version
<1>1. ASSUME IInv, [Next]_vars PROVE [Once]_vars
  <2>1. ASSUME NEW l \in Lots, Receive(l) PROVE Once
    BY <1>1, <2>1, ReceiveTellsOnce
  <2>2. CASE ParseSig \/ ChangeTable \/ Reset
    BY <2>2 DEF ParseSig, ChangeTable, Reset
  <2>3. ASSUME NEW l \in Lots, Lose(l) \/ ChangeFile(l) \/ ChangeLot(l) PROVE Once
    BY <2>3 DEF Lose, ChangeFile, ChangeLot
  <2> HIDE DEF Once
  <2> QED
    BY <1>1, <2>1, <2>2, <2>3 DEF Next
<1> QED
  BY <1>1, InitIInv, NextIInv, PTL DEF Spec, CompleteOnce
=============================================================================
