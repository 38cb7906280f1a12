--------------------------- MODULE SampleFeedProofs ---------------------------
(***************************************************************************)
(* The windows are those of the recording, for any number of stages, size  *)
(* of windows and of calls.                                                *)
(***************************************************************************)
EXTENDS SampleFeed, FiniteSets, FiniteSetTheorems, WellFoundedInduction, SequenceTheorems, TLAPS

-----------------------------------------------------------------------------
(* Facts about numbers. *)

\* A set of numbers has a least one: the numbers below it are a smallest such set.
LEMMA Least ==
  ASSUME NEW T, T \subseteq Nat, T # {}
  PROVE  \E x \in T : \A y \in T : x <= y
<1> DEFINE R == StrictSubsetOrdering(Nat)
           U == {0..n - 1 : n \in T}
<1>1. IsWellFoundedOn(R, FiniteSubsetsOf(Nat))
  BY FS_StrictSubsetOrderingWellFounded
<1>2. U \subseteq FiniteSubsetsOf(Nat) /\ U # {}
  <2>1. ASSUME NEW n \in T PROVE 0..n - 1 \in FiniteSubsetsOf(Nat)
    <3>1. IsFiniteSet(0..n - 1)
      BY FS_Interval
    <3> QED
      BY <3>1 DEF FiniteSubsetsOf
  <2> QED
    BY <2>1
<1> HIDE DEF R
<1>3. PICK u \in U : \A v \in U : ~ (<<v, u>> \in R)
  <2> HIDE DEF U
  <2> QED
    BY <1>1, <1>2, WFMin
<1>4. PICK x \in T : u = 0..x - 1
  OBVIOUS
<1>5. ASSUME NEW y \in T, ~(x <= y) PROVE FALSE
  <2> DEFINE v == 0..y - 1
  <2>1. v \in U /\ v \subseteq u /\ v # u /\ v \subseteq Nat /\ u \subseteq Nat
    <3>1. y \in u /\ y \notin v /\ x \in Nat /\ y \in Nat
      BY <1>4, <1>5
    <3> QED
      BY <1>4, <1>5, <3>1
  <2> HIDE DEF v, U
  <2>2. <<v, u>> \in R
    BY <2>1 DEF R, StrictSubsetOrdering
  <2> QED
    BY <1>3, <2>1, <2>2
<1> QED
  BY <1>5

\* Induction, up to n: a set with 0, and with i + 1 whenever it has i.
LEMMA Inductive ==
  ASSUME NEW n \in Nat, NEW T, 0 \in T, \A i \in 0..n - 1 : i \in T => i + 1 \in T
  PROVE  0..n \subseteq T
<1> SUFFICES ASSUME (0..n) \ T # {} PROVE FALSE
  OBVIOUS
<1> DEFINE Missing == (0..n) \ T
<1>1. PICK x \in Missing : \A y \in Missing : x <= y
  <2>1. Missing \subseteq Nat /\ Missing # {}
    OBVIOUS
  <2> HIDE DEF Missing
  <2> QED
    BY <2>1, Least
<1>2. x # 0
  OBVIOUS
<1>3. x - 1 \in 0..n - 1 /\ ~(x <= x - 1)
  BY <1>2
<1>4. x - 1 \in T
  BY <1>1, <1>3
<1> QED
  BY <1>3, <1>4

\* f begins with a and goes on by F, up to n.
Recurs(f, n, a, F) == f[0] = a /\ \A i \in 1..n : f[i] = F[<<i, f[i - 1]>>]

\* There is such a function.
LEMMA Recursion ==
  ASSUME NEW n \in Nat, NEW A, NEW a \in A, NEW F \in [(1..n) \X A -> A]
  PROVE  \E f \in [0..n -> A] : Recurs(f, n, a, F)
<1> DEFINE Goes(f, m) == Recurs(f, m, a, F)
           T == {m \in 0..n : \E f \in [0..m -> A] : Goes(f, m)}
<1> USE DEF Recurs
<1>1. 0 \in T
  <2> DEFINE f == [i \in 0..0 |-> a]
  <2>1. f \in [0..0 -> A] /\ Goes(f, 0)
    OBVIOUS
  <2>2. \E h \in [0..0 -> A] : Goes(h, 0)
    BY <2>1
  <2> QED
    BY <2>2
<1>2. ASSUME NEW m \in 0..n - 1, m \in T PROVE m + 1 \in T
  <2>1. PICK f \in [0..m -> A] : Goes(f, m)
    BY <1>2
  <2> DEFINE g == [i \in 0..m + 1 |-> IF i = m + 1 THEN F[<<m + 1, f[m]>>] ELSE f[i]]
  <2>2. F[<<m + 1, f[m]>>] \in A
    OBVIOUS
  <2>3. g \in [0..m + 1 -> A]
    BY <2>2
  <2>4. \A i \in 0..m : g[i] = f[i]
    OBVIOUS
  <2>5. g[m + 1] = F[<<m + 1, f[m]>>]
    OBVIOUS
  <2> HIDE DEF g
  <2>6. Goes(g, m + 1)
    <3>1. g[0] = a
      BY <2>1, <2>4
    <3>2. ASSUME NEW i \in 1..m + 1 PROVE g[i] = F[<<i, g[i - 1]>>]
      <4>1. CASE i = m + 1
        BY <2>4, <2>5, <4>1
      <4>2. CASE i # m + 1
        <5>1. i \in 1..m /\ i - 1 \in 0..m /\ i \in 0..m
          BY <4>2
        <5> QED
          BY <2>1, <2>4, <5>1
      <4> QED
        BY <4>1, <4>2
    <3> QED
      BY <3>1, <3>2
  <2> QED
    BY <2>3, <2>6
<1>3. n \in T
  <2> HIDE DEF T
  <2>1. 0..n \subseteq T
    BY <1>1, <1>2, Inductive
  <2> QED
    BY <2>1
<1> QED
  BY <1>3

\* Division with remainder.
LEMMA Division ==
  ASSUME NEW n \in Nat \ {0}, NEW x \in Int
  PROVE  x % n \in 0..n - 1 /\ x \div n \in Int /\ x = n * (x \div n) + (x % n)
<1>1. x % n \in 0..n - 1
  OBVIOUS
<1>2. x \div n \in Int
  OBVIOUS
<1>3. x = n * (x \div n) + (x % n)
  OBVIOUS
<1> QED
  BY <1>1, <1>2, <1>3

\* The remainder is the only one below n.
LEMMA Remainder ==
  ASSUME NEW n \in Nat \ {0}, NEW x \in Int, NEW y \in 0..n - 1, NEW k \in Int, x = y + k * n
  PROVE  x % n = y
  OBVIOUS

\* And so is the quotient.
LEMMA Quotient ==
  ASSUME NEW n \in Nat \ {0}, NEW x \in Int, NEW y \in 0..n - 1, NEW k \in Int, x = y + k * n
  PROVE  x \div n = k
  OBVIOUS

\* Numbers that differ by whole rounds count as one.
LEMMA SameRemainder ==
  ASSUME NEW n \in Nat \ {0}, NEW x \in Int, NEW k \in Int
  PROVE  (x + k * n) % n = x % n
<1>1. x % n \in 0..n - 1 /\ x \div n \in Int /\ x = n * (x \div n) + (x % n)
  BY Division
<1> DEFINE y == x % n
           q == x \div n
<1> HIDE DEF y, q
<1>2. y \in 0..n - 1 /\ q \in Int /\ x = n * q + y
  BY <1>1 DEF y, q
<1>3. x + k * n = y + (q + k) * n /\ q + k \in Int /\ x + k * n \in Int
  BY <1>2
<1>4. (x + k * n) % n = y
  BY <1>2, <1>3, Remainder
<1> QED
  BY <1>4 DEF y

\* Counting on from a remainder.
LEMMA CountOn ==
  ASSUME NEW n \in Nat \ {0}, NEW x \in Int, NEW b \in Int
  PROVE  ((x % n) + b) % n = (x + b) % n
<1>1. x % n \in 0..n - 1 /\ x \div n \in Int /\ x = n * (x \div n) + (x % n)
  BY Division
<1> DEFINE y == x % n
           q == x \div n
<1> HIDE DEF y, q
<1>2. y \in Int /\ q \in Int /\ x = n * q + y
  BY <1>1 DEF y, q
<1>3. x + b = (y + b) + q * n /\ y + b \in Int
  BY <1>2
<1>4. (x + b) % n = (y + b) % n
  BY <1>2, <1>3, SameRemainder
<1> QED
  BY <1>4 DEF y

-----------------------------------------------------------------------------
\* n units of the recording from unit p on.
Run(p, n) == [i \in 1..n |-> (p + i - 1) % Period]

\* The first unit that no sample is made of yet, and the first of the sample in the
\* making.
Pos == IF feed \in HasLeftover THEN (fed + Period - Len(left[feed])) % Period ELSE fed
From == (next + Len(inBuffer) * UnitsOf(mode)) % Period

\* What is left over are the units from there.
LeftKept == feed \in HasLeftover => left[feed] = Run(Pos, Len(left[feed]))

\* The buffer has the samples of the window so far.
BufferFollows ==
  \A i \in 1..Len(inBuffer) : inBuffer[i] = (next + (i - 1) * UnitsOf(mode)) % Period

\* A stage whose bit of the offset is set has the first of two inputs, beside what the
\* higher bits stand for.
Filled(o, st, start) ==
  \A k \in 0..Stages - 1 :
    (o \div Halved[k]) % 2 = 1 => st[k][0] = (start + Group * Halved[k + 1] * (o \div Halved[k + 1])) % Period

\* The offset counts the groups of the sample in the making.
StagesFollow ==
  /\ UnitsOf(mode) = Group => offset = 0
  /\ (From + offset * Group) % Period = Pos
  /\ Filled(offset, stages, From)

Follows == LeftKept /\ Pos % Group = 0 /\ BufferFollows /\ StagesFollow /\ whole

IInv == TypeOK /\ (~spoilt => Follows)

-----------------------------------------------------------------------------
(* Numbers. *)

\* The recursive definition has a solution, so Halved is one.
LEMMA HalvedIs ==
  /\ Halved[0] = 1 /\ \A k \in 0..Stages : Halved[k] \in Nat \ {0}
  /\ \A k \in 0..Stages - 1 : Halved[k + 1] = 2 * Halved[k]
<1> DEFINE Goes(f) == f = [k \in 0..Stages |-> IF k = 0 THEN 1 ELSE 2 * f[k - 1]]
           F == [x \in (1..Stages) \X Nat |-> 2 * x[2]]
           h == CHOOSE f : Goes(f)
<1>1. Stages \in Nat \ {0}
  BY SizesAssumption
<1>2. F \in [(1..Stages) \X Nat -> Nat]
  OBVIOUS
<1>3. PICK f \in [0..Stages -> Nat] : Recurs(f, Stages, 1, F)
  <2> HIDE DEF F
  <2> QED
    BY <1>1, <1>2, Recursion
<1>4. Goes(f)
  <2>1. ASSUME NEW i \in 1..Stages PROVE f[i] = 2 * f[i - 1]
    <3>1. i - 1 \in 0..Stages /\ f[i - 1] \in Nat
      BY <1>1
    <3> QED
      BY <1>3, <3>1 DEF Recurs
  <2>2. ASSUME NEW j \in 0..Stages PROVE f[j] = IF j = 0 THEN 1 ELSE 2 * f[j - 1]
    <3>1. j = 0 \/ j \in 1..Stages
      BY <1>1
    <3> QED
      BY <1>3, <2>1, <3>1 DEF Recurs
  <2> QED
    BY <2>2
<1>5. Goes(h)
  BY <1>4
<1>6. Halved = h
  BY DEF Halved
<1> HIDE DEF h
<1>7. Halved[0] = 1
  BY <1>1, <1>5, <1>6
<1>8. ASSUME NEW k \in 0..Stages - 1 PROVE Halved[k + 1] = 2 * Halved[k]
  <2>1. k + 1 \in 0..Stages /\ k + 1 # 0 /\ (k + 1) - 1 = k
    BY <1>1
  <2> QED
    BY <1>5, <1>6, <2>1
<1> DEFINE T == {k \in 0..Stages : Halved[k] \in Nat \ {0}}
<1>9. 0 \in T
  BY <1>1, <1>7
<1>10. ASSUME NEW k \in 0..Stages - 1, k \in T PROVE k + 1 \in T
  BY <1>1, <1>8, <1>10
<1>11. 0..Stages \subseteq T
  <2> HIDE DEF T
  <2> QED
    BY <1>1, <1>9, <1>10, Inductive
<1> QED
  BY <1>7, <1>8, <1>11

\* Powers of two: a number's bit for h, and the numbers all of whose bits below are set.
LEMMA BitIs ==
  ASSUME NEW h \in Nat \ {0}, NEW o \in Nat
  PROVE  /\ o \div h \in Nat /\ o \div (2 * h) \in Nat /\ (o \div h) % 2 \in {0, 1}
         /\ o \div h = 2 * (o \div (2 * h)) + ((o \div h) % 2)
         /\ o % (2 * h) = 2 * h - 1 <=> o % h = h - 1 /\ (o \div h) % 2 = 1
<1> DEFINE d == 2 * h
           q == o \div d
           r == o % d
<1>1. d \in Nat \ {0} /\ d = 2 * h /\ o \in Int
  OBVIOUS
<1> HIDE DEF d
<1>2. r \in 0..d - 1 /\ q \in Int /\ o = d * q + r
  BY <1>1, Division
<1> HIDE DEF q, r
<1>3. q \in Nat
  <2>1. CASE q < 0
    <3>1. d * q <= -d
      BY <1>1, <1>2, <2>1
    <3> QED
      BY <1>1, <1>2, <3>1
  <2> QED
    BY <1>2, <2>1
<1>4. ASSUME NEW k \in Int, NEW s \in 0..h - 1, o = s + k * h PROVE o % h = s /\ o \div h = k
  BY <1>4, Remainder, Quotient
<1> DEFINE Split ==
      /\ o \div h \in Nat /\ q \in Nat /\ (o \div h) % 2 \in {0, 1}
      /\ o \div h = 2 * q + ((o \div h) % 2)
      /\ r = d - 1 <=> o % h = h - 1 /\ (o \div h) % 2 = 1
<1>5. ASSUME r < h PROVE Split
  <2> DEFINE k == 2 * q
  <2>1. k \in Nat /\ k % 2 = 0 /\ o = r + k * h /\ r \in 0..h - 1
    BY <1>1, <1>2, <1>3, <1>5
  <2>2. k = 2 * q
    OBVIOUS
  <2> HIDE DEF k
  <2>3. o % h = r /\ o \div h = k
    BY <1>4, <2>1
  <2> QED
    BY <1>1, <1>2, <1>3, <1>5, <2>1, <2>2, <2>3
<1>6. ASSUME r >= h PROVE Split
  <2> DEFINE k == 2 * q + 1
             s == r - h
  <2>1. k \in Nat /\ k % 2 = 1 /\ o = s + k * h /\ s \in 0..h - 1
    BY <1>1, <1>2, <1>3, <1>6
  <2>2. k = 2 * q + 1 /\ s = r - h
    OBVIOUS
  <2> HIDE DEF k, s
  <2>3. o % h = s /\ o \div h = k
    BY <1>4, <2>1
  <2> QED
    BY <1>1, <1>2, <1>3, <1>6, <2>1, <2>2, <2>3
<1>7. Split
  <2> HIDE DEF Split
  <2> QED
    BY <1>1, <1>2, <1>5, <1>6
<1> QED
  BY <1>7 DEF q, r, d

\* The bits from h on change when those below are set.
LEMMA BitCounts ==
  ASSUME NEW h \in Nat \ {0}, NEW o \in Nat
  PROVE  (o + 1) \div h = IF o % h = h - 1 THEN (o \div h) + 1 ELSE o \div h
<1> DEFINE q == o \div h
           r == o % h
<1>1. r \in 0..h - 1 /\ q \in Int /\ o = h * q + r
  BY Division
<1> HIDE DEF q, r
<1>2. CASE r = h - 1
  <2>1. o + 1 = 0 + (q + 1) * h /\ 0 \in 0..h - 1 /\ q + 1 \in Int
    BY <1>1, <1>2
  <2> QED
    BY <1>2, <2>1, Quotient DEF q, r
<1>3. CASE r # h - 1
  <2>1. o + 1 = (r + 1) + q * h /\ r + 1 \in 0..h - 1
    BY <1>1, <1>3
  <2> QED
    BY <1>1, <1>3, <2>1, Quotient DEF q, r
<1> QED
  BY <1>2, <1>3

\* The sizes are numbers, and numbering goes round in whole groups.
LEMMA Consts ==
  /\ Stages \in Nat \ {0} /\ WindowLen \in Nat \ {0, 1} /\ MaxChunk \in Nat
  /\ Period \in Nat \ {0} /\ Period % 4 = 0 /\ Period % 2 = 0
  /\ Group \in {2, 4} /\ Period % Group = 0 /\ 0 \in Number
  /\ Halved[Stages] \in Nat \ {0, 1} /\ \A md : UnitsOf(md) \in Nat \ {0}
  /\ \A md : UnitsOf(md) # Group => UnitsOf(md) = Group * Halved[Stages]
<1> DEFINE h == Halved[Stages]
<1>1. /\ Stages \in Nat \ {0} /\ WindowLen \in Nat \ {0, 1} /\ MaxChunk \in Nat
      /\ Period \in Nat /\ Period % (4 * h) = 0 /\ Period > WindowLen * 4 * h
  BY SizesAssumption
<1>2. h \in Nat \ {0} /\ h # 1
  <2>1. Stages - 1 \in 0..Stages - 1 /\ (Stages - 1) + 1 = Stages /\ Stages - 1 \in 0..Stages /\ Stages \in 0..Stages
    BY <1>1
  <2>2. h = 2 * Halved[Stages - 1] /\ Halved[Stages - 1] \in Nat \ {0}
    BY <2>1, HalvedIs
  <2> QED
    BY <2>2
<1> HIDE DEF h
<1>3. WindowLen * 4 * h \in Nat
  BY <1>1, <1>2
<1>4. Period \in Nat \ {0}
  BY <1>1, <1>3
<1>5. 4 * h \in Nat \ {0}
  BY <1>2
<1> DEFINE m == 4 * h
           c == Period \div m
           d == h * c
<1>6. Period % m = 0 /\ m \in Nat \ {0}
  BY <1>1, <1>5
<1> HIDE DEF m
<1>7. c \in Int /\ Period = m * c
  BY <1>4, <1>6, Division
<1> HIDE DEF c
<1>8. d \in Int /\ Period = 4 * d
  BY <1>2, <1>7 DEF m
<1> HIDE DEF d
<1>9. Period % 4 = 0 /\ Period % 2 = 0
  BY <1>8
<1>10. Group \in {2, 4}
  BY DEF Group
<1>11. Group * h \in Nat \ {0}
  BY <1>2, <1>10
<1>12. \A md : UnitsOf(md) \in Nat \ {0} /\ (UnitsOf(md) # Group => UnitsOf(md) = Group * h)
  BY <1>10, <1>11 DEF UnitsOf, h
<1> QED
  BY <1>1, <1>2, <1>4, <1>9, <1>10, <1>12 DEF h, Number

\* A remainder's remainder, where the smaller number divides the larger.
LEMMA Refined ==
  ASSUME NEW m \in Nat \ {0}, NEW n \in Nat \ {0}, m % n = 0, NEW x \in Int
  PROVE  (x % m) % n = x % n
<1> DEFINE r == x % m
           q == x \div m
           c == m \div n
           k == c * q
<1>1. r \in 0..m - 1 /\ q \in Int /\ x = m * q + r
  BY Division
<1>2. c \in Int /\ m = n * c
  BY Division
<1> HIDE DEF r, q, c
<1>3. k \in Int /\ m * q = k * n
  BY <1>1, <1>2
<1> HIDE DEF k
<1>4. x = r + k * n /\ r \in Int
  BY <1>1, <1>3
<1>5. x % n = r % n
  BY <1>3, <1>4, SameRemainder
<1> QED
  BY <1>5 DEF r

-----------------------------------------------------------------------------
(* Units and groups. *)

\* A run of units as a sequence.
LEMMA RunIs ==
  ASSUME NEW p \in Nat, NEW n \in Nat
  PROVE  /\ Run(p, n) \in Seq(Number) /\ Len(Run(p, n)) = n
         /\ \A i \in 1..n : Run(p, n)[i] = (p + i - 1) % Period
<1>1. Period \in Nat \ {0}
  BY Consts
<1>2. \A i \in 1..n : (p + i - 1) % Period \in Number
  BY <1>1 DEF Number
<1> QED
  BY <1>2 DEF Run

\* A part of a run is a run.
LEMMA RunPart ==
  ASSUME NEW p \in Nat, NEW n \in Nat, NEW a \in 1..n + 1, NEW b \in 0..n, a <= b + 1
  PROVE  SubSeq(Run(p, n), a, b) = Run(p + a - 1, b - a + 1)
<1> DEFINE s == SubSeq(Run(p, n), a, b)
           u == Run(p + a - 1, b - a + 1)
<1>1. /\ Run(p, n) \in Seq(Number) /\ Len(Run(p, n)) = n
      /\ \A i \in 1..n : Run(p, n)[i] = (p + i - 1) % Period
  BY RunIs
<1>2. p + a - 1 \in Nat /\ b - a + 1 \in Nat
  OBVIOUS
<1>3. /\ u \in Seq(Number) /\ Len(u) = b - a + 1
      /\ \A i \in 1..b - a + 1 : u[i] = ((p + a - 1) + i - 1) % Period
  BY <1>2, RunIs
<1>4. /\ s \in Seq(Number) /\ Len(s) = IF a <= b THEN b - a + 1 ELSE 0
      /\ \A i \in 1..b - a + 1 : s[i] = Run(p, n)[a + i - 1]
  BY <1>1, SubSeqProperties
<1>5. Len(s) = b - a + 1
  BY <1>2, <1>4
<1>6. ASSUME NEW i \in 1..b - a + 1 PROVE s[i] = u[i]
  <2>1. a + i - 1 \in 1..n /\ p + (a + i - 1) - 1 = (p + a - 1) + i - 1
    OBVIOUS
  <2> QED
    BY <1>1, <1>3, <1>4, <2>1
<1> HIDE DEF s, u
<1>7. s = u
  BY <1>3, <1>4, <1>5, <1>6, SeqEqual
<1> QED
  BY <1>7 DEF s, u

\* Two runs that follow each other are one.
LEMMA RunJoin ==
  ASSUME NEW p \in Nat, NEW m \in Nat, NEW n \in Nat
  PROVE  Run(p, m) \o Run(p + m, n) = Run(p, m + n)
<1> DEFINE a == Run(p, m)
           b == Run(p + m, n)
           u == Run(p, m + n)
<1>1. /\ a \in Seq(Number) /\ Len(a) = m /\ \A i \in 1..m : a[i] = (p + i - 1) % Period
  BY RunIs
<1>2. /\ b \in Seq(Number) /\ Len(b) = n /\ \A i \in 1..n : b[i] = ((p + m) + i - 1) % Period
  BY p + m \in Nat, RunIs
<1>3. /\ u \in Seq(Number) /\ Len(u) = m + n /\ \A i \in 1..m + n : u[i] = (p + i - 1) % Period
  BY m + n \in Nat, RunIs
<1> HIDE DEF a, b, u
<1>4. /\ a \o b \in Seq(Number) /\ Len(a \o b) = Len(a) + Len(b)
      /\ \A i \in 1..Len(a) + Len(b) : (a \o b)[i] = IF i <= Len(a) THEN a[i] ELSE b[i - Len(a)]
  BY <1>1, <1>2, ConcatProperties
<1>5. ASSUME NEW i \in 1..m + n PROVE (a \o b)[i] = u[i]
  <2>1. CASE i <= m
    BY <1>1, <1>2, <1>3, <1>4, <2>1
  <2>2. CASE ~(i <= m)
    <3>1. i - m \in 1..n /\ (p + m) + (i - m) - 1 = p + i - 1
      BY <2>2
    <3> QED
      BY <1>1, <1>2, <1>3, <1>4, <2>2, <3>1
  <2> QED
    BY <2>1, <2>2
<1>6. a \o b = u
  BY <1>1, <1>2, <1>3, <1>4, <1>5, SeqEqual
<1> QED
  BY <1>6 DEF a, b, u

\* The recording goes round.
LEMMA RunAround == ASSUME NEW p \in Nat, NEW n \in Nat PROVE Run(p % Period, n) = Run(p, n)
<1>1. Period \in Nat \ {0}
  BY Consts
<1>2. ASSUME NEW i \in 1..n PROVE ((p % Period) + i - 1) % Period = (p + i - 1) % Period
  <2> DEFINE b == i - 1
             r == p % Period
  <2>1. b \in Int /\ r \in Int /\ p \in Int
    BY <1>1
  <2> HIDE DEF b
  <2>2. (r + b) % Period = (p + b) % Period
    BY <1>1, <2>1, CountOn, Zenon
  <2> HIDE DEF r
  <2>3. r + b = r + i - 1 /\ p + b = p + i - 1
    BY <2>1 DEF b
  <2> QED
    BY <2>2, <2>3 DEF r
<1> QED
  BY <1>2 DEF Run

\* m groups from unit p on.
GroupsFrom(p, m) == [j \in 1..m |-> Run(p + (j - 1) * Group, Group)]

\* Groups of a run as a sequence.
LEMMA GroupsIs ==
  ASSUME NEW p \in Nat, NEW m \in Nat
  PROVE  /\ GroupsFrom(p, m) \in Seq(Seq(Number)) /\ Len(GroupsFrom(p, m)) = m
         /\ \A j \in 1..m : GroupsFrom(p, m)[j] = Run(p + (j - 1) * Group, Group)
<1> DEFINE g == Group
<1>1. g \in Nat
  BY Consts
<1> HIDE DEF g
<1>2. ASSUME NEW j \in 1..m PROVE Run(p + (j - 1) * g, g) \in Seq(Number)
  <2>1. p + (j - 1) * g \in Nat
    BY <1>1
  <2> QED
    BY <1>1, <2>1, RunIs
<1> QED
  BY <1>2 DEF GroupsFrom, g

\* Groups that follow each other.
LEMMA GroupsJoin ==
  ASSUME NEW p \in Nat, NEW a \in Nat, NEW b \in Nat
  PROVE  GroupsFrom(p, a) \o GroupsFrom(p + a * Group, b) = GroupsFrom(p, a + b)
<1> DEFINE g == Group
           x == p + a * g
           s == GroupsFrom(p, a)
           t == GroupsFrom(x, b)
           u == GroupsFrom(p, a + b)
<1>1. g \in Nat
  BY Consts
<1>2. x \in Nat
  <2> HIDE DEF g
  <2> QED
    BY <1>1
<1>3. s \in Seq(Seq(Number)) /\ Len(s) = a /\ \A j \in 1..a : s[j] = Run(p + (j - 1) * g, g)
  BY GroupsIs
<1>4. t \in Seq(Seq(Number)) /\ Len(t) = b /\ \A j \in 1..b : t[j] = Run(x + (j - 1) * g, g)
  <2> HIDE DEF x
  <2> QED
    BY <1>2, GroupsIs
<1>5. u \in Seq(Seq(Number)) /\ Len(u) = a + b /\ \A j \in 1..a + b : u[j] = Run(p + (j - 1) * g, g)
  BY a + b \in Nat, GroupsIs
<1> HIDE DEF s, t, u, g
<1>6. /\ s \o t \in Seq(Seq(Number)) /\ Len(s \o t) = Len(s) + Len(t)
      /\ \A j \in 1..Len(s) + Len(t) : (s \o t)[j] = IF j <= Len(s) THEN s[j] ELSE t[j - Len(s)]
  BY <1>3, <1>4, ConcatProperties
<1>7. ASSUME NEW j \in 1..a + b PROVE (s \o t)[j] = u[j]
  <2>1. CASE j <= a
    BY <1>3, <1>4, <1>5, <1>6, <2>1
  <2>2. CASE ~(j <= a)
    <3>1. j - a \in 1..b /\ x + ((j - a) - 1) * g = p + (j - 1) * g
      BY <1>1, <2>2
    <3> QED
      BY <1>3, <1>4, <1>5, <1>6, <2>2, <3>1
  <2> QED
    BY <2>1, <2>2
<1>8. s \o t = u
  BY <1>3, <1>4, <1>5, <1>6, <1>7, SeqEqual
<1> QED
  BY <1>8 DEF s, t, u, g

\* Cutting a run that begins at p gives its groups and leaves its end.
LEMMA CutIs ==
  ASSUME NEW p \in Nat, NEW n \in Nat
  PROVE  /\ n \div Group \in Nat /\ n % Group \in Nat /\ n = (n \div Group) * Group + (n % Group)
         /\ Cut(Run(p, n)) = GroupsFrom(p, n \div Group)
         /\ Rest(Run(p, n)) = Run(p + (n \div Group) * Group, n % Group)
<1> DEFINE g == Group
           q == n \div g
           r == n % g
<1>1. g \in {2, 4}
  BY Consts
<1>2. q \in Nat /\ r \in 0..g - 1 /\ n = q * g + r
  <2> HIDE DEF g
  <2> QED
    BY <1>1
<1> HIDE DEF q, r, g
<1>3. Run(p, n) \in Seq(Number) /\ Len(Run(p, n)) = n
  BY RunIs
<1>4. ASSUME NEW j \in 1..q PROVE SubSeq(Run(p, n), (j - 1) * g + 1, j * g) = Run(p + (j - 1) * g, g)
  <2> DEFINE a == (j - 1) * g + 1
             b == j * g
  <2>1. (j - 1) * g \in Nat /\ j * g <= q * g /\ j * g \in Nat /\ j * g = (j - 1) * g + g
    BY <1>1, <1>2
  <2>2. a \in 1..n + 1 /\ b \in 0..n /\ a <= b + 1 /\ p + a - 1 = p + (j - 1) * g /\ b - a + 1 = g
    BY <1>1, <1>2, <2>1
  <2> HIDE DEF a, b
  <2>3. SubSeq(Run(p, n), a, b) = Run(p + a - 1, b - a + 1)
    BY <2>2, RunPart
  <2> QED
    BY <2>2, <2>3 DEF a, b
<1>5. Cut(Run(p, n)) = GroupsFrom(p, q)
  BY <1>3, <1>4 DEF Cut, GroupsFrom, q, g
<1>6. SubSeq(Run(p, n), q * g + 1, n) = Run(p + q * g, r)
  <2> DEFINE a == q * g + 1
  <2>1. q * g \in Nat
    BY <1>1, <1>2
  <2>2. a \in 1..n + 1 /\ n \in 0..n /\ a <= n + 1 /\ p + a - 1 = p + q * g /\ n - a + 1 = r
    BY <1>2, <2>1
  <2> HIDE DEF a
  <2>3. SubSeq(Run(p, n), a, n) = Run(p + a - 1, n - a + 1)
    BY <2>2, RunPart
  <2> QED
    BY <2>2, <2>3 DEF a
<1>7. Rest(Run(p, n)) = Run(p + q * g, r)
  BY <1>3, <1>6 DEF Rest, q, g
<1> QED
  BY <1>2, <1>5, <1>7 DEF q, r, g

\* Without units.
LEMMA RunEmpty ==
  ASSUME NEW p \in Nat
  PROVE  Run(p, 0) = << >> /\ GroupsFrom(p, 0) = << >>
<1>1. Run(p, 0) \in Seq(Number) /\ Len(Run(p, 0)) = 0
  BY RunIs
<1>2. GroupsFrom(p, 0) \in Seq(Seq(Number)) /\ Len(GroupsFrom(p, 0)) = 0
  BY GroupsIs
<1> QED
  BY <1>1, <1>2, EmptySeq

\* What a call makes of the units after those left over is what it would make of both
\* in one piece.
LEMMA PipedIs ==
  ASSUME NEW p \in Nat, NEW k \in 0..Group - 1, NEW n \in Nat
  PROVE  LET made == Piped(Run(p, k), Run(p + k, n))
             m == (k + n) \div Group
         IN made.groups = GroupsFrom(p, m) /\ made.left = Run(p + m * Group, (k + n) % Group)
<1> DEFINE g == Group
           kept == Run(p, k)
           chunk == Run(p + k, n)
           room == IF kept = << >> THEN 0 ELSE g - Len(kept)
           taken == IF room < n THEN room ELSE n
           more == FilledUp(kept, chunk)
           rest == SubSeq(chunk, Len(more) + 1, Len(chunk))
           first == k + taken
           later == n - taken
           c == first \div g
           d == later \div g
           m == (k + n) \div g
<1>1. g \in {2, 4} /\ k \in Nat /\ p + k \in Nat
  BY Consts
<1>2. /\ kept \in Seq(Number) /\ Len(kept) = k
      /\ chunk \in Seq(Number) /\ Len(chunk) = n
  <2> DEFINE q == p + k
  <2>1. q \in Nat
    BY <1>1
  <2> HIDE DEF q
  <2>2. Run(q, n) \in Seq(Number) /\ Len(Run(q, n)) = n
    BY <2>1, RunIs
  <2> QED
    BY <1>1, <2>2, RunIs DEF q
<1>3. kept = << >> <=> k = 0
  BY <1>2, EmptySeq
<1>4. room = IF k = 0 THEN 0 ELSE g - k
  BY <1>2, <1>3
<1>5. room \in 0..g - 1 /\ taken \in 0..n /\ (room < n => taken = room)
  BY <1>1, <1>4
<1>6. more = SubSeq(chunk, 1, taken)
  BY <1>2 DEF FilledUp
<1> HIDE DEF room, more, chunk
<1>7. more = Run(p + k, taken)
  <2> DEFINE q == p + k
  <2>1. q \in Nat /\ 1 \in 1..n + 1 /\ 1 <= taken + 1 /\ q + 1 - 1 = q /\ taken - 1 + 1 = taken
    BY <1>1, <1>5
  <2> HIDE DEF q, taken
  <2>2. SubSeq(Run(q, n), 1, taken) = Run(q + 1 - 1, taken - 1 + 1)
    BY <1>5, <2>1, RunPart
  <2> QED
    BY <1>6, <2>1, <2>2 DEF q, chunk
<1> HIDE DEF taken, first, later
<1>8. first \in Nat /\ first = k + taken /\ later \in Nat /\ later = n - taken /\ first + later = k + n
  BY <1>1, <1>5 DEF first, later
<1>9. kept \o more = Run(p, first)
  <2>1. taken \in Nat
    BY <1>5
  <2>2. Run(p, k) \o Run(p + k, taken) = Run(p, k + taken)
    BY <1>1, <2>1, RunJoin
  <2> QED
    BY <1>7, <1>8, <2>2 DEF kept
<1>10. rest = Run(p + first, later)
  <2> DEFINE q == p + k
             a == taken + 1
  <2>1. q \in Nat /\ a \in 1..n + 1 /\ n \in 0..n /\ a <= n + 1 /\ q + a - 1 = p + first /\ n - a + 1 = later
    BY <1>1, <1>5, <1>8
  <2>2. Len(more) = taken
    BY <1>5, <1>7, <2>1, RunIs
  <2> HIDE DEF q, a
  <2>3. SubSeq(Run(q, n), a, n) = Run(q + a - 1, n - a + 1)
    BY <2>1, RunPart
  <2> QED
    BY <1>2, <2>1, <2>2, <2>3 DEF q, a, chunk
<1> HIDE DEF kept, rest
<1>11. Piped(kept, chunk) = [groups |-> Cut(Run(p, first)) \o Cut(Run(p + first, later)),
                             left |-> Rest(Run(p, first)) \o Rest(Run(p + first, later))]
  BY <1>9, <1>10 DEF Piped, rest, more
<1> HIDE DEF g, c, d, m
<1>12. /\ c \in Nat /\ first % g \in Nat /\ first = c * g + (first % g)
       /\ Cut(Run(p, first)) = GroupsFrom(p, c) /\ Rest(Run(p, first)) = Run(p + c * g, first % g)
  BY <1>8, CutIs DEF c, g
<1>13. /\ d \in Nat /\ later % g \in Nat /\ later = d * g + (later % g)
       /\ Cut(Run(p + first, later)) = GroupsFrom(p + first, d)
       /\ Rest(Run(p + first, later)) = Run(p + first + d * g, later % g)
  <2> DEFINE q == p + first
  <2>1. q \in Nat
    BY <1>8
  <2> HIDE DEF q
  <2>2. /\ d \in Nat /\ later % g \in Nat /\ later = d * g + (later % g)
        /\ Cut(Run(q, later)) = GroupsFrom(q, d) /\ Rest(Run(q, later)) = Run(q + d * g, later % g)
    BY <1>8, <2>1, CutIs DEF d, g
  <2> QED
    BY <2>2 DEF q
<1>14. CASE first % g = 0
  <2>1. first = c * g /\ k + n = (later % g) + (c + d) * g /\ c + d \in Int /\ k + n \in Int
    BY <1>1, <1>8, <1>12, <1>13, <1>14
  <2>2. later % g \in 0..g - 1
    BY <1>1, <1>8
  <2>3. m = c + d /\ (k + n) % g = later % g
    BY <1>1, <2>1, <2>2, Quotient, Remainder DEF m
  <2>4. Cut(Run(p, first)) \o Cut(Run(p + first, later)) = GroupsFrom(p, m)
    <3>1. GroupsFrom(p, c) \o GroupsFrom(p + c * g, d) = GroupsFrom(p, c + d)
      BY <1>12, <1>13, GroupsJoin DEF g
    <3> QED
      BY <1>12, <1>13, <2>1, <2>3, <3>1
  <2>5. Rest(Run(p, first)) \o Rest(Run(p + first, later)) = Run(p + first + d * g, later % g)
    <3> DEFINE q == p + first + d * g
               l == later % g
    <3>1. q \in Nat /\ l \in Nat /\ p + c * g \in Nat
      <4>1. g \in Nat /\ c * g \in Nat /\ d * g \in Nat
        BY <1>1, <1>12, <1>13
      <4> QED
        BY <1>1, <1>8, <1>13, <4>1
    <3> HIDE DEF q, l
    <3>2. Run(q, l) \in Seq(Number)
      BY <3>1, RunIs
    <3>3. Run(p + c * g, 0) = << >>
      BY <3>1, RunEmpty
    <3> QED
      BY <1>12, <1>13, <1>14, <3>2, <3>3, ConcatEmptySeq DEF q, l
  <2>6. p + first + d * g = p + m * g
    BY <1>1, <1>8, <1>12, <1>13, <2>1, <2>3
  <2>7. /\ Piped(kept, chunk).groups = GroupsFrom(p, m)
        /\ Piped(kept, chunk).left = Run(p + m * g, (k + n) % g)
    BY <1>11, <2>3, <2>4, <2>5, <2>6
  <2> QED
    BY <2>7 DEF m, g, kept, chunk
<1>15. CASE first % g # 0
  <2>1. first < g /\ taken = n /\ later = 0 /\ first = k + n
    <3>1. ~(room < n)
      <4> SUFFICES ASSUME room < n PROVE FALSE
        OBVIOUS
      <4>1. first = 0 \/ first = g
        BY <1>1, <1>4, <1>5, <1>8
      <4> QED
        BY <1>1, <1>15, <4>1
    <3>2. taken = n /\ later = 0 /\ first = k + n
      BY <1>8, <3>1 DEF taken
    <3>3. first < g
      BY <1>1, <1>4, <1>5, <1>15, <3>1, <3>2
    <3> QED
      BY <3>2, <3>3
  <2>2. c = 0 /\ first % g = first /\ d = 0 /\ later % g = 0 /\ m = 0 /\ (k + n) % g = first
    <3>1. g \in Nat \ {0} /\ first \in 0..g - 1 /\ 0 \in 0..g - 1 /\ first = first + 0 * g /\ 0 = 0 + 0 * g
      BY <1>1, <1>8, <2>1
    <3>2. first \div g = 0 /\ first % g = first
      BY <3>1, Quotient, Remainder
    <3>3. 0 \div g = 0 /\ 0 % g = 0
      BY <3>1, Quotient, Remainder
    <3> QED
      BY <2>1, <3>2, <3>3 DEF c, d, m
  <2>3. /\ Cut(Run(p, first)) = << >> /\ Cut(Run(p + first, later)) = << >>
        /\ GroupsFrom(p, m) = << >>
        /\ Rest(Run(p, first)) = Run(p, first) /\ Rest(Run(p + first, later)) = << >>
    <3> DEFINE q == p + first
               x == p + first + d * g
    <3>1. q \in Nat /\ x \in Nat /\ p + c * g = p
      BY <1>1, <1>8, <2>2
    <3> HIDE DEF q, x
    <3>2. GroupsFrom(p, 0) = << >> /\ GroupsFrom(q, 0) = << >> /\ Run(x, 0) = << >>
      BY <3>1, RunEmpty
    <3> QED
      BY <1>12, <1>13, <2>2, <3>1, <3>2 DEF q, x
  <2>4. Run(p, first) \in Seq(Number) /\ p + m * g = p
    BY <1>1, <1>8, <2>2, RunIs
  <2> QED
    BY <1>11, <2>2, <2>3, <2>4, ConcatEmptySeq DEF m, g, kept, chunk
<1> QED
  BY <1>14, <1>15

\* A group of the recording is a sample.
LEMMA SampledIs ==
  ASSUME NEW p \in Nat, p % Group = 0
  PROVE  Sampled(Run(p, Group)) = p % Period
<1> DEFINE g == Group
           units == Run(p, g)
<1>1. g \in {2, 4} /\ Period \in Nat \ {0} /\ Period % g = 0
  BY Consts
<1>2. \A i \in 1..g : units[i] = (p + i - 1) % Period
  BY <1>1, RunIs
<1>3. units[1] = p % Period
  BY <1>1, <1>2
<1>4. (p % Period) % g = 0
  <2>1. p % g = 0 /\ p \in Int /\ g \in Nat \ {0}
    BY <1>1
  <2> HIDE DEF g
  <2> QED
    BY <1>1, <2>1, Refined
<1>5. ASSUME NEW i \in 1..g PROVE units[i] = ((p % Period) + i - 1) % Period
  <2> DEFINE q == p % Period
  <2>1. q \in Nat /\ g \in Nat /\ Run(q, g) = units
    BY <1>1, RunAround
  <2> HIDE DEF q, units, g
  <2>2. Run(q, g)[i] = (q + i - 1) % Period
    BY <1>1, <2>1, RunIs
  <2> QED
    BY <2>1, <2>2 DEF q
<1> HIDE DEF units, g
<1>6. Sampled(units) = units[1]
  BY <1>3, <1>4, <1>5 DEF Sampled, g
<1> QED
  BY <1>3, <1>6 DEF units, g

-----------------------------------------------------------------------------
(* Stages. *)

Decimator ==
  [offset: 0..Halved[Stages] - 1, stages: [0..Stages - 1 -> [{0, 1} -> Sample]], out: Seq(Sample)]

\* Two samples that follow each other make one.
LEMMA JoinedIs ==
  ASSUME NEW x \in Nat, NEW n \in Nat
  PROVE  Joined(x % Period, (x + n) % Period, n) = x % Period
<1>1. Period \in Nat \ {0} /\ x \in Int /\ n \in Int
  BY Consts
<1>2. ((x % Period) + n) % Period = (x + n) % Period
  BY <1>1, CountOn, Zenon
<1>3. x % Period # Broken
  BY <1>1 DEF Broken
<1> QED
  BY <1>2, <1>3 DEF Joined

\* Joined samples are a sample, broken or not.
LEMMA JoinedType ==
  ASSUME NEW a \in Sample, NEW b, NEW n
  PROVE  Joined(a, b, n) \in Sample
  BY DEF Joined, Sample

\* At offset 0 the stages wait for nothing.
LEMMA NoneFilled == ASSUME NEW st, NEW start PROVE Filled(0, st, start)
<1> SUFFICES ASSUME NEW k \in 0..Stages - 1 PROVE (0 \div Halved[k]) % 2 = 0
  BY DEF Filled
<1>1. Halved[k] \in Nat \ {0}
  <2>1. k \in 0..Stages
    BY Consts
  <2> QED
    BY <2>1, HalvedIs
<1> DEFINE h == Halved[k]
<1> HIDE DEF h
<1>2. 0 = 0 + 0 * h /\ 0 \in 0..h - 1 /\ h \in Nat \ {0}
  BY <1>1 DEF h
<1>3. 0 \div h = 0
  BY <1>2, Quotient
<1> QED
  BY <1>3 DEF h

\* A group goes through the stages that wait for their second input, and is kept by the
\* next one.  The last group of an output sample makes it, from all of its groups.
LEMMA StageIs ==
  ASSUME NEW d \in Decimator, NEW start \in Nat, Filled(d.offset, d.stages, start)
  PROVE  LET e == Stage(d, (start + d.offset * Group) % Period) IN
         /\ e \in Decimator
         /\ d.offset # Halved[Stages] - 1 =>
              e.offset = d.offset + 1 /\ e.out = d.out /\ Filled(d.offset + 1, e.stages, start)
         /\ d.offset = Halved[Stages] - 1 =>
              e.offset = 0 /\ e.out = Append(d.out, start % Period)
<1> DEFINE o == d.offset
           st == d.stages
           H == Halved[Stages]
           gr == Group
           g == (start + o * gr) % Period
           e == Stage(d, g)
           Reached(k) == o % Halved[k] = Halved[k] - 1
           Value(k) == (start + gr * Halved[k] * (o \div Halved[k])) % Period
           F == [x \in (1..Stages) \X Sample |-> Joined(st[x[1] - 1][0], x[2], gr * Halved[x[1] - 1])]
           Goes(f) == f = [k \in 0..Stages |-> IF k = 0 THEN g ELSE Joined(st[k - 1][0], f[k - 1], gr * Halved[k - 1])]
           through == CHOOSE f : Goes(f)
           next1 == [k \in 0..Stages - 1 |->
                       IF Reached(k) THEN [st[k] EXCEPT ![(o \div Halved[k]) % 2] = through[k]] ELSE st[k]]
<1>1. /\ Stages \in Nat \ {0} /\ Period \in Nat \ {0} /\ gr \in {2, 4} /\ H \in Nat \ {0, 1}
      /\ Number \subseteq Sample /\ Number = 0..Period - 1
  BY Consts DEF Number, Sample
<1>2. o \in 0..H - 1 /\ o \in Nat /\ st \in [0..Stages - 1 -> [{0, 1} -> Sample]] /\ d.out \in Seq(Sample)
  BY <1>1 DEF Decimator
<1>3. e = [offset |-> (o + 1) % H, stages |-> next1,
           out |-> IF Reached(Stages) THEN Append(d.out, through[Stages]) ELSE d.out]
  BY DEF Stage
<1>4. Filled(o, st, start)
  OBVIOUS
<1>5. g \in Sample
  <2> HIDE DEF gr
  <2>1. start + o * gr \in Int
    BY <1>1, <1>2
  <2> QED
    BY <1>1, <2>1
<1> HIDE DEF g, e, o, st, H, gr
<1>6. Goes(through)
  <2>1. ASSUME NEW k \in 1..Stages, NEW s \in Sample
        PROVE  Joined(st[k - 1][0], s, gr * Halved[k - 1]) \in Sample
    <3>1. k - 1 \in 0..Stages - 1
      BY <1>1
    <3>2. st[k - 1][0] \in Sample
      BY <1>2, <3>1
    <3> QED
      BY <3>2, JoinedType
  <2>2. F \in [(1..Stages) \X Sample -> Sample]
    BY <2>1
  <2>3. PICK f \in [0..Stages -> Sample] : Recurs(f, Stages, g, F)
    <3> HIDE DEF F
    <3>1. Stages \in Nat
      BY <1>1
    <3> QED
      BY <1>5, <2>2, <3>1, Recursion
  <2>4. ASSUME NEW i \in 1..Stages PROVE f[i] = Joined(st[i - 1][0], f[i - 1], gr * Halved[i - 1])
    <3>1. i - 1 \in 0..Stages /\ f[i - 1] \in Sample
      BY <1>1
    <3> QED
      BY <2>3, <3>1 DEF Recurs
  <2>5. ASSUME NEW j \in 0..Stages
        PROVE  f[j] = IF j = 0 THEN g ELSE Joined(st[j - 1][0], f[j - 1], gr * Halved[j - 1])
    <3>1. j = 0 \/ j \in 1..Stages
      BY <1>1
    <3> QED
      BY <2>3, <2>4, <3>1 DEF Recurs
  <2>6. Goes(f)
    BY <2>5
  <2> QED
    BY <2>6
<1> HIDE DEF through, F
<1>7. ASSUME NEW k \in 0..Stages - 1
      PROVE  /\ Halved[k] \in Nat \ {0} /\ Halved[k + 1] = 2 * Halved[k]
             /\ o \div Halved[k] \in Nat /\ o \div Halved[k + 1] \in Nat /\ (o \div Halved[k]) % 2 \in {0, 1}
             /\ o \div Halved[k] = 2 * (o \div Halved[k + 1]) + ((o \div Halved[k]) % 2)
             /\ Reached(k + 1) <=> Reached(k) /\ (o \div Halved[k]) % 2 = 1
  <2>1. k \in 0..Stages
    BY <1>1
  <2>2. Halved[k] \in Nat \ {0} /\ Halved[k + 1] = 2 * Halved[k]
    BY <2>1, HalvedIs
  <2> DEFINE h == Halved[k]
  <2> HIDE DEF h
  <2>3. /\ o \div h \in Nat /\ o \div (2 * h) \in Nat /\ (o \div h) % 2 \in {0, 1}
        /\ o \div h = 2 * (o \div (2 * h)) + ((o \div h) % 2)
        /\ o % (2 * h) = 2 * h - 1 <=> o % h = h - 1 /\ (o \div h) % 2 = 1
    <3>1. h \in Nat \ {0}
      BY <2>2 DEF h
    <3> QED
      BY <1>2, <3>1, BitIs
  <2> QED
    BY <2>2, <2>3 DEF h
<1> DEFINE T == {k \in 0..Stages : through[k] \in Sample /\ (Reached(k) => through[k] = Value(k))}
<1>8. 0 \in T
  <2>1. through[0] = g /\ Halved[0] = 1
    BY <1>1, <1>6, HalvedIs
  <2>2. o \div 1 = o /\ gr * 1 * o = o * gr
    BY <1>1, <1>2
  <2> QED
    BY <1>1, <1>5, <2>1, <2>2 DEF g
<1>9. ASSUME NEW k \in 0..Stages - 1, k \in T PROVE k + 1 \in T
  <2> DEFINE h == Halved[k]
             q == o \div Halved[k + 1]
             x == start + gr * Halved[k + 1] * q
             n == gr * h
  <2>1. through[k + 1] = Joined(st[k][0], through[k], n)
    <3>1. k + 1 \in 0..Stages /\ k + 1 # 0 /\ (k + 1) - 1 = k
      BY <1>1
    <3> QED
      BY <1>6, <3>1
  <2>2. st[k][0] \in Sample
    BY <1>2
  <2>3. through[k + 1] \in Sample
    BY <2>1, <2>2, JoinedType
  <2>4. ASSUME Reached(k + 1) PROVE through[k + 1] = Value(k + 1)
    <3>1. Reached(k) /\ (o \div h) % 2 = 1
      BY <1>7, <2>4
    <3>2. st[k][0] = x % Period
      BY <1>4, <3>1 DEF Filled, gr
    <3>3. h \in Nat \ {0} /\ Halved[k + 1] = 2 * h /\ q \in Nat /\ o \div h = 2 * q + 1
      BY <1>7, <3>1
    <3>4. through[k] = (start + n * (o \div h)) % Period
      BY <1>9, <3>1
    <3> HIDE DEF h, q
    <3>5. start + n * (2 * q + 1) = x + n /\ x \in Nat /\ n \in Nat
      BY <1>1, <3>3
    <3>6. through[k] = (x + n) % Period
      BY <3>3, <3>4, <3>5
    <3>7. Value(k + 1) = x % Period
      BY DEF q
    <3> HIDE DEF x, n
    <3>8. Joined(x % Period, (x + n) % Period, n) = x % Period
      BY <3>5, JoinedIs
    <3> QED
      BY <2>1, <3>2, <3>6, <3>7, <3>8
  <2>5. k + 1 \in 0..Stages
    BY <1>1
  <2> HIDE DEF h, q, x, n
  <2> QED
    BY <2>3, <2>4, <2>5
<1>10. 0..Stages \subseteq T
  <2> HIDE DEF T
  <2>1. Stages \in Nat
    BY <1>1
  <2> QED
    BY <2>1, <1>8, <1>9, Inductive
<1>11. \A k \in 0..Stages : through[k] \in Sample /\ (Reached(k) => through[k] = Value(k))
  BY <1>10
<1> HIDE DEF T
<1>12. next1 \in [0..Stages - 1 -> [{0, 1} -> Sample]]
  <2> SUFFICES ASSUME NEW k \in 0..Stages - 1
               PROVE  (IF Reached(k) THEN [st[k] EXCEPT ![(o \div Halved[k]) % 2] = through[k]] ELSE st[k])
                        \in [{0, 1} -> Sample]
    OBVIOUS
  <2>1. k \in 0..Stages
    BY <1>1
  <2>2. through[k] \in Sample /\ st[k] \in [{0, 1} -> Sample]
    BY <1>2, <1>11, <2>1
  <2> QED
    BY <2>2
<1>13. (o + 1) % H \in 0..H - 1
  BY <1>1, <1>2
<1>14. Stages \in 0..Stages /\ o % H = o /\ o \div H = 0
  <2>1. o = o + 0 * H /\ H \in Nat \ {0} /\ o \in 0..H - 1 /\ o \in Int /\ 0 \in Int
    BY <1>1, <1>2
  <2>2. o % H = o
    BY <2>1, Remainder
  <2>3. o \div H = 0
    BY <2>1, Quotient
  <2> QED
    BY <1>1, <2>2, <2>3
<1>15. (IF Reached(Stages) THEN Append(d.out, through[Stages]) ELSE d.out) \in Seq(Sample)
  <2>1. through[Stages] \in Sample
    BY <1>11, <1>14
  <2> QED
    BY <1>2, <2>1, AppendProperties
<1>16. e \in Decimator
  BY <1>3, <1>12, <1>13, <1>15 DEF Decimator, H
<1>17. CASE o # H - 1
  <2>1. (o + 1) % H = o + 1
    <3>1. o + 1 \in 0..H - 1 /\ o + 1 = (o + 1) + 0 * H /\ H \in Nat \ {0}
      BY <1>1, <1>2, <1>17
    <3> QED
      BY <3>1, Remainder
  <2>2. ~Reached(Stages)
    BY <1>14, <1>17 DEF H
  <2>3. ASSUME NEW k \in 0..Stages - 1, ((o + 1) \div Halved[k]) % 2 = 1
        PROVE  next1[k][0] = (start + gr * Halved[k + 1] * ((o + 1) \div Halved[k + 1])) % Period
    <3> DEFINE h == Halved[k]
               h2 == Halved[k + 1]
               b == o \div h
               q == o \div h2
    <3>1. /\ h \in Nat \ {0} /\ h2 = 2 * h /\ b \in Nat /\ q \in Nat /\ b % 2 \in {0, 1}
          /\ b = 2 * q + (b % 2) /\ (Reached(k + 1) <=> Reached(k) /\ b % 2 = 1)
      BY <1>7
    <3>2. /\ (o + 1) \div h = IF Reached(k) THEN b + 1 ELSE b
          /\ (o + 1) \div h2 = IF Reached(k + 1) THEN q + 1 ELSE q
      <4>1. h2 \in Nat \ {0}
        BY <3>1
      <4> QED
        BY <1>2, <3>1, <4>1, BitCounts
    <3>3. ((o + 1) \div h) % 2 = 1
      BY <2>3
    <3>4. CASE ~Reached(k)
      <4>1. next1[k] = st[k] /\ b % 2 = 1 /\ (o + 1) \div h2 = q
        BY <3>1, <3>2, <3>3, <3>4
      <4>2. st[k][0] = (start + gr * h2 * q) % Period
        BY <1>4, <4>1 DEF Filled, gr
      <4> QED
        BY <4>1, <4>2
    <3>5. CASE Reached(k)
      <4> DEFINE r == b % 2
      <4>1. r = 0
        <5>1. (b + 1) % 2 = 1
          BY <3>2, <3>3, <3>5
        <5> HIDE DEF b
        <5> QED
          BY <3>1, <5>1
      <4>2. (o + 1) \div h2 = q /\ b = 2 * q
        BY <3>1, <3>2, <4>1
      <4>3. next1[k] = [st[k] EXCEPT ![0] = through[k]]
        BY <3>5, <4>1
      <4>4. next1[k][0] = through[k]
        BY <1>2, <4>3
      <4>5. through[k] = (start + gr * h * b) % Period
        <5>1. k \in 0..Stages
          BY <1>1
        <5> QED
          BY <1>11, <3>5, <5>1
      <4> HIDE DEF h, h2, b, q
      <4>6. gr * h * b = gr * h2 * q
        BY <1>1, <3>1, <4>2
      <4> QED
        BY <4>2, <4>4, <4>5, <4>6 DEF h2
    <3> QED
      BY <3>4, <3>5
  <2> HIDE DEF next1
  <2>4. Filled(o + 1, next1, start)
    BY <2>3 DEF Filled, gr
  <2>5. e.offset = o + 1 /\ e.out = d.out /\ Filled(o + 1, e.stages, start)
    BY <1>3, <2>1, <2>2, <2>4
  <2> QED
    BY <1>16, <1>17, <2>5 DEF e, g, o, H, gr
<1>18. CASE o = H - 1
  <2>1. (o + 1) % H = 0
    <3>1. o + 1 = 0 + 1 * H /\ 0 \in 0..H - 1 /\ H \in Nat \ {0} /\ o + 1 \in Int
      BY <1>1, <1>18
    <3> QED
      BY <3>1, Remainder
  <2>2. Reached(Stages)
    BY <1>14, <1>18 DEF H
  <2>3. through[Stages] = start % Period
    <3>1. through[Stages] = (start + gr * H * (o \div H)) % Period
      BY <1>11, <1>14, <2>2 DEF H
    <3>2. start + gr * H * 0 = start
      BY <1>1
    <3> QED
      BY <1>14, <3>1, <3>2
  <2>4. e.offset = 0 /\ e.out = Append(d.out, start % Period)
    BY <1>3, <2>1, <2>2, <2>3
  <2> QED
    BY <1>16, <1>18, <2>4 DEF e, g, o, H, gr
<1> QED
  BY <1>17, <1>18

\* What counts alike counts on alike.
LEMMA Alike ==
  ASSUME NEW x \in Int, NEW y \in Int, x % Period = y % Period, NEW b \in Int
  PROVE  (x + b) % Period = (y + b) % Period
<1>1. Period \in Nat \ {0}
  BY Consts
<1>2. ((x % Period) + b) % Period = (x + b) % Period
  BY <1>1, CountOn, Zenon
<1>3. ((y % Period) + b) % Period = (y + b) % Period
  BY <1>1, CountOn, Zenon
<1> QED
  BY <1>2, <1>3

-----------------------------------------------------------------------------
(* Samples. *)

\* The samples put out so far are those from base on, and the groups before p are in
\* them or in the stages.
Made(d, base, p) ==
  /\ d \in Decimator
  /\ \A i \in 1..Len(d.out) : d.out[i] = (base + (i - 1) * UnitsOf(mode)) % Period
  /\ UnitsOf(mode) = Group => d.offset = 0
  /\ (base + Len(d.out) * UnitsOf(mode) + d.offset * Group) % Period = p % Period
  /\ Filled(d.offset, d.stages, base + Len(d.out) * UnitsOf(mode))

After(d, s) == IF UnitsOf(mode) = Group THEN [d EXCEPT !.out = Append(@, s)] ELSE Stage(d, s)

\* One more group, in FM or AM.
LEMMA MadeOne ==
  ASSUME NEW d, NEW base \in Nat, NEW p \in Nat, Made(d, base, p)
  PROVE  Made(After(d, p % Period), base, p + Group)
<1> DEFINE u == UnitsOf(mode)
           gr == Group
           n == Len(d.out)
           start == base + n * u
           o == d.offset
           s == p % Period
           e == After(d, s)
<1>1. /\ gr \in {2, 4} /\ Period \in Nat \ {0} /\ u \in Nat \ {0}
      /\ (u # gr => u = gr * Halved[Stages]) /\ Halved[Stages] \in Nat \ {0, 1}
  BY Consts
<1>2. /\ d \in Decimator /\ \A i \in 1..n : d.out[i] = (base + (i - 1) * u) % Period
      /\ (u = gr => o = 0)
      /\ (start + o * gr) % Period = s
      /\ Filled(o, d.stages, start)
  BY DEF Made
<1>3. /\ d.out \in Seq(Sample) /\ n \in Nat /\ o \in 0..Halved[Stages] - 1 /\ o \in Nat
  BY <1>1, <1>2, LenProperties DEF Decimator
<1>4. start \in Nat /\ s \in Sample /\ start % Period \in Sample
  <2>1. s \in Sample
    BY <1>1 DEF Sample, Number
  <2> HIDE DEF u, n, s
  <2>2. n * u \in Nat
    BY <1>1, <1>3
  <2>3. start \in Nat
    BY <2>2
  <2> HIDE DEF start
  <2>4. start % Period \in Sample
    BY <1>1, <2>3 DEF Sample, Number
  <2> QED
    BY <2>1, <2>3, <2>4
<1>5. ASSUME NEW f \in Decimator, f.out = Append(d.out, start % Period), f.offset = 0,
             ((start + u) + 0 * gr) % Period = (p + gr) % Period
      PROVE  Made(f, base, p + gr)
  <2>1. Len(f.out) = n + 1 /\ \A i \in 1..n + 1 : f.out[i] = IF i = n + 1 THEN start % Period ELSE d.out[i]
    BY <1>3, <1>4, <1>5, AppendProperties
  <2>2. ASSUME NEW i \in 1..Len(f.out) PROVE f.out[i] = (base + (i - 1) * u) % Period
    <3>1. CASE i = n + 1
      <4>1. i - 1 = n
        BY <1>3, <3>1
      <4> QED
        BY <1>5, <2>1, <3>1, <4>1
    <3>2. CASE i # n + 1
      <4>1. i \in 1..n
        BY <1>3, <2>1, <3>2
      <4> QED
        BY <1>2, <2>1, <3>2, <4>1
    <3> QED
      BY <3>1, <3>2
  <2>3. base + Len(f.out) * u = start + u
    <3> HIDE DEF u, n
    <3> QED
      BY <1>1, <1>3, <2>1
  <2>4. Filled(f.offset, f.stages, base + Len(f.out) * u)
    BY <1>5, NoneFilled
  <2> QED
    BY <1>5, <2>2, <2>3, <2>4 DEF Made
<1>6. CASE u = gr
  <2>1. e = [d EXCEPT !.out = Append(d.out, s)] /\ o = 0 /\ Append(d.out, s) \in Seq(Sample)
    BY <1>2, <1>3, <1>4, <1>6, AppendProperties DEF After
  <2>2. e \in Decimator /\ e.out = Append(d.out, s) /\ e.offset = 0
    BY <1>2, <2>1 DEF Decimator
  <2> HIDE DEF start, u, gr
  <2>3. s = start % Period
    <3>1. start + o * gr = start
      BY <1>1, <1>4, <2>1
    <3> QED
      BY <1>2, <3>1
  <2>4. (start + gr) % Period = (p + gr) % Period
    <3>1. start \in Int /\ p \in Int /\ gr \in Int /\ start % Period = p % Period
      BY <1>1, <1>4, <2>3
    <3> QED
      BY <3>1, Alike
  <2>5. (start + u) + 0 * gr = start + gr
    BY <1>1, <1>4, <1>6
  <2> HIDE DEF e, s
  <2>6. Made(e, base, p + gr)
    BY <1>5, <2>2, <2>3, <2>4, <2>5
  <2> QED
    BY <2>6 DEF e, s, gr
<1>7. CASE u # gr
  <2> DEFINE st == Stage(d, (start + o * gr) % Period)
  <2>1. e = st
    BY <1>2, <1>7 DEF After
  <2>2. /\ st \in Decimator
        /\ o # Halved[Stages] - 1 => st.offset = o + 1 /\ st.out = d.out /\ Filled(o + 1, st.stages, start)
        /\ o = Halved[Stages] - 1 => st.offset = 0 /\ st.out = Append(d.out, start % Period)
    <3> HIDE DEF start
    <3> QED
      BY <1>2, <1>4, StageIs
  <2> HIDE DEF st
  <2>3. ((start + o * gr) + gr) % Period = (p + gr) % Period
    <3> DEFINE x == start + o * gr
    <3>1. x \in Int /\ p \in Int /\ gr \in Int
      <4> HIDE DEF start, gr, o
      <4> QED
        BY <1>1, <1>3, <1>4
    <3>2. x % Period = p % Period
      BY <1>2
    <3> HIDE DEF x, gr
    <3>3. (x + gr) % Period = (p + gr) % Period
      BY <1>1, <3>1, <3>2, Alike
    <3> QED
      BY <3>3 DEF x
  <2>4. CASE o # Halved[Stages] - 1
    <3>1. e \in Decimator /\ e.offset = o + 1 /\ e.out = d.out /\ Filled(o + 1, e.stages, start)
      BY <2>1, <2>2, <2>4
    <3>2. (start + (o + 1) * gr) % Period = (p + gr) % Period
      <4>1. start + (o + 1) * gr = (start + o * gr) + gr
        <5> HIDE DEF start, gr, o
        <5> QED
          BY <1>1, <1>3, <1>4
      <4> QED
        BY <2>3, <4>1
    <3> HIDE DEF e, s
    <3>3. Made(e, base, p + gr)
      BY <1>2, <1>7, <3>1, <3>2 DEF Made
    <3> QED
      BY <3>3 DEF e, s, gr
  <2>5. CASE o = Halved[Stages] - 1
    <3> DEFINE H == Halved[Stages]
    <3>1. e \in Decimator /\ e.offset = 0 /\ e.out = Append(d.out, start % Period)
      BY <2>1, <2>2, <2>5
    <3> HIDE DEF start, gr, o, u, H
    <3>2. (start + u) + 0 * gr = (start + o * gr) + gr
      <4>1. u = gr * H /\ o = H - 1 /\ H \in Nat
        BY <1>1, <1>7, <2>5 DEF H
      <4> QED
        BY <1>1, <1>4, <4>1
    <3>3. ((start + u) + 0 * gr) % Period = (p + gr) % Period
      BY <2>3, <3>2
    <3> HIDE DEF e, s
    <3>4. Made(e, base, p + gr)
      BY <1>5, <3>1, <3>3
    <3> QED
      BY <3>4 DEF e, s, gr
  <2> QED
    BY <2>4, <2>5
<1> QED
  BY <1>6, <1>7

\* However many groups come at once, they make the samples that they would make one by
\* one.
LEMMA DecimatedIs ==
  ASSUME NEW base \in Nat, NEW p \in Nat, p % Group = 0, NEW m \in Nat,
         Made([offset |-> offset, stages |-> stages, out |-> << >>], base, p)
  PROVE  Made(Decimated(GroupsFrom(p, m)), base, p + m * Group)
<1> DEFINE gr == Group
           groups == GroupsFrom(p, m)
           at(j) == p + j * gr
           a == [offset |-> offset, stages |-> stages, out |-> << >>]
           Goes(f) == f = [j \in 0..m |-> IF j = 0 THEN a ELSE After(f[j - 1], Sampled(groups[j]))]
           F == [x \in (1..m) \X Decimator |->
                   IF Made(x[2], base, at(x[1] - 1)) THEN After(x[2], Sampled(groups[x[1]])) ELSE x[2]]
<1>1. gr \in {2, 4} /\ Period \in Nat \ {0}
  BY Consts
<1>2. /\ Len(groups) = m /\ \A j \in 1..m : groups[j] = Run(at(j - 1), gr)
  BY GroupsIs
<1>3. \A j \in Nat : at(j) \in Nat /\ at(j) % gr = 0
  <2> SUFFICES ASSUME NEW j \in Nat PROVE at(j) \in Nat /\ at(j) % gr = 0
    OBVIOUS
  <2>1. p % gr = 0 /\ p \in Int
    OBVIOUS
  <2> HIDE DEF gr
  <2>2. j * gr \in Nat /\ j \in Int /\ gr \in Nat \ {0}
    BY <1>1
  <2>3. (p + j * gr) % gr = p % gr
    BY <2>1, <2>2, SameRemainder
  <2> QED
    BY <2>1, <2>2, <2>3
<1>4. ASSUME NEW j \in 1..m
      PROVE  j - 1 \in Nat /\ at(j - 1) \in Nat /\ at(j) = at(j - 1) + gr /\ Sampled(groups[j]) = at(j - 1) % Period
  <2>1. j - 1 \in Nat
    OBVIOUS
  <2>2. at(j) = at(j - 1) + gr
    <3> HIDE DEF gr
    <3> QED
      BY <1>1
  <2> DEFINE q == at(j - 1)
  <2>3. q \in Nat /\ q % Group = 0 /\ groups[j] = Run(q, Group)
    BY <1>2, <1>3, <2>1
  <2> HIDE DEF q, groups
  <2>4. Sampled(groups[j]) = q % Period
    BY <2>3, SampledIs
  <2> QED
    BY <2>1, <2>2, <2>3, <2>4 DEF q
<1>5. Decimated(groups) = (CHOOSE f : Goes(f))[m]
  <2> HIDE DEF groups
  <2> QED
    BY <1>2 DEF Decimated, After
<1>6. Made(a, base, at(0)) /\ a \in Decimator
  <2>1. at(0) = p
    <3> HIDE DEF gr
    <3> QED
      BY <1>1
  <2> HIDE DEF a
  <2>2. Made(a, base, p)
    BY DEF a
  <2> QED
    BY <2>1, <2>2 DEF Made
<1> HIDE DEF groups, at, a
<1>7. ASSUME NEW j \in 1..m, NEW d, Made(d, base, at(j - 1))
      PROVE  Made(After(d, Sampled(groups[j])), base, at(j)) /\ After(d, Sampled(groups[j])) \in Decimator
  <2> DEFINE q == at(j - 1)
  <2>1. q \in Nat /\ at(j) = q + gr /\ Sampled(groups[j]) = q % Period /\ Made(d, base, q)
    BY <1>4, <1>7
  <2> HIDE DEF q
  <2>2. Made(After(d, q % Period), base, q + gr)
    BY <2>1, MadeOne
  <2> QED
    BY <2>1, <2>2 DEF Made
<1>8. F \in [(1..m) \X Decimator -> Decimator]
  BY <1>7
<1>9. PICK f \in [0..m -> Decimator] : Recurs(f, m, a, F)
  <2> HIDE DEF F
  <2> QED
    BY <1>6, <1>8, Recursion
<1> DEFINE T == {j \in 0..m : Made(f[j], base, at(j))}
<1>10. 0..m \subseteq T
  <2>1. 0 \in T
    BY <1>6, <1>9 DEF Recurs
  <2>2. ASSUME NEW j \in 0..m - 1, j \in T PROVE j + 1 \in T
    <3>1. j + 1 \in 1..m /\ j + 1 \in 0..m /\ (j + 1) - 1 = j /\ f[j] \in Decimator
      OBVIOUS
    <3>2. f[j + 1] = After(f[j], Sampled(groups[j + 1]))
      BY <1>9, <2>2, <3>1 DEF Recurs
    <3> QED
      BY <1>7, <2>2, <3>1, <3>2
  <2> HIDE DEF T
  <2> QED
    BY <2>1, <2>2, Inductive
<1>11. Goes(f)
  <2>1. ASSUME NEW j \in 0..m PROVE f[j] = IF j = 0 THEN a ELSE After(f[j - 1], Sampled(groups[j]))
    <3>1. CASE j = 0
      BY <1>9, <3>1 DEF Recurs
    <3>2. CASE j # 0
      <4>1. j \in 1..m /\ j - 1 \in 0..m /\ f[j - 1] \in Decimator
        BY <3>2
      <4>2. Made(f[j - 1], base, at(j - 1))
        BY <1>10, <4>1
      <4> QED
        BY <1>9, <3>2, <4>1, <4>2 DEF Recurs
    <3> QED
      BY <3>1, <3>2
  <2> QED
    BY <2>1
<1> DEFINE g == CHOOSE h : Goes(h)
<1>12. Goes(g)
  BY <1>11
<1> HIDE DEF g
<1> DEFINE S == {j \in 0..m : Made(g[j], base, at(j))}
<1>13. 0..m \subseteq S
  <2>1. 0 \in S
    BY <1>6, <1>12
  <2>2. ASSUME NEW j \in 0..m - 1, j \in S PROVE j + 1 \in S
    <3>1. j + 1 \in 1..m /\ j + 1 \in 0..m /\ (j + 1) - 1 = j /\ j + 1 # 0
      OBVIOUS
    <3>2. g[j + 1] = After(g[j], Sampled(groups[j + 1]))
      BY <1>12, <3>1
    <3> QED
      BY <1>7, <2>2, <3>1, <3>2
  <2> HIDE DEF S
  <2> QED
    BY <2>1, <2>2, Inductive
<1>14. Made(g[m], base, at(m))
  BY <1>13
<1> QED
  BY <1>5, <1>14 DEF g, groups, at

-----------------------------------------------------------------------------
(* Windows. *)

\* The buffer has the samples of the window so far, and the next is the one at x.
Windowed(acq, x) ==
  /\ acq \in [inBuffer: Seq(Sample), whole: {TRUE}, next: Number]
  /\ Len(acq.inBuffer) < WindowLen
  /\ \A i \in 1..Len(acq.inBuffer) : acq.inBuffer[i] = (acq.next + (i - 1) * UnitsOf(mode)) % Period
  /\ (acq.next + Len(acq.inBuffer) * UnitsOf(mode)) % Period = x % Period

\* One sample taken: the buffer goes on, or a whole window is handed over and its end kept.
LEMMA TakenKeeps ==
  ASSUME NEW acq, NEW x \in Nat, Windowed(acq, x), NEW keep \in 1..WindowLen - 1
  PROVE  Windowed(Taken(acq, x % Period, keep), x + UnitsOf(mode))
<1> DEFINE u == UnitsOf(mode)
           s == x % Period
           n == Len(acq.inBuffer)
           nx == acq.next
           buf == Append(acq.inBuffer, s)
           new == Taken(acq, s, keep)
           W == WindowLen
<1>1. W \in Nat \ {0, 1} /\ Period \in Nat \ {0} /\ u \in Nat \ {0} /\ Number = 0..Period - 1 /\ Number \subseteq Sample
  BY Consts DEF Number, Sample
<1>2. /\ acq \in [inBuffer: Seq(Sample), whole: {TRUE}, next: Number] /\ n < W
      /\ \A i \in 1..n : acq.inBuffer[i] = (nx + (i - 1) * u) % Period
      /\ (nx + n * u) % Period = s
  BY DEF Windowed
<1>3. acq.inBuffer \in Seq(Sample) /\ n \in Nat /\ nx \in Number /\ nx \in Nat /\ s \in Sample
  BY <1>1, <1>2, LenProperties
<1>4. /\ buf \in Seq(Sample) /\ Len(buf) = n + 1
      /\ \A i \in 1..n + 1 : buf[i] = IF i = n + 1 THEN s ELSE acq.inBuffer[i]
  BY <1>3, AppendProperties
<1>5. ASSUME NEW i \in 1..n + 1 PROVE buf[i] = (nx + (i - 1) * u) % Period
  <2>1. CASE i = n + 1
    <3>1. i - 1 = n
      BY <1>3, <2>1
    <3> QED
      BY <1>2, <1>4, <2>1, <3>1
  <2>2. CASE i # n + 1
    <3>1. i \in 1..n
      BY <1>3, <2>2
    <3> QED
      BY <1>2, <1>4, <2>2, <3>1
  <2> QED
    BY <2>1, <2>2
<1>6. (nx + (n + 1) * u) % Period = (x + u) % Period
  <2> DEFINE y == nx + n * u
  <2>1. y \in Int /\ x \in Int /\ u \in Int /\ nx + (n + 1) * u = y + u
    <3> HIDE DEF n, u, nx
    <3> QED
      BY <1>1, <1>3
  <2>2. y % Period = x % Period
    BY <1>2
  <2> HIDE DEF y, u
  <2>3. (y + u) % Period = (x + u) % Period
    BY <2>1, <2>2, Alike
  <2> QED
    BY <2>1, <2>3
<1>7. CASE n + 1 < W
  <2>1. new = [acq EXCEPT !.inBuffer = buf]
    BY <1>4, <1>7 DEF Taken
  <2> HIDE DEF buf, new
  <2>2. /\ new \in [inBuffer: Seq(Sample), whole: {TRUE}, next: Number]
        /\ new.inBuffer = buf /\ new.next = nx
    BY <1>2, <1>4, <2>1
  <2>3. Windowed(new, x + u)
    BY <1>4, <1>5, <1>6, <1>7, <2>2 DEF Windowed
  <2> QED
    BY <2>3 DEF new
<1>8. CASE ~(n + 1 < W)
  <2>1. n + 1 = W
    <3> HIDE DEF n, W
    <3> QED
      BY <1>1, <1>2, <1>3, <1>8
  <2> DEFINE m == W - keep
             mu == m * u
             kept == LastOf(buf, keep)
             nn == (nx + mu) % Period
  <2>2. /\ m \in 1..W - 1 /\ mu \in Nat /\ nx + mu \in Nat /\ nn \in Number /\ nn \in Nat
    <3> HIDE DEF u, nx
    <3>1. m \in 1..W - 1
      BY <1>1
    <3>2. mu \in Nat
      <4> HIDE DEF m
      <4> QED
        BY <1>1, <3>1
    <3> HIDE DEF mu, m
    <3> QED
      BY <1>1, <1>3, <3>1, <3>2
  <2>3. buf = Window(nx)
    <3> DEFINE w == Window(nx)
    <3>1. \A i \in 1..W : (nx + (i - 1) * u) % Period \in Sample
      BY <1>4, <1>5, <2>1, ElementOfSeq
    <3>2. w \in Seq(Sample) /\ Len(w) = W /\ \A i \in 1..W : w[i] = (nx + (i - 1) * u) % Period
      BY <1>1, <3>1 DEF Window
    <3> HIDE DEF w, buf
    <3>3. buf = w
      BY <1>4, <1>5, <2>1, <3>2, SeqEqual
    <3> QED
      BY <3>3 DEF w
  <2>4. /\ kept \in Seq(Sample) /\ Len(kept) = keep
        /\ \A i \in 1..keep : kept[i] = buf[m + i]
    <3> DEFINE b == m + 1
    <3>1. kept = SubSeq(buf, b, W) /\ b \in 1..W + 1 /\ W \in 0..W /\ W - b + 1 = keep /\ b <= W /\ Len(buf) = W
      <4>1. Len(buf) = W
        BY <1>4, <2>1
      <4> HIDE DEF buf, W
      <4>2. b \in 1..W + 1 /\ W \in 0..W /\ W - b + 1 = keep /\ b <= W
        BY <1>1, <2>2
      <4> QED
        BY <4>1, <4>2 DEF LastOf
    <3> HIDE DEF b, buf, kept
    <3>2. /\ SubSeq(buf, b, W) \in Seq(Sample)
          /\ Len(SubSeq(buf, b, W)) = IF b <= W THEN W - b + 1 ELSE 0
          /\ \A i \in 1..W - b + 1 : SubSeq(buf, b, W)[i] = buf[b + i - 1]
      BY <1>4, <3>1, SubSeqProperties
    <3>3. \A i \in 1..keep : b + i - 1 = m + i
      BY <2>2 DEF b
    <3> QED
      BY <3>1, <3>2, <3>3
  <2>5. new = [inBuffer |-> kept, whole |-> acq.whole /\ buf = Window(nx), next |-> nn]
    BY <1>4, <1>8 DEF Taken
  <2>6. ASSUME NEW i \in 1..keep PROVE kept[i] = (nn + (i - 1) * u) % Period
    <3>1. m + i \in 1..n + 1 /\ (m + i) - 1 = m + (i - 1)
      BY <1>1, <2>1, <2>2
    <3>2. kept[i] = (nx + (m + (i - 1)) * u) % Period
      BY <1>5, <2>4, <3>1
    <3> DEFINE c == (i - 1) * u
    <3>3. c \in Int /\ nx + (m + (i - 1)) * u = (nx + mu) + c
      <4>1. i - 1 \in Int /\ m \in Int
        BY <2>2
      <4> DEFINE j == i - 1
      <4> HIDE DEF j, m, u, nx
      <4>2. j * u \in Int /\ nx + (m + j) * u = (nx + m * u) + j * u
        BY <1>1, <1>3, <4>1 DEF j
      <4> QED
        BY <4>2 DEF j
    <3> HIDE DEF c
    <3>4. (nn + c) % Period = ((nx + mu) + c) % Period
      <4> DEFINE y == nx + mu
      <4>1. y \in Int
        BY <2>2
      <4> HIDE DEF y
      <4>2. ((y % Period) + c) % Period = (y + c) % Period
        BY <1>1, <3>3, <4>1, CountOn, Zenon
      <4> QED
        BY <4>2 DEF y
    <3> QED
      BY <3>2, <3>3, <3>4 DEF c
  <2>7. (nn + keep * u) % Period = (x + u) % Period
    <3> DEFINE c == keep * u
    <3>1. c \in Int /\ nx + (n + 1) * u = (nx + mu) + c
      <4>1. c \in Int /\ n + 1 = m + keep /\ m \in Int /\ keep \in Int
        BY <1>1, <2>1, <2>2
      <4> HIDE DEF m, u, nx, n
      <4> QED
        BY <1>1, <1>3, <4>1
    <3> HIDE DEF c
    <3>2. (nn + c) % Period = ((nx + mu) + c) % Period
      <4> DEFINE y == nx + mu
      <4>1. y \in Int
        BY <2>2
      <4> HIDE DEF y
      <4>2. ((y % Period) + c) % Period = (y + c) % Period
        BY <1>1, <3>1, <4>1, CountOn, Zenon
      <4> QED
        BY <4>2 DEF y
    <3> QED
      BY <1>6, <3>1, <3>2 DEF c
  <2> HIDE DEF kept, nn, new
  <2>8. /\ new \in [inBuffer: Seq(Sample), whole: {TRUE}, next: Number]
        /\ new.inBuffer = kept /\ new.next = nn
    BY <1>2, <2>2, <2>3, <2>4, <2>5
  <2>9. keep < W
    BY <1>1
  <2>10. Windowed(new, x + u)
    BY <2>4, <2>6, <2>7, <2>8, <2>9 DEF Windowed
  <2> QED
    BY <2>10 DEF new
<1> QED
  BY <1>7, <1>8

\* Samples pushed fill windows in their order.
LEMMA PushIs ==
  ASSUME NEW groups, NEW keep \in 1..WindowLen - 1, Push(groups, keep),
         NEW base \in Nat, NEW p, Made(Decimated(groups), base, p),
         Windowed([inBuffer |-> inBuffer, whole |-> whole, next |-> next], base)
  PROVE  /\ offset' = Decimated(groups).offset /\ stages' = Decimated(groups).stages
         /\ Windowed([inBuffer |-> inBuffer', whole |-> whole', next |-> next'],
                     base + Len(Decimated(groups).out) * UnitsOf(mode))
<1> DEFINE u == UnitsOf(mode)
           d == Decimated(groups)
           m == Len(d.out)
           at(j) == base + j * u
           a == [inBuffer |-> inBuffer, whole |-> whole, next |-> next]
           Acquired == [inBuffer: Seq(Sample), whole: {TRUE}, next: Number]
           Goes(f) == f = [j \in 0..m |-> IF j = 0 THEN a ELSE Taken(f[j - 1], d.out[j], keep)]
           F == [x \in (1..m) \X Acquired |->
                   IF Windowed(x[2], at(x[1] - 1)) THEN Taken(x[2], d.out[x[1]], keep) ELSE x[2]]
           g == CHOOSE h : Goes(h)
<1>1. u \in Nat \ {0} /\ m \in Nat /\ \A j \in 1..m : d.out[j] = (base + (j - 1) * u) % Period
  <2>1. u \in Nat \ {0}
    BY Consts
  <2>2. d.out \in Seq(Sample) /\ \A j \in 1..m : d.out[j] = (base + (j - 1) * u) % Period
    BY DEF Made, Decimator
  <2> QED
    BY <2>1, <2>2, LenProperties
<1>2. /\ offset' = d.offset /\ stages' = d.stages
      /\ inBuffer' = g[m].inBuffer /\ whole' = g[m].whole /\ next' = g[m].next
  BY DEF Push
<1>3. ASSUME NEW j \in 1..m
      PROVE  at(j - 1) \in Nat /\ at(j) = at(j - 1) + u /\ d.out[j] = at(j - 1) % Period
  <2> HIDE DEF u, d, m
  <2> QED
    BY <1>1
<1>4. Windowed(a, at(0)) /\ a \in Acquired
  <2>1. at(0) = base
    <3> HIDE DEF u
    <3> QED
      BY <1>1
  <2> HIDE DEF a
  <2>2. Windowed(a, base)
    BY DEF a
  <2> QED
    BY <2>1, <2>2 DEF Windowed
<1> HIDE DEF a, at, d, m, g
<1>5. ASSUME NEW j \in 1..m, NEW acq, Windowed(acq, at(j - 1))
      PROVE  Windowed(Taken(acq, d.out[j], keep), at(j)) /\ Taken(acq, d.out[j], keep) \in Acquired
  <2> DEFINE x == at(j - 1)
  <2>1. x \in Nat /\ at(j) = x + u /\ d.out[j] = x % Period /\ Windowed(acq, x)
    BY <1>3, <1>5
  <2> HIDE DEF x
  <2>2. Windowed(Taken(acq, x % Period, keep), x + u)
    BY <2>1, TakenKeeps
  <2> QED
    BY <2>1, <2>2 DEF Windowed
<1>6. F \in [(1..m) \X Acquired -> Acquired]
  BY <1>5
<1>7. PICK f \in [0..m -> Acquired] : Recurs(f, m, a, F)
  <2> HIDE DEF F, Acquired
  <2> QED
    BY <1>1, <1>4, <1>6, Recursion
<1> DEFINE T == {j \in 0..m : Windowed(f[j], at(j))}
<1>8. 0..m \subseteq T
  <2>1. 0 \in T
    BY <1>1, <1>4, <1>7 DEF Recurs
  <2>2. ASSUME NEW j \in 0..m - 1, j \in T PROVE j + 1 \in T
    <3>1. j + 1 \in 1..m /\ j + 1 \in 0..m /\ (j + 1) - 1 = j /\ f[j] \in Acquired
      <4> HIDE DEF Acquired
      <4> QED
        BY <1>1
    <3>2. f[j + 1] = Taken(f[j], d.out[j + 1], keep)
      BY <1>7, <2>2, <3>1 DEF Recurs
    <3> QED
      BY <1>5, <2>2, <3>1, <3>2
  <2> HIDE DEF T
  <2> QED
    BY <1>1, <2>1, <2>2, Inductive
<1>9. Goes(f)
  <2>1. ASSUME NEW j \in 0..m PROVE f[j] = IF j = 0 THEN a ELSE Taken(f[j - 1], d.out[j], keep)
    <3>1. CASE j = 0
      BY <1>7, <3>1 DEF Recurs
    <3>2. CASE j # 0
      <4>1. j \in 1..m /\ j - 1 \in 0..m /\ f[j - 1] \in Acquired
        <5> HIDE DEF Acquired
        <5> QED
          BY <1>1, <3>2
      <4>2. Windowed(f[j - 1], at(j - 1))
        BY <1>8, <4>1
      <4> QED
        BY <1>7, <3>2, <4>1, <4>2 DEF Recurs
    <3> QED
      BY <3>1, <3>2
  <2> QED
    BY <2>1
<1>10. Goes(g)
  BY <1>9 DEF g
<1> DEFINE S == {j \in 0..m : Windowed(g[j], at(j))}
<1>11. 0..m \subseteq S
  <2>1. 0 \in S
    BY <1>1, <1>4, <1>10
  <2>2. ASSUME NEW j \in 0..m - 1, j \in S PROVE j + 1 \in S
    <3>1. j + 1 \in 1..m /\ j + 1 \in 0..m /\ (j + 1) - 1 = j /\ j + 1 # 0
      BY <1>1
    <3>2. g[j + 1] = Taken(g[j], d.out[j + 1], keep)
      BY <1>10, <3>1
    <3> QED
      BY <1>5, <2>2, <3>1, <3>2
  <2> HIDE DEF S
  <2> QED
    BY <1>1, <2>1, <2>2, Inductive
<1>12. Windowed(g[m], at(m))
  BY <1>1, <1>11
<1>13. g[m] = [inBuffer |-> g[m].inBuffer, whole |-> g[m].whole, next |-> g[m].next]
  BY <1>12 DEF Windowed
<1>14. Windowed([inBuffer |-> inBuffer', whole |-> whole', next |-> next'], at(m))
  BY <1>2, <1>12, <1>13
<1> QED
  BY <1>2, <1>14 DEF at, d, m

-----------------------------------------------------------------------------
(* Steps. *)

\* Where a sample begins matters only up to the period.
LEMMA FilledAround ==
  ASSUME NEW o \in Nat, NEW st, NEW start \in Nat, Filled(o, st, start)
  PROVE  Filled(o, st, start % Period)
<1> SUFFICES ASSUME NEW k \in 0..Stages - 1, (o \div Halved[k]) % 2 = 1
             PROVE  st[k][0] = ((start % Period) + Group * Halved[k + 1] * (o \div Halved[k + 1])) % Period
  BY DEF Filled
<1> DEFINE b == Group * Halved[k + 1] * (o \div Halved[k + 1])
<1>1. st[k][0] = (start + b) % Period
  BY DEF Filled
<1>2. b \in Int /\ Period \in Nat \ {0} /\ start \in Int
  <2> DEFINE h == Halved[k + 1]
             g == Group
             q == o \div h
  <2>1. k + 1 \in 0..Stages /\ Period \in Nat \ {0} /\ g \in {2, 4}
    BY Consts
  <2>2. h \in Nat \ {0}
    BY <2>1, HalvedIs
  <2> HIDE DEF h, g
  <2>3. q \in Int
    BY <2>2
  <2> HIDE DEF q
  <2>4. g * h * q \in Int
    BY <2>1, <2>2, <2>3
  <2> QED
    BY <2>1, <2>4 DEF q, h, g
<1> HIDE DEF b
<1>3. ((start % Period) + b) % Period = (start + b) % Period
  BY <1>2, CountOn, Zenon
<1> QED
  BY <1>1, <1>3 DEF b

\* The next group begins where the leftovers do.
LEMMA PosIs ==
  ASSUME TypeOK
  PROVE  /\ Pos \in Number /\ From \in Number
         /\ feed \in HasLeftover =>
              /\ left[feed] \in Seq(Sample) /\ Len(left[feed]) \in 0..Group - 1
              /\ (Pos + Len(left[feed])) % Period = fed
<1>1. Period \in Nat \ {0} /\ Number = 0..Period - 1 /\ UnitsOf(mode) \in Nat
  BY Consts DEF Number
<1>2. /\ fed \in Number /\ next \in Number /\ feed \in Feeds /\ inBuffer \in Seq(Sample)
      /\ left \in [HasLeftover -> Seq(Sample)] /\ Len(left["cu8"]) < 4 /\ Len(left["cs16"]) < 2
  BY DEF TypeOK
<1>3. From \in Number
  <2> DEFINE u == UnitsOf(mode)
             n == Len(inBuffer)
             x == next + n * u
  <2>1. n \in Nat
    BY <1>2, LenProperties
  <2> HIDE DEF u, n
  <2>2. x \in Nat
    <3>1. u \in Nat /\ next \in Nat
      BY <1>1, <1>2 DEF u
    <3>2. n * u \in Nat
      BY <2>1, <3>1
    <3> QED
      BY <3>1, <3>2
  <2> HIDE DEF x
  <2>3. x % Period \in Number
    BY <1>1, <2>2
  <2> QED
    BY <2>3 DEF From, x, u, n
<1>4. CASE feed \in HasLeftover
  <2> DEFINE k == Len(left[feed])
             y == fed + Period - k
  <2>1. left[feed] \in Seq(Sample) /\ k \in Nat
    BY <1>2, <1>4, LenProperties
  <2>2. k \in 0..Group - 1
    BY <1>2, <1>4, <2>1 DEF HasLeftover, Group
  <2> HIDE DEF k
  <2>3. y \in Int /\ y + k = fed + 1 * Period /\ fed \in Int /\ fed \in 0..Period - 1
    BY <1>1, <1>2, <2>1
  <2>4. Pos = y % Period
    BY <1>4 DEF Pos, k
  <2> HIDE DEF y
  <2>5. ((y % Period) + k) % Period = (y + k) % Period
    <3>1. k \in Int
      BY <2>1
    <3> QED
      BY <1>1, <2>3, <3>1, CountOn, Zenon
  <2>6. (y + k) % Period = fed
    <3>1. y + k \in Int
      BY <2>1, <2>3
    <3> QED
      BY <1>1, <2>3, <3>1, Remainder
  <2>7. Pos \in Number
    BY <1>1, <2>3, <2>4
  <2> QED
    BY <1>3, <2>1, <2>2, <2>4, <2>5, <2>6, <2>7 DEF k
<1>5. CASE feed \notin HasLeftover
  BY <1>2, <1>3, <1>5 DEF Pos
<1> QED
  BY <1>4, <1>5

\* Groups in their order, whatever number of them, keep samples and windows in order.
LEMMA PushKeeps ==
  ASSUME IInv, ~spoilt, NEW m \in Nat, NEW keep \in 1..WindowLen - 1,
         Push(GroupsFrom(Pos, m), keep), feed' = feed, mode' = mode
  PROVE  /\ offset' \in 0..Halved[Stages] - 1 /\ stages' \in [0..Stages - 1 -> [{0, 1} -> Sample]]
         /\ inBuffer' \in Seq(Sample) /\ Len(inBuffer') < WindowLen
         /\ whole' = TRUE /\ next' \in Number
         /\ BufferFollows'
         /\ UnitsOf(mode)' = Group' => offset' = 0
         /\ (From' + offset' * Group') % Period = (Pos + m * Group) % Period
         /\ Filled(offset, stages, From)'
<1> DEFINE u == UnitsOf(mode)
           gr == Group
           a == [offset |-> offset, stages |-> stages, out |-> << >>]
           d == Decimated(GroupsFrom(Pos, m))
           n == Len(d.out)
           x == From + n * u
           p == Pos + m * gr
<1>1. /\ Period \in Nat \ {0} /\ Number = 0..Period - 1 /\ gr \in {2, 4} /\ u \in Nat \ {0}
      /\ Halved[Stages] \in Nat
  BY Consts DEF Number
<1>2. /\ TypeOK /\ BufferFollows /\ whole = TRUE /\ Pos % Group = 0
      /\ (u = gr => offset = 0) /\ (From + offset * gr) % Period = Pos /\ Filled(offset, stages, From)
  BY DEF IInv, Follows, StagesFollow, TypeOK
<1>3. Pos \in Number /\ From \in Number /\ Pos \in Nat /\ From \in Nat /\ Pos % Period = Pos /\ From % Period = From
  <2>1. Pos \in Number /\ From \in Number
    BY <1>2, PosIs
  <2>2. ASSUME NEW y \in Number PROVE y \in Nat /\ y % Period = y
    BY <1>1
  <2> QED
    BY <2>1, <2>2
<1>4. /\ offset \in 0..Halved[Stages] - 1 /\ stages \in [0..Stages - 1 -> [{0, 1} -> Sample]]
      /\ inBuffer \in Seq(Sample) /\ Len(inBuffer) < WindowLen /\ next \in Number
  BY <1>2 DEF TypeOK
<1>5. Made(a, From, Pos)
  <2>1. a \in Decimator /\ a.offset = offset /\ a.stages = stages /\ a.out = << >> /\ Len(a.out) = 0
    BY <1>4 DEF Decimator
  <2>2. From + 0 * u = From /\ From + 0 * u + offset * gr = From + offset * gr
    <3> HIDE DEF u
    <3> QED
      BY <1>1, <1>3
  <2> HIDE DEF a
  <2> QED
    BY <1>2, <1>3, <2>1, <2>2 DEF Made
<1>6. Windowed([inBuffer |-> inBuffer, whole |-> whole, next |-> next], From)
  BY <1>2, <1>3, <1>4 DEF Windowed, BufferFollows, From
<1>7. Made(d, From, p)
  BY <1>2, <1>3, <1>5, DecimatedIs
<1> HIDE DEF p
<1>8. /\ offset' = d.offset /\ stages' = d.stages
      /\ Windowed([inBuffer |-> inBuffer', whole |-> whole', next |-> next'], x)
  BY <1>3, <1>6, <1>7, PushIs
<1> HIDE DEF d
<1>9. /\ d \in Decimator /\ (u = gr => d.offset = 0)
      /\ (x + d.offset * gr) % Period = p % Period
      /\ Filled(d.offset, d.stages, x)
  BY <1>7 DEF Made
<1>10. /\ inBuffer' \in Seq(Sample) /\ whole' = TRUE /\ next' \in Number /\ Len(inBuffer') < WindowLen
       /\ \A i \in 1..Len(inBuffer') : inBuffer'[i] = (next' + (i - 1) * u) % Period
       /\ (next' + Len(inBuffer') * u) % Period = x % Period
  BY <1>8 DEF Windowed
<1>11. /\ d.offset \in 0..Halved[Stages] - 1 /\ d.offset \in Nat
       /\ d.stages \in [0..Stages - 1 -> [{0, 1} -> Sample]] /\ n \in Nat
  BY <1>1, <1>9, LenProperties DEF Decimator
<1>12. Group' = gr /\ UnitsOf(mode)' = u
  BY DEF Group, UnitsOf
<1>13. From' = x % Period
  BY <1>10, <1>12 DEF From
<1>14. x \in Nat
  <2> HIDE DEF n, u
  <2>1. n * u \in Nat
    BY <1>1, <1>11
  <2> QED
    BY <1>3, <2>1
<1> HIDE DEF x
<1>15. BufferFollows'
  BY <1>10, <1>12 DEF BufferFollows
<1>16. (From' + offset' * gr) % Period = p % Period
  <2> DEFINE b == d.offset * gr
  <2>1. b \in Int /\ x \in Int
    <3> HIDE DEF gr
    <3> QED
      BY <1>1, <1>11, <1>14
  <2>2. (x + b) % Period = p % Period
    BY <1>9
  <2> HIDE DEF b
  <2>3. ((x % Period) + b) % Period = (x + b) % Period
    BY <1>1, <2>1, CountOn, Zenon
  <2> QED
    BY <1>8, <1>13, <2>2, <2>3 DEF b
<1>17. Filled(offset, stages, From)'
  <2>1. Filled(d.offset, d.stages, x % Period)
    BY <1>9, <1>11, <1>14, FilledAround
  <2> DEFINE y == x % Period
  <2>2. Filled(d.offset, d.stages, y) /\ From' = y
    BY <1>13, <2>1
  <2> HIDE DEF y
  <2> QED
    BY <1>8, <1>12, <2>2 DEF Filled
<1> QED
  BY <1>8, <1>9, <1>10, <1>11, <1>12, <1>15, <1>16, <1>17 DEF p

\* Whole groups on from a whole group.
LEMMA PosMoves ==
  ASSUME NEW p \in Number, NEW m \in Nat, p % Group = 0
  PROVE  /\ p \in Nat /\ p + m * Group \in Nat /\ (p + m * Group) % Period \in Number
         /\ ((p + m * Group) % Period) % Group = 0
<1> DEFINE gr == Group
           x == p + m * gr
<1>1. Period \in Nat \ {0} /\ gr \in Nat \ {0} /\ Period % gr = 0 /\ p \in Nat /\ p \in Int /\ p % gr = 0
  BY Consts DEF Number
<1> HIDE DEF gr
<1>2. x \in Nat /\ x \in Int
  BY <1>1
<1>3. x % gr = 0
  <2>1. m \in Int
    OBVIOUS
  <2>2. (p + m * gr) % gr = p % gr
    BY <1>1, <2>1, SameRemainder, Zenon
  <2> QED
    BY <1>1, <2>2
<1> HIDE DEF x
<1>4. x % Period \in Number
  BY <1>1, <1>2 DEF Number
<1>5. (x % Period) % gr = x % gr
  BY <1>1, <1>2, Refined
<1> QED
  BY <1>1, <1>2, <1>3, <1>4, <1>5 DEF x, gr

\* A call of a PipeSamples function keeps the invariant: leftovers, whole samples and new leftovers.
LEMMA PipeKeeps == IInv /\ Pipe => IInv'
<1> SUFFICES ASSUME IInv, Pipe PROVE IInv'
  OBVIOUS
<1>1. PICK n \in 0..MaxChunk, keep \in 1..WindowLen - 1 :
        /\ Push(Piped(left[feed], Units(n)).groups, keep)
        /\ left' = [left EXCEPT ![feed] = Piped(left[feed], Units(n)).left]
        /\ fed' = (fed + n) % Period
  BY DEF Pipe
<1>2. feed \in HasLeftover /\ ~spoilt /\ UNCHANGED <<feed, mode, spoilt>>
  BY DEF Pipe
<1> DEFINE gr == Group
           k == Len(left[feed])
           m == (k + n) \div gr
           r == (k + n) % gr
           p == Pos + m * gr
<1>3. /\ TypeOK /\ Follows /\ gr \in {2, 4} /\ Period \in Nat \ {0} /\ Number = 0..Period - 1
      /\ n \in Nat /\ Number \subseteq Sample
  <2>1. MaxChunk \in Nat
    BY Consts
  <2> QED
    BY <1>2, <2>1, Consts DEF IInv, Number, Sample
<1>4. /\ Pos \in Number /\ Pos \in Nat /\ k \in 0..gr - 1 /\ k \in Nat /\ (Pos + k) % Period = fed
      /\ left \in [HasLeftover -> Seq(Sample)] /\ fed \in Number /\ fed \in Nat
  <2>1. Pos \in Number /\ k \in 0..gr - 1 /\ (Pos + k) % Period = fed
    BY <1>2, <1>3, PosIs
  <2>2. left \in [HasLeftover -> Seq(Sample)] /\ fed \in Number
    BY <1>3 DEF TypeOK
  <2> HIDE DEF k, gr
  <2>3. k \in Nat /\ Pos \in Nat /\ fed \in Nat
    BY <1>3, <2>1, <2>2
  <2> QED
    BY <2>1, <2>2, <2>3
<1>5. left[feed] = Run(Pos, k)
  BY <1>2, <1>3 DEF Follows, LeftKept
<1> HIDE DEF k
<1>6. Units(n) = Run(Pos + k, n)
  <2> DEFINE q == Pos + k
  <2>1. q \in Nat /\ q % Period = fed
    BY <1>4
  <2> HIDE DEF q
  <2>2. Run(q % Period, n) = Run(q, n)
    BY <1>3, <2>1, RunAround
  <2> QED
    BY <2>1, <2>2 DEF q, Units, Run
<1>7. Piped(left[feed], Units(n)).groups = GroupsFrom(Pos, m) /\ Piped(left[feed], Units(n)).left = Run(p, r)
  <2>1. k \in 0..Group - 1
    BY <1>4
  <2>2. /\ Piped(Run(Pos, k), Run(Pos + k, n)).groups = GroupsFrom(Pos, m)
        /\ Piped(Run(Pos, k), Run(Pos + k, n)).left = Run(p, r)
    BY <1>3, <1>4, <2>1, PipedIs
  <2> QED
    BY <1>5, <1>6, <2>2
<1>8. m \in Nat /\ r \in 0..gr - 1 /\ r \in Nat /\ k + n = m * gr + r
  <2> DEFINE y == k + n
  <2>1. y \in Nat
    BY <1>3, <1>4
  <2> HIDE DEF y, gr
  <2>2. y \div gr \in Nat /\ y % gr \in 0..gr - 1 /\ y = (y \div gr) * gr + (y % gr)
    BY <1>3, <2>1
  <2> QED
    BY <1>3, <2>2 DEF y
<1> HIDE DEF m, r
<1>9. /\ p \in Nat /\ p % Period \in Number /\ (p % Period) % Group = 0
  BY <1>3, <1>4, <1>8, PosMoves DEF Follows
<1> HIDE DEF p
<1>10. /\ offset' \in 0..Halved[Stages] - 1 /\ stages' \in [0..Stages - 1 -> [{0, 1} -> Sample]]
       /\ inBuffer' \in Seq(Sample) /\ Len(inBuffer') < WindowLen
       /\ whole' = TRUE /\ next' \in Number
       /\ BufferFollows'
       /\ UnitsOf(mode)' = Group' => offset' = 0
       /\ (From' + offset' * Group') % Period = p % Period
       /\ Filled(offset, stages, From)'
  BY <1>1, <1>2, <1>7, <1>8, PushKeeps DEF p
<1>11. Run(p, r) \in Seq(Number) /\ Run(p, r) \in Seq(Sample) /\ Len(Run(p, r)) = r
  <2>1. Run(p, r) \in Seq(Number) /\ Len(Run(p, r)) = r
    BY <1>8, <1>9, RunIs
  <2>2. Run(p, r) \in Seq(Sample)
    BY <1>3, <2>1, SeqMonotonic, ElementOfSeq
  <2> QED
    BY <2>1, <2>2
<1>12. left' = [left EXCEPT ![feed] = Run(p, r)] /\ left'[feed] = Run(p, r) /\ Len(left'[feed]) = r
  BY <1>1, <1>2, <1>4, <1>7, <1>11
<1>13. left' \in [HasLeftover -> Seq(Sample)] /\ Len(left'["cu8"]) < 4 /\ Len(left'["cs16"]) < 2
  <2>1. left' \in [HasLeftover -> Seq(Sample)]
    BY <1>2, <1>4, <1>11, <1>12
  <2>2. Len(left["cu8"]) < 4 /\ Len(left["cs16"]) < 2
    BY <1>3 DEF TypeOK
  <2>3. (feed = "cu8" /\ gr = 4) \/ (feed = "cs16" /\ gr = 2)
    BY <1>2 DEF HasLeftover, Group
  <2>4. CASE feed = "cu8"
    <3>1. left'["cu8"] = Run(p, r) /\ left'["cs16"] = left["cs16"]
      BY <1>4, <1>12, <2>4 DEF HasLeftover
    <3> QED
      BY <1>8, <1>11, <2>1, <2>2, <2>3, <2>4, <3>1
  <2>5. CASE feed = "cs16"
    <3>1. left'["cs16"] = Run(p, r) /\ left'["cu8"] = left["cu8"]
      BY <1>4, <1>12, <2>5 DEF HasLeftover
    <3> QED
      BY <1>8, <1>11, <2>1, <2>2, <2>3, <2>5, <3>1
  <2> QED
    BY <2>3, <2>4, <2>5
<1>14. fed' \in Number
  BY <1>1, <1>3, <1>4
<1>15. TypeOK'
  BY <1>2, <1>3, <1>10, <1>13, <1>14 DEF TypeOK
<1>16. Pos' = p % Period
  <2> DEFINE y == fed + n
             z == Pos + k
             b == n + Period - r
  <2>1. Pos' = ((y % Period) + Period - r) % Period
    BY <1>1, <1>2, <1>12 DEF Pos
  <2>2. y \in Int /\ z \in Int /\ b \in Int /\ Period - r \in Int /\ p \in Int /\ fed \in Int
    BY <1>3, <1>4, <1>8, <1>9
  <2>3. ((y % Period) + (Period - r)) % Period = (y + (Period - r)) % Period
    <3> HIDE DEF y
    <3> DEFINE c == Period - r
    <3>1. c \in Int
      BY <2>2
    <3> HIDE DEF c
    <3>2. ((y % Period) + c) % Period = (y + c) % Period
      BY <1>3, <2>2, <3>1, CountOn, Zenon
    <3> QED
      BY <3>2 DEF c
  <2>4. y + (Period - r) = fed + b
    BY <1>3, <1>4, <1>8
  <2>5. fed = z % Period
    BY <1>4
  <2>6. (fed + b) % Period = (z + b) % Period
    <3> HIDE DEF z, b
    <3> QED
      BY <1>3, <2>2, <2>5, CountOn, Zenon
  <2>7. z + b = p + 1 * Period
    BY <1>3, <1>4, <1>8 DEF p
  <2>8. (p + 1 * Period) % Period = p % Period
    <3>1. 1 \in Int
      OBVIOUS
    <3> QED
      BY <1>3, <2>2, <3>1, SameRemainder, Zenon
  <2>9. (y % Period) + Period - r = (y % Period) + (Period - r)
    BY <1>3, <1>8, <2>2
  <2> QED
    BY <2>1, <2>3, <2>4, <2>6, <2>7, <2>8, <2>9
<1>17. LeftKept'
  <2>1. Run(p % Period, r) = Run(p, r)
    BY <1>8, <1>9, RunAround
  <2> QED
    BY <1>2, <1>12, <1>16, <2>1 DEF LeftKept, Run
<1>18. Pos' % Group' = 0
  BY <1>2, <1>9, <1>16 DEF Group
<1>19. StagesFollow'
  BY <1>10, <1>16 DEF StagesFollow
<1> QED
  BY <1>10, <1>15, <1>17, <1>18, <1>19 DEF IInv, Follows

\* A read of Run or the worker does, unless it spoils the recording.
LEMMA ReadKeeps == IInv /\ Read => IInv'
<1> SUFFICES ASSUME IInv, Read PROVE IInv'
  OBVIOUS
<1>1. PICK n \in 0..MaxChunk, keep \in 1..WindowLen - 1 :
        /\ Push(Cut(Units(n)), keep)
        /\ fed' = (fed + n) % Period
        /\ spoilt' = (spoilt \/ n % Group # 0)
  BY DEF Read
<1>2. feed \notin HasLeftover /\ ~spoilt /\ UNCHANGED <<feed, mode, left>>
  BY DEF Read
<1> DEFINE m == n \div Group
           p == Pos + m * Group
<1>3. /\ TypeOK /\ Follows /\ Period \in Nat \ {0} /\ Number = 0..Period - 1 /\ n \in Nat
  <2>1. MaxChunk \in Nat
    BY Consts
  <2> QED
    BY <1>2, <2>1, Consts DEF IInv, Number
<1>4. Pos = fed /\ Pos \in Number /\ Pos \in Nat
  BY <1>2, <1>3, PosIs DEF Pos
<1>5. m \in Nat /\ n = m * Group + (n % Group) /\ Cut(Units(n)) = GroupsFrom(Pos, m)
  <2>1. Units(n) = Run(Pos, n)
    BY <1>4 DEF Units, Run
  <2> QED
    BY <1>3, <1>4, <2>1, CutIs
<1> HIDE DEF m
<1>6. p \in Nat /\ p % Period \in Number /\ (p % Period) % Group = 0
  BY <1>3, <1>4, <1>5, PosMoves DEF Follows
<1>7. /\ offset' \in 0..Halved[Stages] - 1 /\ stages' \in [0..Stages - 1 -> [{0, 1} -> Sample]]
      /\ inBuffer' \in Seq(Sample) /\ Len(inBuffer') < WindowLen
      /\ whole' = TRUE /\ next' \in Number
      /\ BufferFollows'
      /\ UnitsOf(mode)' = Group' => offset' = 0
      /\ (From' + offset' * Group') % Period = p % Period
      /\ Filled(offset, stages, From)'
  BY <1>1, <1>2, <1>5, PushKeeps
<1>8. TypeOK'
  <2>1. fed' \in Number
    BY <1>1, <1>3, <1>4
  <2>2. spoilt' \in BOOLEAN
    BY <1>1
  <2> QED
    BY <1>2, <1>3, <1>7, <2>1, <2>2 DEF TypeOK
<1>9. ASSUME ~spoilt' PROVE Follows'
  <2>1. n % Group = 0
    BY <1>1, <1>9
  <2>2. p = fed + n
    <3> DEFINE q == m * Group
    <3>1. n = q + 0 /\ q \in Nat
      <4>1. Group \in {2, 4}
        BY Consts
      <4>2. q \in Nat
        BY <1>5, <4>1
      <4> QED
        BY <1>5, <2>1, <4>2
    <3> HIDE DEF q
    <3>2. n = q
      BY <3>1
    <3> QED
      BY <1>4, <3>2 DEF q
  <2>3. Pos' = p % Period
    BY <1>1, <1>2, <2>2 DEF Pos
  <2>4. LeftKept'
    BY <1>2 DEF LeftKept
  <2>5. Pos' % Group' = 0
    BY <1>2, <1>6, <2>3 DEF Group
  <2>6. StagesFollow'
    BY <1>7, <2>3 DEF StagesFollow
  <2> QED
    BY <1>7, <2>4, <2>5, <2>6 DEF Follows
<1> QED
  BY <1>8, <1>9 DEF IInv

\* The invariant holds at first.
LEMMA InitIInv == Init => IInv
<1> SUFFICES ASSUME Init PROVE IInv
  OBVIOUS
<1>1. /\ feed \in Feeds /\ fed = 0 /\ mode = "FM" /\ left = [f \in HasLeftover |-> << >>]
      /\ offset = 0 /\ stages = [k \in 0..Stages - 1 |-> [i \in {0, 1} |-> Broken]]
      /\ inBuffer = << >> /\ whole = TRUE /\ next = 0 /\ spoilt = FALSE
  BY DEF Init
<1>2. /\ Period \in Nat \ {0} /\ 0 \in Number /\ Group \in {2, 4} /\ WindowLen \in Nat \ {0, 1}
      /\ Halved[Stages] \in Nat \ {0, 1} /\ UnitsOf(mode) \in Nat
  BY Consts
<1>3. << >> \in Seq(Sample) /\ Len(<< >>) = 0 /\ Broken \in Sample
  BY DEF Sample
<1>4. TypeOK
  <2>1. left \in [HasLeftover -> Seq(Sample)] /\ left["cu8"] = << >> /\ left["cs16"] = << >>
    BY <1>1, <1>3 DEF HasLeftover
  <2>2. stages \in [0..Stages - 1 -> [{0, 1} -> Sample]]
    BY <1>1, <1>3
  <2>3. offset \in 0..Halved[Stages] - 1
    BY <1>1, <1>2
  <2>4. inBuffer \in Seq(Sample) /\ Len(inBuffer) < WindowLen
    BY <1>1, <1>2, <1>3
  <2>5. Len(left["cu8"]) < 4 /\ Len(left["cs16"]) < 2
    BY <1>3, <2>1
  <2>6. /\ fed \in Number /\ next \in Number /\ mode \in {"FM", "AM"}
        /\ whole \in BOOLEAN /\ spoilt \in BOOLEAN
    BY <1>1, <1>2
  <2> QED
    BY <1>1, <2>1, <2>2, <2>3, <2>4, <2>5, <2>6 DEF TypeOK
<1>5. Pos = 0
  <2>1. CASE feed \in HasLeftover
    <3>1. Len(left[feed]) = 0 /\ (0 + Period - 0) % Period = 0
      BY <1>1, <1>2, <1>3, <2>1
    <3> QED
      BY <1>1, <2>1, <3>1 DEF Pos
  <2>2. CASE feed \notin HasLeftover
    BY <1>1, <2>2 DEF Pos
  <2> QED
    BY <2>1, <2>2
<1>6. LeftKept
  <2>1. feed \in HasLeftover => left[feed] = << >> /\ Run(0, 0) = << >>
    BY <1>1, RunEmpty
  <2> QED
    BY <1>3, <1>5, <2>1 DEF LeftKept
<1>7. From = 0
  <2>1. 0 + 0 * UnitsOf(mode) = 0 /\ 0 % Period = 0
    BY <1>2
  <2> QED
    BY <1>1, <1>3, <2>1 DEF From
<1>8. StagesFollow
  <2>1. (0 + 0 * Group) % Period = 0
    BY <1>2
  <2> QED
    BY <1>1, <1>5, <1>7, <2>1, NoneFilled DEF StagesFollow
<1>9. BufferFollows /\ 0 % Group = 0
  BY <1>1, <1>2, <1>3 DEF BufferFollows
<1> QED
  BY <1>1, <1>4, <1>5, <1>6, <1>8, <1>9 DEF IInv, Follows

\* Reset does, unless leftovers of another recording stay.
LEMMA ResetKeeps == IInv /\ Reset => IInv'
<1> SUFFICES ASSUME IInv, Reset PROVE IInv'
  OBVIOUS
<1>1. /\ mode' \in {"FM", "AM"} /\ whole' = TRUE /\ offset' = 0 /\ inBuffer' = << >>
      /\ stages' = [k \in 0..Stages - 1 |-> [i \in {0, 1} |-> Broken]]
  BY DEF Reset, Restart
<1>2. /\ Period \in Nat \ {0} /\ 0 \in Number /\ Group \in {2, 4} /\ WindowLen \in Nat \ {0, 1}
      /\ Halved[Stages] \in Nat \ {0, 1} /\ Number = 0..Period - 1
  BY Consts DEF Number
<1>3. << >> \in Seq(Sample) /\ Len(<< >>) = 0 /\ Broken \in Sample
  BY DEF Sample
<1>4. TypeOK
  BY DEF IInv
<1>5. /\ left \in [HasLeftover -> Seq(Sample)] /\ Len(left["cu8"]) < 4 /\ Len(left["cs16"]) < 2
  BY <1>4 DEF TypeOK
\* From Pos on, with nothing in the stages or the buffer.
<1>6. ASSUME feed' \in Feeds, fed' \in Number, spoilt' \in BOOLEAN, next' \in Number,
             left' \in [HasLeftover -> Seq(Sample)], Len(left'["cu8"]) < 4, Len(left'["cs16"]) < 2,
             ~spoilt' => next' = Pos' /\ Pos' % Group' = 0 /\ LeftKept'
      PROVE  IInv'
  <2>1. stages' \in [0..Stages - 1 -> [{0, 1} -> Sample]] /\ offset' \in 0..Halved[Stages] - 1
    BY <1>1, <1>2, <1>3
  <2>2. inBuffer' \in Seq(Sample) /\ Len(inBuffer') < WindowLen
    BY <1>1, <1>2, <1>3
  <2>3. TypeOK'
    BY <1>1, <1>6, <2>1, <2>2 DEF TypeOK
  <2>4. Group' \in {2, 4} /\ UnitsOf(mode)' \in Nat
    <3>1. Group' \in {2, 4}
      BY DEF Group
    <3> DEFINE h == Halved[Stages]
    <3>2. h \in Nat
      BY <1>2
    <3> HIDE DEF h
    <3>3. 2 * h \in Nat /\ 4 * h \in Nat
      BY <3>2
    <3>4. UnitsOf(mode)' \in {Group' * h, Group'}
      BY DEF UnitsOf, h
    <3> QED
      BY <3>1, <3>3, <3>4
  <2>5. From' = next'
    <3> DEFINE u == UnitsOf(mode)'
    <3>1. u \in Nat /\ next' \in 0..Period - 1 /\ Len(inBuffer') = 0
      BY <1>1, <1>2, <1>3, <1>6, <2>4
    <3>2. From' = (next' + Len(inBuffer') * u) % Period
      BY DEF From
    <3> DEFINE y == next'
    <3>3. y \in 0..Period - 1 /\ u \in Nat
      BY <3>1
    <3> HIDE DEF u, y
    <3>4. y + 0 * u = y /\ y % Period = y
      BY <1>2, <3>3
    <3> QED
      BY <3>1, <3>2, <3>4 DEF u, y
  <2>6. (next' + 0 * Group') % Period = next'
    <3> DEFINE y == next'
               g == Group'
    <3>1. y \in 0..Period - 1 /\ g \in Nat
      BY <1>2, <1>6, <2>4
    <3> HIDE DEF y, g
    <3>2. y + 0 * g = y /\ y % Period = y
      BY <1>2, <3>1
    <3> QED
      BY <3>2 DEF y, g
  <2>7. Filled(offset, stages, From)'
    <3> SUFFICES ASSUME NEW k \in 0..Stages - 1 PROVE (0 \div Halved[k]) % 2 # 1
      BY <1>1 DEF Filled
    <3> DEFINE h == Halved[k]
    <3>1. k \in 0..Stages
      BY Consts
    <3>2. h \in Nat \ {0}
      BY <3>1, HalvedIs
    <3> HIDE DEF h
    <3>3. 0 = 0 + 0 * h /\ 0 \in 0..h - 1
      BY <3>2
    <3>4. 0 \div h = 0
      BY <3>2, <3>3, Quotient
    <3> QED
      BY <3>4 DEF h
  <2>8. ~spoilt' => StagesFollow'
    BY <1>1, <1>6, <2>5, <2>6, <2>7 DEF StagesFollow
  <2>9. BufferFollows'
    BY <1>1, <1>3 DEF BufferFollows
  <2> QED
    BY <1>1, <1>6, <2>3, <2>8, <2>9 DEF IInv, Follows
<1>7. CASE /\ UNCHANGED <<feed, fed, left, spoilt>>
           /\ next' = IF feed \in HasLeftover THEN (fed + Period - Len(left[feed])) % Period ELSE fed
  <2>1. next' = Pos /\ Pos' = Pos /\ Group' = Group
    BY <1>7 DEF Pos, Group
  <2>2. next' \in Number
    BY <1>4, <2>1, PosIs
  <2>3. feed' \in Feeds /\ fed' \in Number /\ spoilt' \in BOOLEAN
    BY <1>4, <1>7 DEF TypeOK
  <2>4. ~spoilt' => LeftKept' /\ Pos' % Group' = 0
    BY <1>7, <2>1 DEF IInv, Follows, LeftKept, Run
  <2> QED
    BY <1>5, <1>6, <1>7, <2>1, <2>2, <2>3, <2>4
<1>8. CASE /\ feed' \in Feeds /\ fed' = 0 /\ next' = 0
           /\ left' = [f \in HasLeftover |-> [i \in DOMAIN left[f] |-> Broken]]
           /\ spoilt' = (feed' \in HasLeftover /\ left[feed'] # << >>)
  <2>1. ASSUME NEW f \in HasLeftover PROVE left'[f] \in Seq(Sample) /\ Len(left'[f]) = Len(left[f])
    <3>1. left[f] \in Seq(Sample) /\ DOMAIN left[f] = 1..Len(left[f]) /\ Len(left[f]) \in Nat
      BY <1>5, LenProperties
    <3>2. left'[f] = [i \in 1..Len(left[f]) |-> Broken]
      BY <1>8, <3>1
    <3> QED
      BY <1>3, <3>1, <3>2
  <2>2. left' \in [HasLeftover -> Seq(Sample)] /\ Len(left'["cu8"]) < 4 /\ Len(left'["cs16"]) < 2
    BY <1>5, <1>8, <2>1 DEF HasLeftover
  <2>3. ASSUME ~spoilt' PROVE Pos' = 0 /\ LeftKept'
    <3>1. CASE feed' \in HasLeftover
      <4>1. left[feed'] = << >>
        BY <1>8, <2>3, <3>1
      <4>2. left'[feed'] \in Seq(Sample) /\ Len(left'[feed']) = 0
        BY <1>3, <2>1, <3>1, <4>1
      <4>3. left'[feed'] = << >>
        BY <4>2, EmptySeq
      <4>4. (0 + Period - 0) % Period = 0
        BY <1>2
      <4>5. Pos' = 0
        BY <1>8, <3>1, <4>2, <4>4 DEF Pos
      <4>6. Run(0, 0) = << >>
        BY RunEmpty
      <4> QED
        BY <4>2, <4>3, <4>5, <4>6 DEF LeftKept, Run
    <3>2. CASE feed' \notin HasLeftover
      BY <1>8, <3>2 DEF Pos, LeftKept
    <3> QED
      BY <3>1, <3>2
  <2>4. 0 % Group' = 0
    BY DEF Group
  <2>5. spoilt' \in BOOLEAN
    BY <1>8
  <2> QED
    BY <1>2, <1>6, <1>8, <2>2, <2>3, <2>4, <2>5
<1> QED
  BY <1>7, <1>8 DEF Reset

\* Every step keeps the invariant.
LEMMA NextIInv == IInv /\ [Next]_vars => IInv'
<1> SUFFICES ASSUME IInv, [Next]_vars PROVE IInv'
  OBVIOUS
<1>1. CASE Pipe
  BY <1>1, PipeKeeps
<1>2. CASE Read
  BY <1>2, ReadKeeps
<1>3. CASE Reset
  BY <1>3, ResetKeeps
<1>4. CASE UNCHANGED vars
  BY <1>4 DEF vars, IInv, TypeOK, Follows, LeftKept, BufferFollows, StagesFollow, Filled, Pos, From, Run,
     Group, UnitsOf
<1> QED
  BY <1>1, <1>2, <1>3, <1>4 DEF Next

-----------------------------------------------------------------------------
(* Theorems. *)

\* What is left over, the stages and the buffer keep their sizes: less than a group in
\* PipeSamplesCU8 and PipeSamplesCS16, less than a window in acquire.
THEOREM TypeCorrect == Spec => []TypeOK
<1>1. IInv => TypeOK
  BY DEF IInv
<1> QED
  BY <1>1, InitIInv, NextIInv, PTL DEF Spec

\* The windows acquire works on are those of the recording in one piece, however it is
\* cut into calls of PipeSamples or reads, up to one that ends within a group (radio.go:325,
\* input.go:112, acquire.go:289).
THEOREM WindowsCorrect == Spec => []WindowsWhole
<1>1. IInv => WindowsWhole
  BY DEF IInv, Follows, WindowsWhole
<1> QED
  BY <1>1, InitIInv, NextIInv, PTL DEF Spec
=============================================================================
