------------------------------ MODULE FramesProofs ------------------------------
(***************************************************************************)
(* Safety of Frames for any schedule of messages, any PDUs the header's    *)
(* fields have room for, buffers and widths of any size, and any number of *)
(* troubles.                                                               *)
(***************************************************************************)
EXTENDS Frames, FiniteSetTheorems, WellFoundedInduction, SequenceTheorems, TLAPS

-----------------------------------------------------------------------------
(* Facts about numbers. *)

\* A set of numbers has a least one: the numbers below it are a smallest such set.
LEMMA Least ==
  ASSUME NEW T, T \subseteq Nat, T # {}
  PROVE  \E x \in T : \A y \in T : x <= y
<1> DEFINE R == StrictSubsetOrdering(Nat)
           U == {0..n - 1 : n \in T}
<1>1. IsWellFoundedOn(R, FiniteSubsetsOf(Nat))
  BY FS_StrictSubsetOrderingWellFounded
<1>2. U \subseteq FiniteSubsetsOf(Nat) /\ U # {}
  <2>1. ASSUME NEW n \in T PROVE 0..n - 1 \in FiniteSubsetsOf(Nat)
    <3>1. IsFiniteSet(0..n - 1)
      BY FS_Interval
    <3> QED
      BY <3>1 DEF FiniteSubsetsOf
  <2> QED
    BY <2>1
<1> HIDE DEF R
<1>3. PICK u \in U : \A v \in U : ~ (<<v, u>> \in R)
  <2> HIDE DEF U
  <2> QED
    BY <1>1, <1>2, WFMin
<1>4. PICK x \in T : u = 0..x - 1
  OBVIOUS
<1>5. ASSUME NEW y \in T, ~(x <= y) PROVE FALSE
  <2> DEFINE v == 0..y - 1
  <2>1. v \in U /\ v \subseteq u /\ v # u /\ v \subseteq Nat /\ u \subseteq Nat
    <3>1. y \in u /\ y \notin v /\ x \in Nat /\ y \in Nat
      BY <1>4, <1>5
    <3> QED
      BY <1>4, <1>5, <3>1
  <2> HIDE DEF v, U
  <2>2. <<v, u>> \in R
    BY <2>1 DEF R, StrictSubsetOrdering
  <2> QED
    BY <1>3, <2>1, <2>2
<1> QED
  BY <1>5

\* Induction, up to n: a set with 0, and with i + 1 whenever it has i.
LEMMA Inductive ==
  ASSUME NEW n \in Nat, NEW T, 0 \in T, \A i \in 0..n - 1 : i \in T => i + 1 \in T
  PROVE  0..n \subseteq T
<1> SUFFICES ASSUME (0..n) \ T # {} PROVE FALSE
  OBVIOUS
<1> DEFINE Missing == (0..n) \ T
<1>1. PICK x \in Missing : \A y \in Missing : x <= y
  <2>1. Missing \subseteq Nat /\ Missing # {}
    OBVIOUS
  <2> HIDE DEF Missing
  <2> QED
    BY <2>1, Least
<1>2. x # 0
  OBVIOUS
<1>3. x - 1 \in 0..n - 1 /\ ~(x <= x - 1)
  BY <1>2
<1>4. x - 1 \in T
  BY <1>1, <1>3
<1> QED
  BY <1>3, <1>4

\* f begins with a and goes on by F, up to n.
Recurs(f, n, a, F) == f[0] = a /\ \A i \in 1..n : f[i] = F[<<i, f[i - 1]>>]

\* There is such a function.
LEMMA Recursion ==
  ASSUME NEW n \in Nat, NEW A, NEW a \in A, NEW F \in [(1..n) \X A -> A]
  PROVE  \E f \in [0..n -> A] : Recurs(f, n, a, F)
<1> DEFINE Goes(f, m) == Recurs(f, m, a, F)
           T == {m \in 0..n : \E f \in [0..m -> A] : Goes(f, m)}
<1> USE DEF Recurs
<1>1. 0 \in T
  <2> DEFINE f == [i \in 0..0 |-> a]
  <2>1. f \in [0..0 -> A] /\ Goes(f, 0)
    OBVIOUS
  <2>2. \E h \in [0..0 -> A] : Goes(h, 0)
    BY <2>1
  <2> QED
    BY <2>2
<1>2. ASSUME NEW m \in 0..n - 1, m \in T PROVE m + 1 \in T
  <2>1. PICK f \in [0..m -> A] : Goes(f, m)
    BY <1>2
  <2> DEFINE g == [i \in 0..m + 1 |-> IF i = m + 1 THEN F[<<m + 1, f[m]>>] ELSE f[i]]
  <2>2. F[<<m + 1, f[m]>>] \in A
    OBVIOUS
  <2>3. g \in [0..m + 1 -> A]
    BY <2>2
  <2>4. \A i \in 0..m : g[i] = f[i]
    OBVIOUS
  <2>5. g[m + 1] = F[<<m + 1, f[m]>>]
    OBVIOUS
  <2> HIDE DEF g
  <2>6. Goes(g, m + 1)
    <3>1. g[0] = a
      BY <2>1, <2>4
    <3>2. ASSUME NEW i \in 1..m + 1 PROVE g[i] = F[<<i, g[i - 1]>>]
      <4>1. CASE i = m + 1
        BY <2>4, <2>5, <4>1
      <4>2. CASE i # m + 1
        <5>1. i \in 1..m /\ i - 1 \in 0..m /\ i \in 0..m
          BY <4>2
        <5> QED
          BY <2>1, <2>4, <5>1
      <4> QED
        BY <4>1, <4>2
    <3> QED
      BY <3>1, <3>2
  <2> QED
    BY <2>3, <2>6
<1>3. n \in T
  <2> HIDE DEF T
  <2>1. 0..n \subseteq T
    BY <1>1, <1>2, Inductive
  <2> QED
    BY <2>1
<1> QED
  BY <1>3

\* Division with remainder.
LEMMA Division ==
  ASSUME NEW n \in Nat \ {0}, NEW x \in Int
  PROVE  x % n \in 0..n - 1 /\ x \div n \in Int /\ x = n * (x \div n) + (x % n)
<1>1. x % n \in 0..n - 1
  OBVIOUS
<1>2. x \div n \in Int
  OBVIOUS
<1>3. x = n * (x \div n) + (x % n)
  OBVIOUS
<1> QED
  BY <1>1, <1>2, <1>3

\* The remainder is the only one below n.
LEMMA Remainder ==
  ASSUME NEW n \in Nat \ {0}, NEW x \in Int, NEW y \in 0..n - 1, NEW k \in Int, x = y + k * n
  PROVE  x % n = y
  OBVIOUS

\* Numbers that differ by whole rounds count as one.
LEMMA SameRemainder ==
  ASSUME NEW n \in Nat \ {0}, NEW x \in Int, NEW k \in Int
  PROVE  (x + k * n) % n = x % n
<1>1. x % n \in 0..n - 1 /\ x \div n \in Int /\ x = n * (x \div n) + (x % n)
  BY Division
<1> DEFINE y == x % n
           q == x \div n
<1> HIDE DEF y, q
<1>2. y \in 0..n - 1 /\ q \in Int /\ x = n * q + y
  BY <1>1 DEF y, q
<1>3. x + k * n = y + (q + k) * n /\ q + k \in Int /\ x + k * n \in Int
  BY <1>2
<1>4. (x + k * n) % n = y
  BY <1>2, <1>3, Remainder
<1> QED
  BY <1>4 DEF y

\* Counting on from a remainder.
LEMMA CountOn ==
  ASSUME NEW n \in Nat \ {0}, NEW x \in Int, NEW b \in Int
  PROVE  ((x % n) + b) % n = (x + b) % n
<1>1. x % n \in 0..n - 1 /\ x \div n \in Int /\ x = n * (x \div n) + (x % n)
  BY Division
<1> DEFINE y == x % n
           q == x \div n
<1> HIDE DEF y, q
<1>2. y \in Int /\ q \in Int /\ x = n * q + y
  BY <1>1 DEF y, q
<1>3. x + b = (y + b) + q * n /\ y + b \in Int
  BY <1>2
<1>4. (x + b) % n = (y + b) % n
  BY <1>2, <1>3, SameRemainder
<1> QED
  BY <1>4 DEF y

\* From the last number below n the count goes on with 0.
LEMMA NextRound ==
  ASSUME NEW n \in Nat \ {0}, NEW b \in 0..n - 1
  PROVE  (b + 1) % n = (IF b = n - 1 THEN 0 ELSE b + 1) /\ (b + 1) % n \in 0..n - 1
<1>1. CASE b = n - 1
  BY <1>1
<1>2. CASE b # n - 1
  BY <1>2
<1> QED
  BY <1>1, <1>2

-----------------------------------------------------------------------------
(* Sequences one after the other. *)

\* Prefixes is what its definition says.
LEMMA PrefixesAre ==
  ASSUME NEW S, NEW seqs \in Seq(Seq(S))
  PROVE  /\ Prefixes(seqs) \in [0..Len(seqs) -> Seq(S)] /\ Prefixes(seqs)[0] = << >>
         /\ \A j \in 1..Len(seqs) : Prefixes(seqs)[j] = Prefixes(seqs)[j - 1] \o seqs[j]
<1> DEFINE n == Len(seqs)
           Step(x, j) == x \o seqs[j]
           F == [x \in (1..n) \X Seq(S) |-> Step(x[2], x[1])]
           Goes(f) == f = [j \in 0..n |-> IF j = 0 THEN << >> ELSE Step(f[j - 1], j)]
           g == CHOOSE f : Goes(f)
<1>1. n \in Nat /\ << >> \in Seq(S)
  OBVIOUS
<1>2. Prefixes(seqs) = g
  BY DEF Prefixes
<1>3. ASSUME NEW x \in Seq(S), NEW j \in 1..n PROVE Step(x, j) \in Seq(S)
  OBVIOUS
<1> HIDE DEF n, Step
<1>4. F \in [(1..n) \X Seq(S) -> Seq(S)]
  BY <1>3
<1>5. PICK f \in [0..n -> Seq(S)] : Recurs(f, n, << >>, F)
  <2> HIDE DEF F
  <2> QED
    BY <1>1, <1>4, Recursion
<1>6. ASSUME NEW i \in 1..n PROVE f[i] = Step(f[i - 1], i)
  <2>1. i - 1 \in 0..n /\ f[i - 1] \in Seq(S)
    BY <1>1
  <2> QED
    BY <1>5, <2>1 DEF Recurs
<1>7. Goes(f)
  BY <1>1, <1>5, <1>6 DEF Recurs
<1> HIDE DEF g
<1>8. Goes(g)
  BY <1>7 DEF g
<1>9. g[0] = << >> /\ \A j \in 1..n : g[j] = Step(g[j - 1], j)
  BY <1>1, <1>8
<1> DEFINE T == {j \in 0..n : g[j] \in Seq(S)}
<1>10. 0..n \subseteq T
  <2>1. 0 \in T
    <3>1. g[0] \in Seq(S)
      BY <1>1, <1>9
    <3> QED
      BY <1>1, <3>1
  <2>2. ASSUME NEW j \in 0..n - 1, j \in T PROVE j + 1 \in T
    <3>1. j + 1 \in 1..n /\ (j + 1) - 1 = j /\ j + 1 \in 0..n /\ g[j] \in Seq(S)
      BY <1>1, <2>2
    <3>2. g[j + 1] = Step(g[j], j + 1)
      BY <1>9, <3>1
    <3> QED
      BY <1>3, <3>1, <3>2
  <2> HIDE DEF T
  <2> QED
    BY <1>1, <2>1, <2>2, Inductive
<1>11. g \in [0..n -> Seq(S)]
  BY <1>1, <1>8, <1>10
<1> QED
  BY <1>2, <1>9, <1>11 DEF n, Step

\* Where the sequences lie: j from its start on, one behind the other, up to the end.
Starts(seqs, j) == Len(Prefixes(seqs)[j - 1])

\* Sequences of a set put behind one another are a sequence of that set.
LEMMA ConcatIs ==
  ASSUME NEW S, NEW seqs \in Seq(Seq(S))
  PROVE  Concat(seqs) \in Seq(S) /\ Len(seqs) \in Nat
         /\ (Len(seqs) = 0 => Concat(seqs) = << >>)
<1>1. Len(seqs) \in Nat /\ Len(seqs) \in 0..Len(seqs)
  BY LenProperties
<1>2. Prefixes(seqs) \in [0..Len(seqs) -> Seq(S)] /\ Prefixes(seqs)[0] = << >>
  BY PrefixesAre
<1>3. Prefixes(seqs)[Len(seqs)] \in Seq(S)
  BY <1>1, <1>2
<1> QED
  BY <1>1, <1>2, <1>3 DEF Concat

\* A prefix has what the prefixes before it have, at the same places.
LEMMA PrefixKeeps ==
  ASSUME NEW S, NEW seqs \in Seq(Seq(S)), NEW i \in 0..Len(seqs), NEW j \in i..Len(seqs)
  PROVE  /\ Len(Prefixes(seqs)[i]) <= Len(Prefixes(seqs)[j])
         /\ \A k \in 1..Len(Prefixes(seqs)[i]) : Prefixes(seqs)[j][k] = Prefixes(seqs)[i][k]
<1> DEFINE P == Prefixes(seqs)
           n == Len(seqs)
           m == n - i
           Keeps(l) == /\ Len(P[i]) <= Len(P[l])
                       /\ \A k \in 1..Len(P[i]) : P[l][k] = P[i][k]
           T == {d \in 0..m : Keeps(i + d)}
<1>1. n \in Nat /\ m \in Nat /\ i \in 0..n /\ j - i \in 0..m /\ \A l \in 1..n : seqs[l] \in Seq(S)
  OBVIOUS
<1>2. P \in [0..n -> Seq(S)] /\ \A l \in 1..n : P[l] = P[l - 1] \o seqs[l]
  BY PrefixesAre
<1> HIDE DEF P, n
<1>3. 0 \in T
  <2>1. i + 0 = i /\ P[i] \in Seq(S)
    BY <1>1, <1>2
  <2> QED
    BY <1>1, <2>1
<1>4. ASSUME NEW d \in 0..m - 1, d \in T PROVE d + 1 \in T
  <2>1. i + d + 1 \in 1..n /\ (i + d + 1) - 1 = i + d /\ i + d \in 0..n /\ d + 1 \in 0..m /\ i + (d + 1) = i + d + 1
    BY <1>1
  <2>2. P[i + d + 1] = P[i + d] \o seqs[i + d + 1]
    BY <1>2, <2>1
  <2>3. P[i] \in Seq(S) /\ P[i + d] \in Seq(S) /\ seqs[i + d + 1] \in Seq(S)
    BY <1>1, <1>2, <2>1
  <2>4. Keeps(i + d)
    BY <1>4
  <2>5. Keeps(i + d + 1)
    <3> HIDE DEF m
    <3> DEFINE first == P[i]
               before == P[i + d]
               more == seqs[i + d + 1]
               after == P[i + d + 1]
    <3>0. /\ first \in Seq(S) /\ before \in Seq(S) /\ more \in Seq(S) /\ after = before \o more
          /\ Len(first) <= Len(before) /\ \A k \in 1..Len(first) : before[k] = first[k]
      BY <2>2, <2>3, <2>4
    <3> SUFFICES Len(first) <= Len(after) /\ \A k \in 1..Len(first) : after[k] = first[k]
      OBVIOUS
    <3> HIDE DEF first, before, more, after
    <3>1. Len(after) = Len(before) + Len(more) /\ Len(before) \in Nat /\ Len(more) \in Nat /\ Len(first) \in Nat
      BY <3>0
    <3>2. ASSUME NEW k \in 1..Len(first) PROVE after[k] = first[k]
      <4>1. k \in 1..Len(before) + Len(more) /\ k <= Len(before)
        BY <3>0, <3>1
      <4>2. after[k] = before[k]
        BY <3>0, <4>1, ConcatProperties
      <4> QED
        BY <3>0, <4>2
    <3> QED
      BY <3>0, <3>1, <3>2
  <2> QED
    BY <2>1, <2>5
<1>5. 0..m \subseteq T
  <2> HIDE DEF T, m
  <2> QED
    BY <1>1, <1>3, <1>4, Inductive
<1>6. Keeps(i + (j - i))
  BY <1>1, <1>5
<1> QED
  BY <1>1, <1>6 DEF P, n

\* Where sequences are put behind one another, each of them lies from its start on.
LEMMA ConcatAt ==
  ASSUME NEW S, NEW seqs \in Seq(Seq(S)), NEW j \in 1..Len(seqs)
  PROVE  /\ seqs[j] \in Seq(S) /\ Starts(seqs, j) \in Nat
         /\ Starts(seqs, j) + Len(seqs[j]) = Len(Prefixes(seqs)[j])
         /\ Starts(seqs, j) + Len(seqs[j]) <= Len(Concat(seqs))
         /\ \A k \in 1..Len(seqs[j]) : Concat(seqs)[Starts(seqs, j) + k] = seqs[j][k]
<1> DEFINE P == Prefixes(seqs)
           n == Len(seqs)
<1>1. n \in Nat /\ j \in 1..n /\ j - 1 \in 0..n /\ j \in 0..n /\ n \in j..n
  OBVIOUS
<1>2. seqs[j] \in Seq(S) /\ P[j - 1] \in Seq(S) /\ P[j] = P[j - 1] \o seqs[j]
  <2>1. P \in [0..n -> Seq(S)] /\ P[j] = P[j - 1] \o seqs[j]
    BY PrefixesAre
  <2> QED
    BY <1>1, <2>1, ElementOfSeq
<1>3. Len(P[j]) <= Len(P[n]) /\ \A k \in 1..Len(P[j]) : P[n][k] = P[j][k]
  BY <1>1, PrefixKeeps
<1>4. Concat(seqs) = P[n] /\ Starts(seqs, j) = Len(P[j - 1])
  BY DEF Concat, Starts
<1> HIDE DEF P, n
<1> DEFINE before == P[j - 1]
           more == seqs[j]
           upto == P[j]
           all == P[n]
<1>5. /\ before \in Seq(S) /\ more \in Seq(S) /\ upto = before \o more
      /\ Len(upto) <= Len(all) /\ \A k \in 1..Len(upto) : all[k] = upto[k]
  BY <1>2, <1>3
<1> SUFFICES /\ Len(before) \in Nat /\ Len(before) + Len(more) = Len(upto) /\ Len(upto) <= Len(all)
             /\ \A k \in 1..Len(more) : all[Len(before) + k] = more[k]
  BY <1>2, <1>4 DEF P
<1> HIDE DEF before, more, upto, all
<1>6. Len(upto) = Len(before) + Len(more) /\ Len(before) \in Nat /\ Len(more) \in Nat
  BY <1>5
<1>7. ASSUME NEW k \in 1..Len(more) PROVE all[Len(before) + k] = more[k]
  <2>1. Len(before) + k \in 1..Len(before) + Len(more) /\ ~(Len(before) + k <= Len(before))
        /\ (Len(before) + k) - Len(before) = k /\ Len(before) + k \in 1..Len(upto)
    BY <1>6
  <2>2. upto[Len(before) + k] = more[(Len(before) + k) - Len(before)]
    BY <1>5, <2>1, ConcatProperties
  <2> QED
    BY <1>5, <2>1, <2>2
<1> QED
  BY <1>5, <1>6, <1>7

\* And each place is in one of them.
LEMMA ConcatPlace ==
  ASSUME NEW S, NEW seqs \in Seq(Seq(S)), NEW p \in 1..Len(Concat(seqs))
  PROVE  \E j \in 1..Len(seqs) : \E k \in 1..Len(seqs[j]) : p = Starts(seqs, j) + k
<1> DEFINE P == Prefixes(seqs)
           n == Len(seqs)
           Placed(q) == \E j \in 1..n : \E k \in 1..Len(seqs[j]) : q = Starts(seqs, j) + k
           T == {l \in 0..n : \A q \in 1..Len(P[l]) : Placed(q)}
<1>1. n \in Nat /\ Concat(seqs) = P[n] /\ P[0] = << >>
  BY PrefixesAre, LenProperties DEF Concat
<1>2. 0 \in T
  BY <1>1
<1>3. ASSUME NEW l \in 0..n - 1, l \in T PROVE l + 1 \in T
  <2>1. l + 1 \in 1..n /\ (l + 1) - 1 = l /\ l + 1 \in 0..n /\ l \in Nat
    <3>1. n \in Nat
      BY <1>1
    <3> HIDE DEF n
    <3> QED
      BY <3>1
  <2>2. /\ seqs[l + 1] \in Seq(S) /\ Starts(seqs, l + 1) \in Nat
        /\ Starts(seqs, l + 1) + Len(seqs[l + 1]) = Len(P[l + 1])
    BY <2>1, ConcatAt
  <2>3. Starts(seqs, l + 1) = Len(P[l]) /\ Len(P[l]) \in Nat /\ Len(seqs[l + 1]) \in Nat
    BY <2>1, <2>2 DEF Starts
  <2>4. ASSUME NEW q \in 1..Len(P[l + 1]) PROVE Placed(q)
    <3> DEFINE start == Starts(seqs, l + 1)
               end == Len(P[l + 1])
               more == Len(seqs[l + 1])
    <3>0. start \in Nat /\ more \in Nat /\ start + more = end /\ start = Len(P[l]) /\ q \in 1..end
      BY <2>2, <2>3
    <3>1. CASE q <= start
      <4> HIDE DEF start, end, more
      <4>1. q \in 1..start
        BY <3>0, <3>1
      <4> QED
        BY <1>3, <3>0, <4>1
    <3>2. CASE ~(q <= start)
      <4>1. q - start \in 1..more /\ q = start + (q - start)
        <5> HIDE DEF start, end, more
        <5> QED
          BY <3>0, <3>2
      <4> QED
        BY <2>1, <4>1
    <3> QED
      BY <3>1, <3>2
  <2> QED
    BY <2>1, <2>4
<1>4. 0..n \subseteq T
  <2> HIDE DEF T, n
  <2> QED
    BY <1>1, <1>2, <1>3, Inductive
<1> QED
  BY <1>1, <1>4

-----------------------------------------------------------------------------
(* Escaping and back. *)

\* What is sent for one byte.
LEMMA EscapedIs ==
  ASSUME NEW b \in Byte
  PROVE  /\ Escaped(b) \in Seq(Byte) /\ Len(Escaped(b)) \in {1, 2}
         /\ \A k \in 1..Len(Escaped(b)) : Escaped(b)[k] # Flag
         /\ (Len(Escaped(b)) = 1 => b # Escape /\ Escaped(b)[1] = b)
         /\ (Len(Escaped(b)) = 2 => Escaped(b)[1] = Escape /\ WithBit5(Escaped(b)[2]) = b)
<1>1. CASE b = Flag
  <2>1. Escaped(b) = <<125, 94>>
    BY <1>1 DEF Escaped, Flag, Escape
  <2>2. WithBit5(94) = 126 /\ b = 126 /\ 94 \in Byte /\ 125 \in Byte
    BY <1>1 DEF WithBit5, Flag, Escape, Byte
  <2>3. <<125, 94>> \in Seq(Byte) /\ Len(<<125, 94>>) = 2 /\ <<125, 94>>[1] = 125 /\ <<125, 94>>[2] = 94
    BY <2>2
  <2>4. ASSUME NEW k \in 1..2 PROVE <<125, 94>>[k] # 126
    <3>1. k = 1 \/ k = 2
      OBVIOUS
    <3> QED
      BY <2>3, <3>1
  <2> QED
    BY <2>1, <2>2, <2>3, <2>4 DEF Flag, Escape
<1>2. CASE b = Escape
  <2>1. Escaped(b) = <<125, 93>>
    BY <1>2 DEF Escaped, Flag, Escape
  <2>2. WithBit5(93) = 125 /\ b = 125 /\ 93 \in Byte /\ 125 \in Byte
    BY <1>2 DEF WithBit5, Flag, Escape, Byte
  <2>3. <<125, 93>> \in Seq(Byte) /\ Len(<<125, 93>>) = 2 /\ <<125, 93>>[1] = 125 /\ <<125, 93>>[2] = 93
    BY <2>2
  <2>4. ASSUME NEW k \in 1..2 PROVE <<125, 93>>[k] # 126
    <3>1. k = 1 \/ k = 2
      OBVIOUS
    <3> QED
      BY <2>3, <3>1
  <2> QED
    BY <2>1, <2>2, <2>3, <2>4 DEF Flag, Escape
<1>3. CASE b \notin {Flag, Escape}
  <2>1. Escaped(b) = <<b>>
    BY <1>3 DEF Escaped
  <2> QED
    BY <1>3, <2>1
<1> QED
  BY <1>1, <1>2, <1>3

Escapes(m) == [i \in 1..Len(m) |-> Escaped(m[i])]

\* A message as it is sent has no flag in it.
LEMMA FramedIs ==
  ASSUME NEW m \in Seq(Byte)
  PROVE  /\ Escapes(m) \in Seq(Seq(Byte)) /\ Len(Escapes(m)) = Len(m)
         /\ Framed(m) = Concat(Escapes(m)) /\ Framed(m) \in Seq(Byte)
         /\ \A k \in 1..Len(Framed(m)) : Framed(m)[k] # Flag
<1>1. Len(m) \in Nat /\ \A i \in 1..Len(m) : m[i] \in Byte
  BY LenProperties, ElementOfSeq
<1>2. \A i \in 1..Len(m) : Escaped(m[i]) \in Seq(Byte)
  BY <1>1, EscapedIs
<1>3. Escapes(m) \in Seq(Seq(Byte)) /\ Len(Escapes(m)) = Len(m)
  BY <1>1, <1>2 DEF Escapes
<1>4. Framed(m) = Concat(Escapes(m))
  BY DEF Framed, Escapes
<1>5. Framed(m) \in Seq(Byte)
  BY <1>3, <1>4, ConcatIs
<1>6. ASSUME NEW k \in 1..Len(Framed(m)) PROVE Framed(m)[k] # Flag
  <2>1. PICK j \in 1..Len(Escapes(m)) : \E l \in 1..Len(Escapes(m)[j]) : k = Starts(Escapes(m), j) + l
    BY <1>3, <1>4, ConcatPlace
  <2>2. PICK l \in 1..Len(Escapes(m)[j]) : k = Starts(Escapes(m), j) + l
    BY <2>1
  <2>3. Framed(m)[k] = Escapes(m)[j][l]
    BY <1>3, <1>4, <2>2, ConcatAt
  <2>4. Escapes(m)[j] = Escaped(m[j]) /\ m[j] \in Byte
    BY <1>1, <1>3 DEF Escapes
  <2> QED
    BY <2>2, <2>3, <2>4, EscapedIs
<1> QED
  BY <1>3, <1>4, <1>5, <1>6

Unescaping == [out: Seq(Byte), esc: BOOLEAN]

\* A byte stays a byte.
LEMMA WithBit5Is == ASSUME NEW b \in Byte PROVE WithBit5(b) \in Byte
  BY DEF WithBit5, Byte

\* aasPush keeps a sequence of bytes as it takes one byte after another.
LEMMA UnescapeByteIs ==
  ASSUME NEW acc \in Unescaping, NEW b \in Byte
  PROVE  UnescapeByte(acc, b) \in Unescaping
<1>1. WithBit5(b) \in Byte
  BY WithBit5Is
<1>2. acc.out \in Seq(Byte) /\ acc.esc \in BOOLEAN
  BY DEF Unescaping
<1>3. Append(acc.out, b) \in Seq(Byte) /\ Append(acc.out, WithBit5(b)) \in Seq(Byte)
  BY <1>1, <1>2, AppendProperties
<1> QED
  BY <1>2, <1>3 DEF UnescapeByte, Unescaping

\* Unescaped as a run over the bytes.
UnescapeRun(g, raw) ==
  /\ g[0] = [out |-> << >>, esc |-> FALSE]
  /\ \A j \in 1..Len(raw) : g[j] = UnescapeByte(g[j - 1], raw[j])

\* What is unescaped is the end of such a run, by recursion over the bytes.
LEMMA UnescapeRuns ==
  ASSUME NEW raw \in Seq(Byte)
  PROVE  \E g \in [0..Len(raw) -> Unescaping] : UnescapeRun(g, raw) /\ Unescaped(raw) = g[Len(raw)].out
<1> DEFINE n == Len(raw)
           A == Unescaping
           a == [out |-> << >>, esc |-> FALSE]
           Step(x, j) == UnescapeByte(x, raw[j])
           F == [x \in (1..n) \X A |-> Step(x[2], x[1])]
           Goes(f) == f = [j \in 0..n |-> IF j = 0 THEN a ELSE Step(f[j - 1], j)]
           g == CHOOSE f : Goes(f)
<1>1. n \in Nat
  BY LenProperties
<1>2. a \in A
  BY DEF Unescaping
<1>3. Unescaped(raw) = g[n].out
  BY DEF Unescaped
<1>4. ASSUME NEW x \in A, NEW j \in 1..n PROVE Step(x, j) \in A
  BY ElementOfSeq, UnescapeByteIs
<1> HIDE DEF n, A, a, Step
<1>5. F \in [(1..n) \X A -> A]
  BY <1>4
<1>6. PICK f \in [0..n -> A] : Recurs(f, n, a, F)
  <2> HIDE DEF F
  <2> QED
    BY <1>1, <1>2, <1>5, Recursion
<1>7. ASSUME NEW i \in 1..n PROVE f[i] = Step(f[i - 1], i)
  <2>1. i - 1 \in 0..n /\ f[i - 1] \in A
    BY <1>1
  <2> QED
    BY <1>6, <2>1 DEF Recurs
<1>8. Goes(f)
  BY <1>1, <1>6, <1>7 DEF Recurs
<1> HIDE DEF g
<1>9. Goes(g)
  BY <1>8 DEF g
<1>10. g[0] = a /\ \A j \in 1..n : g[j] = Step(g[j - 1], j)
  BY <1>1, <1>9
<1> DEFINE T == {j \in 0..n : g[j] \in A}
<1>11. 0..n \subseteq T
  <2>1. 0 \in T
    BY <1>1, <1>2, <1>10
  <2>2. ASSUME NEW j \in 0..n - 1, j \in T PROVE j + 1 \in T
    <3>1. j + 1 \in 1..n /\ (j + 1) - 1 = j /\ j + 1 \in 0..n /\ g[j] \in A
      BY <1>1, <2>2
    <3>2. g[j + 1] = Step(g[j], j + 1)
      BY <1>10, <3>1
    <3> QED
      BY <1>4, <3>1, <3>2
  <2> HIDE DEF T
  <2> QED
    BY <1>1, <2>1, <2>2, Inductive
<1>12. g \in [0..n -> A]
  BY <1>1, <1>9, <1>11
<1> QED
  BY <1>3, <1>10, <1>12 DEF n, A, a, Step, UnescapeRun

\* Unescaped bytes are bytes.
LEMMA UnescapedIs ==
  ASSUME NEW raw \in Seq(Byte)
  PROVE  Unescaped(raw) \in Seq(Byte)
<1>1. PICK g \in [0..Len(raw) -> Unescaping] : UnescapeRun(g, raw) /\ Unescaped(raw) = g[Len(raw)].out
  BY UnescapeRuns
<1>2. g[Len(raw)] \in Unescaping
  BY LenProperties
<1> QED
  BY <1>1, <1>2 DEF Unescaping

\* Unescaping gives back what was escaped, by induction over its bytes.
LEMMA UnescapedFramed ==
  ASSUME NEW m \in Seq(Byte)
  PROVE  Unescaped(Framed(m)) = m
<1> DEFINE raw == Framed(m)
           seqs == Escapes(m)
           L(j) == Len(Prefixes(seqs)[j])
<1>1. /\ seqs \in Seq(Seq(Byte)) /\ Len(seqs) = Len(m) /\ raw = Concat(seqs) /\ raw \in Seq(Byte)
      /\ Len(m) \in Nat /\ Len(raw) \in Nat
  BY FramedIs, LenProperties
<1>2. PICK g \in [0..Len(raw) -> Unescaping] : UnescapeRun(g, raw) /\ Unescaped(raw) = g[Len(raw)].out
  BY <1>1, UnescapeRuns
<1> DEFINE T == {j \in 0..Len(m) : g[L(j)] = [out |-> SubSeq(m, 1, j), esc |-> FALSE]}
<1>3. 0 \in T
  <2>1. Prefixes(seqs)[0] = << >>
    BY <1>1, PrefixesAre
  <2>2. SubSeq(m, 1, 0) = << >> /\ Len(<< >>) = 0
    BY SubSeqEmpty
  <2>3. g[L(0)] = [out |-> SubSeq(m, 1, 0), esc |-> FALSE]
    BY <1>2, <2>1, <2>2 DEF UnescapeRun
  <2> HIDE DEF L
  <2> QED
    BY <1>1, <2>3
<1>4. ASSUME NEW j \in 0..Len(m) - 1, j \in T PROVE j + 1 \in T
  <2>1. j + 1 \in 1..Len(m) /\ (j + 1) - 1 = j /\ j + 1 \in 0..Len(m) /\ j \in Nat
    BY <1>1
  <2> DEFINE o == L(j)
             e == Escaped(m[j + 1])
             o2 == L(j + 1)
             n == Len(raw)
             b == m[j + 1]
             s == SubSeq(m, 1, j)
             s2 == SubSeq(m, 1, j + 1)
  <2>2. /\ e \in Seq(Byte) /\ o \in Nat /\ o + Len(e) = o2 /\ o + Len(e) <= n
        /\ \A k \in 1..Len(e) : raw[o + k] = e[k]
    <3>1. j + 1 \in 1..Len(seqs) /\ seqs[j + 1] = e /\ Starts(seqs, j + 1) = o
      BY <1>1, <2>1 DEF Escapes, Starts
    <3> HIDE DEF seqs, e, o
    <3> QED
      BY <1>1, <3>1, ConcatAt
  <2>3. b \in Byte
    BY <2>1, ElementOfSeq
  <2>4. g[o] = [out |-> SubSeq(m, 1, j), esc |-> FALSE]
    BY <1>4
  <2>5. \A k \in 1..n : g[k] = UnescapeByte(g[k - 1], raw[k])
    BY <1>2 DEF UnescapeRun
  <2>6. Append(SubSeq(m, 1, j), b) = SubSeq(m, 1, j + 1)
    <3>1. SubSeq(m, 1, j + 1) = SubSeq(m, 1, j) \o <<b>>
      BY <2>1, SubSeqRecursiveSecond, LenProperties
    <3>2. SubSeq(m, 1, j) \in Seq(Byte)
      BY <2>1, LenProperties, ElementOfSeq, SubSeqProperties
    <3> QED
      BY <2>3, <3>1, <3>2, AppendIsConcat
  <2>7. /\ Len(e) \in {1, 2}
        /\ (Len(e) = 1 => b # Escape /\ e[1] = b)
        /\ (Len(e) = 2 => e[1] = Escape /\ WithBit5(e[2]) = b)
    BY <2>3, EscapedIs
  <2>8. g[o2] = [out |-> SubSeq(m, 1, j + 1), esc |-> FALSE]
    <3>0. g[o] = [out |-> s, esc |-> FALSE] /\ Append(s, b) = s2
      BY <2>4, <2>6
    <3> SUFFICES g[o2] = [out |-> s2, esc |-> FALSE]
      OBVIOUS
    <3> HIDE DEF e, o, o2, n, b, raw, s, s2
    <3>1. n \in Nat
      BY <1>1 DEF n
    <3>2. o + 1 \in 1..n /\ (o + 1) - 1 = o /\ 1 \in 1..Len(e)
      BY <2>2, <2>7, <3>1
    <3>3. g[o + 1] = UnescapeByte(g[o], e[1])
      BY <2>2, <2>5, <3>2
    <3>4. CASE Len(e) = 1
      <4>1. o2 = o + 1 /\ b # Escape /\ e[1] = b
        BY <2>2, <2>7, <3>4
      <4>2. g[o + 1] = [out |-> Append(s, b), esc |-> FALSE]
        <5>1. g[o + 1] = UnescapeByte([out |-> s, esc |-> FALSE], b)
          BY <3>0, <3>3, <4>1
        <5> QED
          BY <4>1, <5>1 DEF UnescapeByte
      <4> QED
        BY <3>0, <4>1, <4>2
    <3>5. CASE Len(e) = 2
      <4>1. o2 = o + 2 /\ o + 2 \in 1..n /\ (o + 2) - 1 = o + 1 /\ 2 \in 1..Len(e) /\ e[1] = Escape /\ WithBit5(e[2]) = b
        BY <2>2, <2>7, <3>1, <3>5
      <4>2. g[o + 1] = [out |-> s, esc |-> TRUE]
        BY <3>0, <3>3, <4>1 DEF UnescapeByte
      <4>3. g[o + 2] = UnescapeByte(g[o + 1], e[2])
        BY <2>2, <2>5, <4>1
      <4>4. g[o + 2] = [out |-> Append(s, b), esc |-> FALSE]
        BY <4>1, <4>2, <4>3 DEF UnescapeByte
      <4> QED
        BY <3>0, <4>1, <4>4
    <3> QED
      BY <2>7, <3>4, <3>5
  <2> QED
    BY <2>1, <2>8
<1>5. 0..Len(m) \subseteq T
  <2> HIDE DEF T
  <2> QED
    BY <1>1, <1>3, <1>4, Inductive
<1>6. L(Len(m)) = Len(raw)
  BY <1>1 DEF Concat
<1>7. g[Len(raw)].out = SubSeq(m, 1, Len(m))
  <2>1. g[L(Len(m))] = [out |-> SubSeq(m, 1, Len(m)), esc |-> FALSE]
    <3> HIDE DEF L
    <3>1. Len(m) \in 0..Len(m)
      BY <1>1
    <3> QED
      BY <1>5, <3>1
  <2> QED
    BY <1>6, <2>1
<1> QED
  BY <1>2, <1>7, SubSeqFull

\* Bytes of V unescape to those and the same with bit 5.
LEMMA UnescapedWithin ==
  ASSUME NEW V \in SUBSET Byte, NEW raw \in Seq(Byte), \A i \in 1..Len(raw) : raw[i] \in V
  PROVE  \A i \in 1..Len(Unescaped(raw)) : Unescaped(raw)[i] \in V \cup {WithBit5(b) : b \in V}
<1> DEFINE W == V \cup {WithBit5(b) : b \in V}
           n == Len(raw)
<1>1. PICK g \in [0..n -> Unescaping] : UnescapeRun(g, raw) /\ Unescaped(raw) = g[n].out
  BY UnescapeRuns
<1> DEFINE Within(s) == \A i \in 1..Len(s) : s[i] \in W
           T == {j \in 0..n : Within(g[j].out)}
<1>2. n \in Nat
  BY LenProperties
<1>3. 0 \in T
  BY <1>1, <1>2 DEF UnescapeRun
<1>4. ASSUME NEW j \in 0..n - 1, j \in T PROVE j + 1 \in T
  <2> DEFINE b == raw[j + 1]
             x == g[j]
             y == g[j + 1]
  <2>1. j + 1 \in 1..n /\ (j + 1) - 1 = j /\ j + 1 \in 0..n /\ j \in 0..n
    BY <1>2
  <2>2. y = UnescapeByte(x, b) /\ b \in V /\ x \in Unescaping /\ Within(x.out)
    BY <1>1, <1>4, <2>1 DEF UnescapeRun
  <2>3. b \in Byte /\ WithBit5(b) \in Byte /\ b \in W /\ WithBit5(b) \in W
    BY <2>2, WithBit5Is
  <2> HIDE DEF b, x, y, W
  <2>4. x.out \in Seq(Byte)
    BY <2>2 DEF Unescaping
  <2>5. ASSUME NEW c \in W \cap Byte PROVE Within(Append(x.out, c))
    <3>1. /\ Len(Append(x.out, c)) = Len(x.out) + 1 /\ Append(x.out, c)[Len(x.out) + 1] = c
          /\ \A i \in 1..Len(x.out) : Append(x.out, c)[i] = x.out[i]
      BY <2>4, AppendProperties
    <3>2. Len(x.out) \in Nat
      BY <2>4, LenProperties
    <3> QED
      BY <2>2, <3>1, <3>2
  <2>6. Within(y.out)
    BY <2>2, <2>3, <2>5 DEF UnescapeByte
  <2> QED
    BY <2>1, <2>6 DEF y
<1>5. 0..n \subseteq T
  <2> HIDE DEF T, n
  <2> QED
    BY <1>2, <1>3, <1>4, Inductive
<1>6. n \in T
  BY <1>2, <1>5
<1> QED
  BY <1>1, <1>6

-----------------------------------------------------------------------------
(* The parser. *)

Parsing(size) == {a \in [on: BOOLEAN, buf: Seq(Byte), out: Seq(Seq(Byte))] : Len(a.buf) <= size}

\* The HDLC parser keeps its buffer in bounds at every byte, whatever the byte.
LEMMA ParseByteIs ==
  ASSUME NEW size \in Nat, NEW acc \in Parsing(size), NEW b \in Byte, NEW sent
  PROVE  ParseByte(acc, b, size, sent) \in Parsing(size)
<1>1. acc.on \in BOOLEAN /\ acc.buf \in Seq(Byte) /\ acc.out \in Seq(Seq(Byte)) /\ Len(acc.buf) <= size
  BY DEF Parsing
<1>2. ASSUME NEW out \in Seq(Seq(Byte)), NEW buf \in Seq(Byte), NEW on \in BOOLEAN, Len(buf) <= size
      PROVE  [on |-> on, buf |-> buf, out |-> out] \in Parsing(size)
  BY <1>2 DEF Parsing
<1>3. << >> \in Seq(Byte) /\ Len(<< >>) = 0 /\ 0 <= size
  OBVIOUS
<1>4. AasPush(acc.out, acc.buf, sent) \in Seq(Seq(Byte))
  <2>1. Unescaped(acc.buf) \in Seq(Byte)
    BY <1>1, UnescapedIs
  <2>2. Append(acc.out, Unescaped(acc.buf)) \in Seq(Seq(Byte))
    BY <1>1, <2>1, AppendProperties
  <2> QED
    BY <1>1, <2>2 DEF AasPush
<1>5. CASE b = Flag
  <2> DEFINE out == IF acc.on THEN AasPush(acc.out, acc.buf, sent) ELSE acc.out
  <2>1. ParseByte(acc, b, size, sent) = [on |-> TRUE, buf |-> << >>, out |-> out]
    BY <1>5 DEF ParseByte, Begun
  <2>2. out \in Seq(Seq(Byte))
    BY <1>1, <1>4
  <2> HIDE DEF out
  <2> QED
    BY <1>2, <1>3, <2>1, <2>2
<1>6. CASE b # Flag /\ ~acc.on
  BY <1>6 DEF ParseByte
<1>7. CASE b # Flag /\ acc.on /\ Len(acc.buf) = size
  <2>1. ParseByte(acc, b, size, sent) = [on |-> FALSE, buf |-> << >>, out |-> acc.out]
    BY <1>7 DEF ParseByte, Off
  <2> QED
    BY <1>1, <1>2, <1>3, <2>1
<1>8. CASE b # Flag /\ acc.on /\ Len(acc.buf) # size
  <2>1. ParseByte(acc, b, size, sent) = [on |-> TRUE, buf |-> Append(acc.buf, b), out |-> acc.out]
    BY <1>8 DEF ParseByte, With
  <2> DEFINE buf == Append(acc.buf, b)
             l == Len(acc.buf)
  <2>2. buf \in Seq(Byte) /\ Len(buf) = l + 1
    BY <1>1, AppendProperties
  <2>3. l \in Nat /\ l <= size /\ l # size
    BY <1>1, <1>8, LenProperties
  <2> HIDE DEF buf, l
  <2>4. Len(buf) <= size
    BY <2>2, <2>3
  <2> QED
    BY <1>1, <1>2, <2>1, <2>2, <2>4 DEF buf
<1> QED
  BY <1>5, <1>6, <1>7, <1>8

\* Parsed as a run over the bytes.
ParseRun(g, acc, chunk, size, sent) ==
  /\ g[0] = acc
  /\ \A j \in 1..Len(chunk) : g[j] = ParseByte(g[j - 1], chunk[j], size, sent)

\* What is parsed is the end of such a run, by recursion over the bytes.
LEMMA ParseRuns ==
  ASSUME NEW size \in Nat, NEW acc \in Parsing(size), NEW chunk \in Seq(Byte), NEW sent
  PROVE  \E g \in [0..Len(chunk) -> Parsing(size)] :
            ParseRun(g, acc, chunk, size, sent) /\ Parsed(acc, chunk, size, sent) = g[Len(chunk)]
<1> DEFINE n == Len(chunk)
           A == Parsing(size)
           a == acc
           Step(x, j) == ParseByte(x, chunk[j], size, sent)
           F == [x \in (1..n) \X A |-> Step(x[2], x[1])]
           Goes(f) == f = [j \in 0..n |-> IF j = 0 THEN a ELSE Step(f[j - 1], j)]
           g == CHOOSE f : Goes(f)
<1>1. n \in Nat
  BY LenProperties
<1>2. a \in A
  OBVIOUS
<1>3. Parsed(acc, chunk, size, sent) = g[n]
  BY DEF Parsed
<1>4. ASSUME NEW x \in A, NEW j \in 1..n PROVE Step(x, j) \in A
  BY ElementOfSeq, ParseByteIs
<1> HIDE DEF n, A, a, Step, ParseRun
<1>5. F \in [(1..n) \X A -> A]
  BY <1>4
<1>6. PICK f \in [0..n -> A] : Recurs(f, n, a, F)
  <2> HIDE DEF F
  <2> QED
    BY <1>1, <1>2, <1>5, Recursion
<1>7. ASSUME NEW i \in 1..n PROVE f[i] = Step(f[i - 1], i)
  <2>1. i - 1 \in 0..n /\ f[i - 1] \in A
    BY <1>1
  <2> QED
    BY <1>6, <2>1 DEF Recurs
<1>8. Goes(f)
  BY <1>1, <1>6, <1>7 DEF Recurs
<1> HIDE DEF g
<1>9. Goes(g)
  BY <1>8 DEF g
<1>10. g[0] = a /\ \A j \in 1..n : g[j] = Step(g[j - 1], j)
  BY <1>1, <1>9
<1> DEFINE T == {j \in 0..n : g[j] \in A}
<1>11. 0..n \subseteq T
  <2>1. 0 \in T
    BY <1>1, <1>2, <1>10
  <2>2. ASSUME NEW j \in 0..n - 1, j \in T PROVE j + 1 \in T
    <3>1. j + 1 \in 1..n /\ (j + 1) - 1 = j /\ j + 1 \in 0..n /\ g[j] \in A
      BY <1>1, <2>2
    <3>2. g[j + 1] = Step(g[j], j + 1)
      BY <1>10, <3>1
    <3> QED
      BY <1>4, <3>1, <3>2
  <2> HIDE DEF T
  <2> QED
    BY <1>1, <2>1, <2>2, Inductive
<1>12. g \in [0..n -> A]
  BY <1>1, <1>9, <1>11
<1> QED
  BY <1>3, <1>10, <1>12 DEF n, A, a, Step, ParseRun

\* The HDLC parser keeps its buffer in bounds over any bytes.
LEMMA ParsedIs ==
  ASSUME NEW size \in Nat, NEW acc \in Parsing(size), NEW chunk \in Seq(Byte), NEW sent
  PROVE  Parsed(acc, chunk, size, sent) \in Parsing(size)
<1>1. PICK g \in [0..Len(chunk) -> Parsing(size)] :
         ParseRun(g, acc, chunk, size, sent) /\ Parsed(acc, chunk, size, sent) = g[Len(chunk)]
  BY ParseRuns
<1> QED
  BY <1>1, LenProperties

\* Nothing comes of an empty frame.
LEMMA NothingPushed ==
  ASSUME NEW out, NEW sent
  PROVE  AasPush(out, << >>, sent) = out
<1>1. PICK g \in [0..Len(<< >>) -> Unescaping] : UnescapeRun(g, << >>) /\ Unescaped(<< >>) = g[Len(<< >>)].out
  <2>1. << >> \in Seq(Byte)
    OBVIOUS
  <2> QED
    BY <2>1, UnescapeRuns
<1>2. Unescaped(<< >>) = << >>
  BY <1>1 DEF UnescapeRun
<1> QED
  BY <1>2 DEF AasPush, Accepted

\* Of flags alone nothing comes, when the parser holds nothing.
LEMMA ParsedFlags ==
  ASSUME NEW size \in Nat, NEW acc \in Parsing(size), NEW chunk \in Seq(Byte), NEW sent,
         acc.buf = << >>, \A j \in 1..Len(chunk) : chunk[j] = Flag
  PROVE  Parsed(acc, chunk, size, sent).buf = << >> /\ Parsed(acc, chunk, size, sent).out = acc.out
<1> DEFINE n == Len(chunk)
<1>1. PICK g \in [0..n -> Parsing(size)] :
         ParseRun(g, acc, chunk, size, sent) /\ Parsed(acc, chunk, size, sent) = g[n]
  BY ParseRuns
<1>2. n \in Nat
  BY LenProperties
<1> DEFINE T == {j \in 0..n : g[j].buf = << >> /\ g[j].out = acc.out}
<1>3. 0 \in T
  BY <1>1, <1>2 DEF ParseRun
<1>4. ASSUME NEW j \in 0..n - 1, j \in T PROVE j + 1 \in T
  <2>1. j + 1 \in 1..n /\ (j + 1) - 1 = j /\ j + 1 \in 0..n /\ j \in 0..n
    BY <1>2
  <2>2. g[j + 1] = Begun(g[j], << >>, sent)
    <3>1. g[j + 1] = ParseByte(g[j], chunk[j + 1], size, sent) /\ chunk[j + 1] = Flag
      BY <1>1, <2>1 DEF ParseRun
    <3> QED
      BY <3>1 DEF ParseByte
  <2>3. g[j].buf = << >> /\ g[j].out = acc.out
    BY <1>4
  <2>4. AasPush(g[j].out, g[j].buf, sent) = acc.out
    BY <2>3, NothingPushed
  <2>5. g[j + 1].buf = << >> /\ g[j + 1].out = acc.out
    BY <2>2, <2>3, <2>4 DEF Begun
  <2> QED
    BY <2>1, <2>5
<1>5. 0..n \subseteq T
  <2> HIDE DEF T, n
  <2> QED
    BY <1>2, <1>3, <1>4, Inductive
<1> QED
  BY <1>1, <1>2, <1>5

\* Of bytes that make up no message sent nothing comes either.
LEMMA ParsedNothing ==
  ASSUME NEW size \in Nat, NEW acc \in Parsing(size), NEW chunk \in Seq(Byte), NEW sent, NEW V \in SUBSET Byte,
         acc.out = << >>, \A i \in 1..Len(acc.buf) : acc.buf[i] \in V,
         \A j \in 1..Len(chunk) : chunk[j] \in V \cup {Flag},
         \A m \in sent : m # << >> /\ m[1] = Protocol =>
           \E i \in 1..Len(m) : m[i] \notin V \cup {WithBit5(b) : b \in V}
  PROVE  /\ Parsed(acc, chunk, size, sent).out = << >>
         /\ \A i \in 1..Len(Parsed(acc, chunk, size, sent).buf) : Parsed(acc, chunk, size, sent).buf[i] \in V
<1> DEFINE n == Len(chunk)
           Within(s) == \A i \in 1..Len(s) : s[i] \in V
<1>1. PICK g \in [0..n -> Parsing(size)] :
         ParseRun(g, acc, chunk, size, sent) /\ Parsed(acc, chunk, size, sent) = g[n]
  BY ParseRuns
<1>2. n \in Nat
  BY LenProperties
<1> DEFINE T == {j \in 0..n : Within(g[j].buf) /\ g[j].out = << >>}
<1>3. 0 \in T
  BY <1>1, <1>2 DEF ParseRun
<1>4. ASSUME NEW j \in 0..n - 1, j \in T PROVE j + 1 \in T
  <2> DEFINE x == g[j]
             y == g[j + 1]
             b == chunk[j + 1]
  <2>1. j + 1 \in 1..n /\ (j + 1) - 1 = j /\ j + 1 \in 0..n /\ j \in 0..n
    BY <1>2
  <2>2. y = ParseByte(x, b, size, sent) /\ b \in V \cup {Flag} /\ Within(x.buf) /\ x.out = << >> /\ x \in Parsing(size)
    BY <1>1, <1>4, <2>1 DEF ParseRun
  <2>3. b \in Byte /\ x.buf \in Seq(Byte)
    <3>1. Flag \in Byte
      BY DEF Flag, Byte
    <3>2. b \in Byte
      BY <2>2, <3>1
    <3> QED
      BY <2>2, <3>2 DEF Parsing
  <2> HIDE DEF x, y, b
  <2>4. AasPush(x.out, x.buf, sent) = << >>
    <3>1. \A i \in 1..Len(Unescaped(x.buf)) : Unescaped(x.buf)[i] \in V \cup {WithBit5(c) : c \in V}
      BY <2>2, <2>3, UnescapedWithin
    <3>2. ~Accepted(Unescaped(x.buf), sent)
      BY <3>1 DEF Accepted
    <3> QED
      BY <2>2, <3>2 DEF AasPush
  <2>5. Within(y.buf) /\ y.out = << >>
    <3>1. CASE b = Flag
      BY <2>2, <2>4, <3>1 DEF ParseByte, Begun
    <3>2. CASE b # Flag /\ ~x.on
      BY <2>2, <3>2 DEF ParseByte
    <3>3. CASE b # Flag /\ x.on /\ Len(x.buf) = size
      BY <2>2, <3>3 DEF ParseByte, Off
    <3>4. CASE b # Flag /\ x.on /\ Len(x.buf) # size
      <4>1. y.buf = Append(x.buf, b) /\ y.out = << >> /\ b \in V
        BY <2>2, <3>4 DEF ParseByte, With
      <4>2. /\ Len(Append(x.buf, b)) = Len(x.buf) + 1 /\ Append(x.buf, b)[Len(x.buf) + 1] = b
            /\ \A i \in 1..Len(x.buf) : Append(x.buf, b)[i] = x.buf[i]
        BY <2>3, AppendProperties
      <4>3. Len(x.buf) \in Nat
        BY <2>3, LenProperties
      <4> QED
        BY <2>2, <4>1, <4>2, <4>3
    <3> QED
      BY <3>1, <3>2, <3>3, <3>4
  <2> QED
    BY <2>1, <2>5 DEF y
<1>5. 0..n \subseteq T
  <2> HIDE DEF T, n
  <2> QED
    BY <1>2, <1>3, <1>4, Inductive
<1>6. n \in T
  BY <1>2, <1>5
<1> QED
  BY <1>1, <1>6

-----------------------------------------------------------------------------
(* The listener. *)

Item == [b: Byte, ends: Seq(Byte)]
Hearing == [sound: BOOLEAN, due: Seq(Seq(Byte))]

\* The listener keeps its type at every byte that is sent.
LEMMA HeardItemIs ==
  ASSUME NEW acc \in Hearing, NEW item \in Item, NEW size
  PROVE  HeardItem(acc, item, size) \in Hearing
<1>1. acc.sound \in BOOLEAN /\ acc.due \in Seq(Seq(Byte)) /\ item.ends \in Seq(Byte)
  BY DEF Hearing, Item
<1>2. Append(acc.due, item.ends) \in Seq(Seq(Byte))
  BY <1>1, AppendProperties
<1> QED
  BY <1>1, <1>2 DEF HeardItem, Hearing

\* Heard as a run over the items.
HearRun(g, acc, items, size) ==
  /\ g[0] = acc
  /\ \A j \in 1..Len(items) : g[j] = HeardItem(g[j - 1], items[j], size)

\* What is heard is the end of such a run, by recursion over the bytes.
LEMMA HearRuns ==
  ASSUME NEW size, NEW acc \in Hearing, NEW items \in Seq(Item)
  PROVE  \E g \in [0..Len(items) -> Hearing] :
            HearRun(g, acc, items, size) /\ Heard(acc, items, size) = g[Len(items)]
<1> DEFINE n == Len(items)
           A == Hearing
           a == acc
           Step(x, j) == HeardItem(x, items[j], size)
           F == [x \in (1..n) \X A |-> Step(x[2], x[1])]
           Goes(f) == f = [j \in 0..n |-> IF j = 0 THEN a ELSE Step(f[j - 1], j)]
           g == CHOOSE f : Goes(f)
<1>1. n \in Nat
  BY LenProperties
<1>2. a \in A
  OBVIOUS
<1>3. Heard(acc, items, size) = g[n]
  BY DEF Heard
<1>4. ASSUME NEW x \in A, NEW j \in 1..n PROVE Step(x, j) \in A
  BY ElementOfSeq, HeardItemIs
<1> HIDE DEF n, A, a, Step, HearRun
<1>5. F \in [(1..n) \X A -> A]
  BY <1>4
<1>6. PICK f \in [0..n -> A] : Recurs(f, n, a, F)
  <2> HIDE DEF F
  <2> QED
    BY <1>1, <1>2, <1>5, Recursion
<1>7. ASSUME NEW i \in 1..n PROVE f[i] = Step(f[i - 1], i)
  <2>1. i - 1 \in 0..n /\ f[i - 1] \in A
    BY <1>1
  <2> QED
    BY <1>6, <2>1 DEF Recurs
<1>8. Goes(f)
  BY <1>1, <1>6, <1>7 DEF Recurs
<1> HIDE DEF g
<1>9. Goes(g)
  BY <1>8 DEF g
<1>10. g[0] = a /\ \A j \in 1..n : g[j] = Step(g[j - 1], j)
  BY <1>1, <1>9
<1> DEFINE T == {j \in 0..n : g[j] \in A}
<1>11. 0..n \subseteq T
  <2>1. 0 \in T
    BY <1>1, <1>2, <1>10
  <2>2. ASSUME NEW j \in 0..n - 1, j \in T PROVE j + 1 \in T
    <3>1. j + 1 \in 1..n /\ (j + 1) - 1 = j /\ j + 1 \in 0..n /\ g[j] \in A
      BY <1>1, <2>2
    <3>2. g[j + 1] = Step(g[j], j + 1)
      BY <1>10, <3>1
    <3> QED
      BY <1>4, <3>1, <3>2
  <2> HIDE DEF T
  <2> QED
    BY <1>1, <2>1, <2>2, Inductive
<1>12. g \in [0..n -> A]
  BY <1>1, <1>9, <1>11
<1> QED
  BY <1>3, <1>10, <1>12 DEF n, A, a, Step, HearRun

\* The listener keeps its type over any bytes.
LEMMA HeardIs ==
  ASSUME NEW size, NEW acc \in Hearing, NEW items \in Seq(Item)
  PROVE  Heard(acc, items, size) \in Hearing
<1>1. PICK g \in [0..Len(items) -> Hearing] : HearRun(g, acc, items, size) /\ Heard(acc, items, size) = g[Len(items)]
  BY HearRuns
<1> QED
  BY <1>1, LenProperties

-----------------------------------------------------------------------------
(* The stream of service data, and the parser that reads it in step.         *)

Entry == [msg: Seq(Byte), bytes: Seq(Byte)]
Count == Len(PsdSchedule)
TurnLen == Len(PsdStream)

\* What the assumption says of the schedule.
LEMMA EntryIs ==
  ASSUME NEW i \in 1..Count
  PROVE  /\ PsdSchedule[i] \in Entry
         /\ PsdSchedule[i].msg \in Seq(Byte) /\ PsdSchedule[i].bytes \in Seq(Byte)
         /\ Len(PsdSchedule[i].bytes) \in Nat
         /\ \A k \in 1..Len(PsdSchedule[i].bytes) :
              PsdSchedule[i].bytes[k] \in Byte /\ PsdSchedule[i].bytes[k] # Flag
         /\ PsdSchedule[i].msg # << >> =>
              PsdSchedule[i].bytes = Framed(PsdSchedule[i].msg) /\ PsdSchedule[i].msg \in AasSent
         /\ PsdSchedule[i].msg = << >> => ~Accepted(Unescaped(PsdSchedule[i].bytes), AasSent)
<1>1. PsdSchedule \in Seq(Entry)
  BY ScheduleAssumption DEF Entry
<1> DEFINE e == PsdSchedule[i]
<1>2. e \in Entry
  BY <1>1, ElementOfSeq DEF Count
<1>3. /\ \A k \in 1..Len(e.bytes) : e.bytes[k] # Flag
      /\ (IF e.msg # << >> THEN e = Whole(e.msg) ELSE ~Accepted(Unescaped(e.bytes), AasSent))
  BY ScheduleAssumption DEF Count
<1>4. e.msg \in AasSent
  BY DEF AasSent, Count
<1> HIDE DEF e
<1>5. e.msg \in Seq(Byte) /\ e.bytes \in Seq(Byte)
  BY <1>2 DEF Entry
<1>6. Len(e.bytes) \in Nat /\ \A k \in 1..Len(e.bytes) : e.bytes[k] \in Byte
  BY <1>5, LenProperties, ElementOfSeq
<1>7. e.msg # << >> => e.bytes = Framed(e.msg)
  BY <1>3 DEF Whole
<1>8. e.msg = << >> => ~Accepted(Unescaped(e.bytes), AasSent)
  BY <1>3
<1> QED
  BY <1>2, <1>3, <1>4, <1>5, <1>6, <1>7, <1>8 DEF e

\* The items of one entry: its bytes, and a flag.
LEMMA ItemsAre ==
  ASSUME NEW i \in 1..Count
  PROVE  LET e == PsdSchedule[i] IN
         /\ Items(e) \in Seq(Item) /\ Len(Items(e)) = Len(e.bytes) + 1
         /\ \A k \in 1..Len(e.bytes) : Items(e)[k] = [b |-> e.bytes[k], ends |-> << >>]
         /\ Items(e)[Len(e.bytes) + 1] = [b |-> Flag, ends |-> e.msg]
<1> DEFINE e == PsdSchedule[i]
           n == Len(e.bytes)
           s == [k \in 1..n |-> [b |-> e.bytes[k], ends |-> << >>]]
           t == [b |-> Flag, ends |-> e.msg]
<1>1. e.msg \in Seq(Byte) /\ n \in Nat /\ \A k \in 1..n : e.bytes[k] \in Byte
  BY EntryIs
<1>2. t \in Item
  BY <1>1 DEF Item, Flag, Byte
<1>3. \A k \in 1..n : s[k] \in Item /\ s[k] = [b |-> e.bytes[k], ends |-> << >>]
  BY <1>1 DEF Item
<1>4. s \in Seq(Item) /\ Len(s) = n
  <2>1. s \in [1..n -> Item]
    BY <1>3
  <2> HIDE DEF s, n
  <2> QED
    BY <1>1, <2>1
<1>5. Items(e) = s \o <<t>>
  BY DEF Items
<1> HIDE DEF e, n, s, t
<1>6. <<t>> \in Seq(Item) /\ Len(<<t>>) = 1 /\ <<t>>[1] = t
  BY <1>2
<1>7. Items(e) \in Seq(Item) /\ Len(Items(e)) = n + 1
  BY <1>4, <1>5, <1>6, ConcatProperties
<1>8. ASSUME NEW k \in 1..n PROVE Items(e)[k] = s[k]
  <2>1. k \in 1..Len(s) + Len(<<t>>) /\ k <= Len(s)
    BY <1>1, <1>4, <1>6
  <2> QED
    BY <1>4, <1>5, <1>6, <2>1, ConcatProperties
<1>9. Items(e)[n + 1] = t
  <2>1. n + 1 \in 1..Len(s) + Len(<<t>>) /\ ~(n + 1 <= Len(s)) /\ (n + 1) - Len(s) = 1
    BY <1>1, <1>4, <1>6
  <2>2. (s \o <<t>>)[n + 1] = <<t>>[(n + 1) - Len(s)]
    BY <1>4, <1>6, <2>1, ConcatProperties
  <2> QED
    BY <1>5, <1>6, <2>1, <2>2
<1> QED
  BY <1>3, <1>7, <1>8, <1>9 DEF e, n, t

\* The stream of service data is one turn behind the other, a turn for every message scheduled.
LEMMA StreamIs ==
  /\ Count \in Nat \ {0} /\ Turns(PsdSchedule) \in Seq(Seq(Item)) /\ Len(Turns(PsdSchedule)) = Count
  /\ \A i \in 1..Count : Turns(PsdSchedule)[i] = Items(PsdSchedule[i])
  /\ PsdStream = Concat(Turns(PsdSchedule)) /\ PsdStream \in Seq(Item) /\ TurnLen \in Nat
<1>1. Count \in Nat \ {0}
  <2>1. PsdSchedule \in Seq(Entry) /\ PsdSchedule # << >>
    BY ScheduleAssumption DEF Entry
  <2> QED
    BY <2>1, EmptySeq DEF Count
<1>2. \A i \in 1..Count : Items(PsdSchedule[i]) \in Seq(Item)
  BY ItemsAre
<1>3. Turns(PsdSchedule) \in Seq(Seq(Item)) /\ Len(Turns(PsdSchedule)) = Count
  BY <1>1, <1>2 DEF Turns, Count
<1>4. \A i \in 1..Count : Turns(PsdSchedule)[i] = Items(PsdSchedule[i])
  BY <1>1, <1>2 DEF Turns, Count
<1>5. PsdStream = Concat(Turns(PsdSchedule))
  BY DEF PsdStream, Stream
<1>6. PsdStream \in Seq(Item)
  BY <1>3, <1>5, ConcatIs
<1> QED
  BY <1>1, <1>3, <1>4, <1>5, <1>6, LenProperties DEF TurnLen

\* Position at of the stream is behind k bytes of entry i.
Place(at, i, k) ==
  /\ i \in 1..Count /\ k \in 0..Len(PsdSchedule[i].bytes)
  /\ at = Starts(Turns(PsdSchedule), i) + k

\* Every position is behind some bytes of some entry.
LEMMA Placed ==
  ASSUME NEW at \in 0..TurnLen - 1
  PROVE  \E i, k : Place(at, i, k)
<1> DEFINE seqs == Turns(PsdSchedule)
<1>0. TurnLen \in Nat
  BY StreamIs
<1>1. at + 1 \in 1..Len(Concat(seqs))
  BY <1>0, StreamIs DEF TurnLen
<1>2. PICK i \in 1..Len(seqs) : \E k \in 1..Len(seqs[i]) : at + 1 = Starts(seqs, i) + k
  <2> HIDE DEF seqs
  <2> QED
    BY <1>1, StreamIs, ConcatPlace DEF seqs
<1>3. PICK k \in 1..Len(seqs[i]) : at + 1 = Starts(seqs, i) + k
  BY <1>2
<1>4. i \in 1..Count /\ Len(seqs[i]) = Len(PsdSchedule[i].bytes) + 1 /\ Starts(seqs, i) \in Nat
  <2>1. i \in 1..Count /\ seqs[i] = Items(PsdSchedule[i])
    BY StreamIs
  <2>2. Starts(seqs, i) \in Nat
    BY StreamIs, ConcatAt
  <2> QED
    BY <2>1, <2>2, ItemsAre
<1> DEFINE l == Len(PsdSchedule[i].bytes)
           s == Starts(seqs, i)
<1>5. l \in Nat /\ k \in 1..l + 1 /\ s \in Nat /\ at + 1 = s + k
  BY <1>3, <1>4, EntryIs
<1>6. k - 1 \in 0..l /\ at = s + (k - 1)
  <2> HIDE DEF l, s
  <2> QED
    BY <1>0, <1>5
<1>7. Place(at, i, k - 1)
  BY <1>4, <1>6 DEF Place
<1> QED
  BY <1>7

\* The next item, and the position behind it.
LEMMA NextItem ==
  ASSUME NEW at, NEW i, NEW k, Place(at, i, k)
  PROVE  /\ at \in 0..TurnLen - 1 /\ TurnLen \in Nat \ {0}
         /\ k < Len(PsdSchedule[i].bytes) =>
              /\ PsdStream[at + 1] = [b |-> PsdSchedule[i].bytes[k + 1], ends |-> << >>]
              /\ Place((at + 1) % TurnLen, i, k + 1)
         /\ k = Len(PsdSchedule[i].bytes) =>
              /\ PsdStream[at + 1] = [b |-> Flag, ends |-> PsdSchedule[i].msg]
              /\ \E j : Place((at + 1) % TurnLen, j, 0)
<1> DEFINE seqs == Turns(PsdSchedule)
           l == Len(PsdSchedule[i].bytes)
           s == Starts(seqs, i)
           n == TurnLen
<1>1. i \in 1..Count /\ k \in 0..l /\ at = s + k /\ Count \in Nat
  BY StreamIs DEF Place
<1>2. /\ seqs \in Seq(Seq(Item)) /\ Len(seqs) = Count /\ seqs[i] = Items(PsdSchedule[i])
      /\ n = Len(Concat(seqs)) /\ n \in Nat /\ PsdStream = Concat(seqs)
  BY <1>1, StreamIs DEF TurnLen
<1>3. /\ s \in Nat /\ s + Len(seqs[i]) = Len(Prefixes(seqs)[i]) /\ s + Len(seqs[i]) <= n
      /\ \A m \in 1..Len(seqs[i]) : PsdStream[s + m] = seqs[i][m]
  <2> HIDE DEF seqs
  <2> QED
    BY <1>1, <1>2, ConcatAt
<1>4. /\ l \in Nat /\ Len(seqs[i]) = l + 1
      /\ \A m \in 1..l : seqs[i][m] = [b |-> PsdSchedule[i].bytes[m], ends |-> << >>]
      /\ seqs[i][l + 1] = [b |-> Flag, ends |-> PsdSchedule[i].msg]
  BY <1>1, <1>2, ItemsAre, EntryIs
<1> HIDE DEF seqs, l, s, n
<1>5. at \in 0..n - 1 /\ n \in Nat \ {0} /\ at + 1 = s + (k + 1) /\ k + 1 \in 1..l + 1
  BY <1>1, <1>2, <1>3, <1>4
<1>6. PsdStream[at + 1] = seqs[i][k + 1]
  BY <1>3, <1>4, <1>5
<1>7. (at + 1) % n = (IF at = n - 1 THEN 0 ELSE at + 1)
  BY <1>5, NextRound
<1>8. ASSUME k < l PROVE Place((at + 1) % n, i, k + 1)
  <2>1. at + 1 < n /\ k + 1 \in 0..l
    BY <1>1, <1>3, <1>4, <1>5, <1>8
  <2>2. (at + 1) % n = s + (k + 1)
    BY <1>5, <1>7, <2>1
  <2> QED
    BY <1>1, <2>1, <2>2 DEF Place, l, s, seqs
<1>9. ASSUME k = l PROVE \E j : Place((at + 1) % n, j, 0)
  <2>1. at + 1 = Len(Prefixes(seqs)[i])
    BY <1>1, <1>3, <1>4, <1>5, <1>9
  <2>2. CASE i = Count
    <3>1. at + 1 = n
      BY <1>2, <2>1, <2>2 DEF Concat
    <3>2. Starts(seqs, 1) = 0
      <4>1. Starts(seqs, 1) = Len(Prefixes(seqs)[0])
        BY DEF Starts
      <4>2. Prefixes(seqs)[0] = << >>
        BY <1>2, PrefixesAre
      <4> QED
        BY <4>1, <4>2
    <3>3. (at + 1) % n = 0 + 0 /\ 1 \in 1..Count /\ 0 \in 0..Len(PsdSchedule[1].bytes)
      <4>1. 1 \in 1..Count
        BY <1>1
      <4>2. Len(PsdSchedule[1].bytes) \in Nat
        BY <4>1, EntryIs
      <4> QED
        BY <1>5, <1>7, <3>1, <4>1, <4>2
    <3>4. Place((at + 1) % n, 1, 0)
      BY <3>2, <3>3 DEF Place, seqs
    <3> QED
      BY <3>4
  <2>3. CASE i # Count
    <3>1. i + 1 \in 1..Count /\ (i + 1) - 1 = i
      BY <1>1, <2>3
    <3>2. Starts(seqs, i + 1) = at + 1
      BY <2>1, <3>1 DEF Starts
    <3>3. Starts(seqs, i + 1) + Len(seqs[i + 1]) <= n /\ Len(seqs[i + 1]) \in Nat \ {0}
      <4>1. Starts(seqs, i + 1) + Len(seqs[i + 1]) <= n
        BY <1>2, <3>1, ConcatAt
      <4>2. seqs[i + 1] = Items(PsdSchedule[i + 1])
        BY <3>1, StreamIs DEF seqs
      <4>3. Len(seqs[i + 1]) = Len(PsdSchedule[i + 1].bytes) + 1 /\ Len(PsdSchedule[i + 1].bytes) \in Nat
        BY <3>1, <4>2, ItemsAre, EntryIs
      <4> QED
        BY <4>1, <4>3
    <3> DEFINE d == Len(seqs[i + 1])
    <3>4. at + 1 < n
      <4>1. at + 1 + d <= n /\ d \in Nat \ {0}
        BY <3>2, <3>3
      <4> HIDE DEF d
      <4> QED
        BY <1>5, <4>1
    <3>5. (at + 1) % n = Starts(seqs, i + 1) + 0 /\ 0 \in 0..Len(PsdSchedule[i + 1].bytes)
      <4>1. (at + 1) % n = at + 1
        BY <1>5, <1>7, <3>4
      <4>2. Len(PsdSchedule[i + 1].bytes) \in Nat
        BY <3>1, EntryIs
      <4>3. at + 1 = (at + 1) + 0
        BY <1>5
      <4> QED
        BY <3>2, <4>1, <4>2, <4>3
    <3>6. Place((at + 1) % n, i + 1, 0)
      BY <3>1, <3>5 DEF Place, seqs
    <3> QED
      BY <3>6
  <2> QED
    BY <2>2, <2>3
<1>10. k < l => PsdStream[at + 1] = [b |-> PsdSchedule[i].bytes[k + 1], ends |-> << >>]
  <2>1. k < l => k + 1 \in 1..l
    BY <1>1, <1>4
  <2> QED
    BY <1>4, <1>6, <2>1
<1>11. k = l => PsdStream[at + 1] = [b |-> Flag, ends |-> PsdSchedule[i].msg]
  BY <1>4, <1>6
<1> QED
  BY <1>5, <1>8, <1>9, <1>10, <1>11 DEF n, l

\* A turn begins with an entry.
LEMMA FirstPlace == Place(0, 1, 0) /\ TurnLen \in Nat \ {0} /\ 0 \in 0..TurnLen - 1
<1>1. Count \in Nat \ {0} /\ 1 \in 1..Count
  BY StreamIs
<1>2. Len(PsdSchedule[1].bytes) \in Nat
  BY <1>1, EntryIs
<1>3. Starts(Turns(PsdSchedule), 1) = 0
  <2>1. Starts(Turns(PsdSchedule), 1) = Len(Prefixes(Turns(PsdSchedule))[0])
    BY DEF Starts
  <2>2. Prefixes(Turns(PsdSchedule))[0] = << >>
    BY StreamIs, PrefixesAre
  <2> QED
    BY <2>1, <2>2
<1>4. Place(0, 1, 0)
  BY <1>1, <1>2, <1>3 DEF Place
<1> QED
  BY <1>4, NextItem

-----------------------------------------------------------------------------
(* Parser and listener together. *)

\* What a parser that was sent k bytes of entry i since the last flag holds.
Mirrors(p, i, k) ==
  IF k <= AasSize THEN p.on /\ p.buf = SubSeq(PsdSchedule[i].bytes, 1, k) ELSE ~p.on

InStepAt(p, heard, at) == heard => \E i, k : Place(at, i, k) /\ Mirrors(p, i, k)

\* The messages taken, out, are those due, but for one at first if nothing was sound before.
Agrees(out, due, heard, before) ==
  /\ ~heard => ~before /\ out = << >> /\ due = << >>
  /\ out = due \/ (~before /\ out # << >> /\ Tail(out) = due)

\* A byte of an entry.
LEMMA ByteTogether ==
  ASSUME NEW at, NEW i, NEW k, Place(at, i, k), k < Len(PsdSchedule[i].bytes),
         NEW acc \in Parsing(AasSize), Mirrors(acc, i, k)
  PROVE  Mirrors(ParseByte(acc, PsdSchedule[i].bytes[k + 1], AasSize, AasSent), i, k + 1)
<1> DEFINE bytes == PsdSchedule[i].bytes
           l == Len(bytes)
           b == bytes[k + 1]
           next == ParseByte(acc, b, AasSize, AasSent)
<1>1. i \in 1..Count /\ k \in 0..l /\ l \in Nat /\ k < l /\ bytes \in Seq(Byte) /\ AasSize \in Nat
  BY EntryIs, AasSizeAssumption DEF Place
<1>2. k + 1 \in 1..l /\ k \in Nat
  <2> HIDE DEF l
  <2> QED
    BY <1>1
<1>3. b \in Byte /\ b # Flag
  <2> HIDE DEF l
  <2> QED
    BY <1>1, <1>2, EntryIs DEF l
<1>4. IF k <= AasSize THEN acc.on /\ acc.buf = SubSeq(bytes, 1, k) ELSE ~acc.on
  BY DEF Mirrors
<1>5. SubSeq(bytes, 1, k) \in Seq(Byte) /\ Len(SubSeq(bytes, 1, k)) = k
  <2>1. \A j \in 1..k : bytes[j] \in Byte
    <3> HIDE DEF l, bytes
    <3>1. \A j \in 1..k : j \in 1..l
      BY <1>1, <1>2
    <3> QED
      BY <1>1, <3>1, ElementOfSeq DEF l
  <2> HIDE DEF l, bytes
  <2> QED
    BY <1>1, <1>2, <2>1, SubSeqProperties
<1> HIDE DEF b, l
<1>6. CASE k + 1 <= AasSize
  <2>1. acc.on /\ acc.buf = SubSeq(bytes, 1, k) /\ Len(acc.buf) # AasSize
    BY <1>1, <1>2, <1>4, <1>5, <1>6
  <2>2. next = [on |-> TRUE, buf |-> Append(acc.buf, b), out |-> acc.out]
    BY <1>3, <2>1 DEF ParseByte, With
  <2>3. SubSeq(bytes, 1, k + 1) = SubSeq(bytes, 1, k) \o <<bytes[k + 1]>>
    <3>1. 1 \in 1..Len(bytes) /\ k + 1 \in 1..Len(bytes) /\ (k + 1) - 1 = k
      BY <1>1, <1>2 DEF l
    <3> HIDE DEF bytes
    <3> QED
      BY <1>1, <3>1, SubSeqRecursiveSecond
  <2>4. Append(acc.buf, b) = SubSeq(bytes, 1, k + 1)
    <3> HIDE DEF bytes
    <3>1. Append(SubSeq(bytes, 1, k), b) = SubSeq(bytes, 1, k) \o <<b>>
      BY <1>3, <1>5, AppendIsConcat
    <3> QED
      BY <2>1, <2>3, <3>1 DEF b
  <2>5. next.on /\ next.buf = SubSeq(bytes, 1, k + 1)
    <3>1. next = [on |-> TRUE, buf |-> SubSeq(bytes, 1, k + 1), out |-> acc.out]
      BY <2>2, <2>4
    <3> HIDE DEF next
    <3> QED
      BY <3>1
  <2> HIDE DEF next
  <2>6. Mirrors(next, i, k + 1)
    BY <1>6, <2>5 DEF Mirrors
  <2> QED
    BY <2>6 DEF next, b
<1>7. CASE ~(k + 1 <= AasSize) /\ k <= AasSize
  <2>1. acc.on /\ Len(acc.buf) = AasSize
    BY <1>1, <1>2, <1>4, <1>5, <1>7
  <2>2. next.on = FALSE
    BY <1>3, <2>1 DEF ParseByte, Off
  <2> QED
    BY <1>7, <2>2 DEF Mirrors, b
<1>8. CASE ~(k <= AasSize)
  <2>1. ~acc.on /\ ~(k + 1 <= AasSize)
    BY <1>1, <1>2, <1>4, <1>8
  <2>2. next = acc
    BY <1>3, <2>1 DEF ParseByte
  <2> QED
    BY <2>1, <2>2 DEF Mirrors, b
<1> QED
  BY <1>6, <1>7, <1>8

\* A flag: a message is taken when it is due.
LEMMA FlagTogether ==
  ASSUME NEW at, NEW i, NEW k, Place(at, i, k), k = Len(PsdSchedule[i].bytes),
         NEW acc \in Parsing(AasSize), Mirrors(acc, i, k)
  PROVE  (IF acc.on THEN AasPush(acc.out, acc.buf, AasSent) ELSE acc.out)
           = IF IsDue(PsdSchedule[i].msg, AasSize) THEN Append(acc.out, PsdSchedule[i].msg) ELSE acc.out
<1> DEFINE bytes == PsdSchedule[i].bytes
           msg == PsdSchedule[i].msg
<1>1. /\ i \in 1..Count /\ k \in Nat /\ bytes \in Seq(Byte) /\ AasSize \in Nat /\ k = Len(bytes) /\ msg \in Seq(Byte)
      /\ msg # << >> => bytes = Framed(msg) /\ msg \in AasSent
      /\ msg = << >> => ~Accepted(Unescaped(bytes), AasSent)
  BY EntryIs, AasSizeAssumption DEF Place
<1>2. IF k <= AasSize THEN acc.on /\ acc.buf = SubSeq(bytes, 1, k) ELSE ~acc.on
  BY DEF Mirrors
<1> HIDE DEF bytes, msg
<1>3. SubSeq(bytes, 1, k) = bytes
  BY <1>1, SubSeqFull
<1>4. CASE ~(k <= AasSize)
  <2>1. ~IsDue(msg, AasSize)
    BY <1>1, <1>4 DEF IsDue
  <2> QED
    BY <1>2, <1>4, <2>1 DEF msg
<1>5. CASE k <= AasSize /\ msg = << >>
  <2>1. AasPush(acc.out, acc.buf, AasSent) = acc.out
    BY <1>1, <1>2, <1>3, <1>5 DEF AasPush
  <2>2. ~IsDue(msg, AasSize)
    BY <1>5 DEF IsDue
  <2> QED
    BY <1>2, <1>5, <2>1, <2>2 DEF msg
<1>6. CASE k <= AasSize /\ msg # << >>
  <2>1. Unescaped(acc.buf) = msg /\ acc.on
    BY <1>1, <1>2, <1>3, <1>6, UnescapedFramed
  <2>2. Accepted(msg, AasSent) <=> IsDue(msg, AasSize)
    BY <1>1, <1>6 DEF Accepted, IsDue
  <2>3. AasPush(acc.out, acc.buf, AasSent) = IF Accepted(msg, AasSent) THEN Append(acc.out, msg) ELSE acc.out
    BY <2>1 DEF AasPush
  <2> QED
    BY <2>1, <2>2, <2>3 DEF msg
<1> QED
  BY <1>4, <1>5, <1>6

\* One more for both sides.
LEMMA AgreesOn ==
  ASSUME NEW out \in Seq(Seq(Byte)), NEW due \in Seq(Seq(Byte)), NEW before \in BOOLEAN, NEW m \in Seq(Byte),
         Agrees(out, due, TRUE, before)
  PROVE  Agrees(Append(out, m), Append(due, m), TRUE, before)
<1>1. CASE out = due
  BY <1>1 DEF Agrees
<1>2. CASE ~before /\ out # << >> /\ Tail(out) = due
  <2> DEFINE s == Append(out, m)
             t == Append(due, m)
             n == Len(out)
  <2>1. /\ s \in Seq(Seq(Byte)) /\ s # << >> /\ Len(s) = n + 1 /\ s[n + 1] = m
        /\ \A j \in 1..n : s[j] = out[j]
    BY AppendProperties
  <2>2. due \in Seq(Seq(Byte)) /\ Len(due) = n - 1 /\ n \in Nat \ {0} /\ \A j \in 1..n - 1 : due[j] = out[j + 1]
    <3>1. n \in Nat \ {0}
      BY <1>2, EmptySeq
    <3> QED
      BY <1>2, <3>1, HeadTailProperties
  <2>3. /\ t \in Seq(Seq(Byte)) /\ Len(t) = Len(due) + 1 /\ t[Len(due) + 1] = m
        /\ \A j \in 1..Len(due) : t[j] = due[j]
    BY AppendProperties
  <2>4. Tail(s) \in Seq(Seq(Byte)) /\ Len(Tail(s)) = Len(s) - 1 /\ \A j \in 1..Len(Tail(s)) : Tail(s)[j] = s[j + 1]
    <3> HIDE DEF s
    <3> QED
      BY <2>1, HeadTailProperties
  <2> HIDE DEF s, t, n
  <2>5. ASSUME NEW j \in 1..Len(Tail(s)) PROVE Tail(s)[j] = t[j]
    <3>1. j \in 1..n /\ n \in Nat /\ Tail(s)[j] = s[j + 1] /\ Len(due) + 1 = n
      BY <2>1, <2>2, <2>4
    <3>2. CASE j = n
      BY <2>1, <2>3, <3>1, <3>2
    <3>3. CASE j # n
      <4>1. j \in 1..n - 1 /\ j \in 1..Len(due) /\ j + 1 \in 1..n
        BY <2>2, <3>1, <3>3
      <4> QED
        BY <2>1, <2>2, <2>3, <3>1, <4>1
    <3> QED
      BY <3>2, <3>3
  <2>6. Len(Tail(s)) = Len(t)
    BY <2>1, <2>2, <2>3, <2>4
  <2>7. Tail(s) = t
    BY <2>3, <2>4, <2>5, <2>6, SeqEqual
  <2> QED
    BY <1>2, <2>1, <2>7 DEF Agrees, s, t
<1> QED
  BY <1>1, <1>2 DEF Agrees

\* Whatever the next item is.
LEMMA ItemTogether ==
  ASSUME NEW at \in 0..TurnLen - 1, NEW acc \in Parsing(AasSize), NEW h \in Hearing, NEW before \in BOOLEAN,
         InStepAt(acc, h.sound, at), Agrees(acc.out, h.due, h.sound, before)
  PROVE  LET item == PsdStream[at + 1]
             acc2 == ParseByte(acc, item.b, AasSize, AasSent)
             h2 == HeardItem(h, item, AasSize) IN
         InStepAt(acc2, h2.sound, (at + 1) % TurnLen) /\ Agrees(acc2.out, h2.due, h2.sound, before)
<1> DEFINE item == PsdStream[at + 1]
           acc2 == ParseByte(acc, item.b, AasSize, AasSent)
           h2 == HeardItem(h, item, AasSize)
           on == (at + 1) % TurnLen
<1>1. PICK i, k : Place(at, i, k) /\ (h.sound => Mirrors(acc, i, k))
  BY Placed DEF InStepAt
<1> DEFINE l == Len(PsdSchedule[i].bytes)
           bytes == PsdSchedule[i].bytes
           msg == PsdSchedule[i].msg
<1>2. k \in 0..l /\ l \in Nat /\ i \in 1..Count
  BY <1>1, EntryIs DEF Place
<1>3. /\ k < l => item = [b |-> bytes[k + 1], ends |-> << >>] /\ Place(on, i, k + 1)
      /\ k = l => item = [b |-> Flag, ends |-> msg] /\ \E j : Place(on, j, 0)
  BY <1>1, NextItem
<1>4. h.sound \in BOOLEAN /\ h.due \in Seq(Seq(Byte)) /\ acc.out \in Seq(Seq(Byte)) /\ acc.buf \in Seq(Byte)
      /\ AasSize \in Nat
  BY AasSizeAssumption DEF Hearing, Parsing
<1> HIDE DEF item, on, l
<1>5. CASE k < l
  <2>1. k + 1 \in 1..l
    BY <1>2, <1>5
  <2>2. bytes[k + 1] # Flag
    BY <1>2, <2>1, EntryIs DEF l
  <2>3. item.b = bytes[k + 1] /\ h2 = h
    BY <1>3, <1>5, <2>2 DEF HeardItem
  <2>4. acc2.out = acc.out
    BY <2>2, <2>3 DEF ParseByte, Off, With
  <2>5. InStepAt(acc2, h2.sound, on)
    <3> SUFFICES ASSUME h.sound PROVE \E j, m : Place(on, j, m) /\ Mirrors(acc2, j, m)
      BY <2>3 DEF InStepAt
    <3>1. Mirrors(ParseByte(acc, bytes[k + 1], AasSize, AasSent), i, k + 1)
      BY <1>1, <1>5, ByteTogether DEF l
    <3>2. Place(on, i, k + 1) /\ Mirrors(acc2, i, k + 1)
      BY <1>3, <1>5, <2>3, <3>1
    <3> HIDE DEF acc2
    <3> QED
      BY <3>2
  <2> QED
    BY <2>3, <2>4, <2>5 DEF item, on
<1>6. CASE k = l
  <2> DEFINE taken == IF acc.on THEN AasPush(acc.out, acc.buf, AasSent) ELSE acc.out
  <2>1. item.b = Flag /\ item.ends = msg
    BY <1>3, <1>6
  <2>2. acc2 = [on |-> TRUE, buf |-> << >>, out |-> taken]
    BY <2>1 DEF ParseByte, Begun
  <2>3. h2 = [sound |-> TRUE, due |-> IF h.sound /\ IsDue(msg, AasSize) THEN Append(h.due, msg) ELSE h.due]
    BY <2>1 DEF HeardItem
  <2> HIDE DEF acc2, h2, taken, msg, bytes
  <2>4. InStepAt(acc2, h2.sound, on)
    <3>1. PICK j : Place(on, j, 0)
      BY <1>3, <1>6
    <3>2. SubSeq(PsdSchedule[j].bytes, 1, 0) = << >>
      BY SubSeqEmpty
    <3>3. Mirrors(acc2, j, 0)
      BY <1>4, <2>2, <3>2 DEF Mirrors
    <3> QED
      BY <3>1, <3>3 DEF InStepAt
  <2>5. acc2.out = taken /\ h2.sound = TRUE
    BY <2>2, <2>3
  <2>6. Agrees(taken, h2.due, TRUE, before)
    <3>1. CASE h.sound
      <4>1. taken = IF IsDue(msg, AasSize) THEN Append(acc.out, msg) ELSE acc.out
        BY <1>1, <1>6, <3>1, FlagTogether DEF taken, msg, l
      <4>2. h2.due = IF IsDue(msg, AasSize) THEN Append(h.due, msg) ELSE h.due
        BY <2>3, <3>1
      <4>3. Agrees(acc.out, h.due, TRUE, before) /\ msg \in Seq(Byte)
        <5>1. msg \in Seq(Byte)
          BY <1>2, EntryIs DEF msg
        <5> QED
          BY <3>1, <5>1 DEF Agrees
      <4>4. CASE IsDue(msg, AasSize)
        BY <1>4, <4>1, <4>2, <4>3, <4>4, AgreesOn
      <4>5. CASE ~IsDue(msg, AasSize)
        BY <4>1, <4>2, <4>3, <4>5
      <4> QED
        BY <4>4, <4>5
    <3>2. CASE ~h.sound
      <4>1. ~before /\ acc.out = << >> /\ h.due = << >> /\ h2.due = << >>
        BY <2>3, <3>2 DEF Agrees
      <4>2. taken = << >> \/ taken = <<Unescaped(acc.buf)>>
        <5>1. Append(<< >>, Unescaped(acc.buf)) = <<Unescaped(acc.buf)>>
          OBVIOUS
        <5> QED
          BY <4>1, <5>1 DEF taken, AasPush
      <4>3. Tail(<<Unescaped(acc.buf)>>) = << >> /\ <<Unescaped(acc.buf)>> # << >>
        OBVIOUS
      <4> QED
        BY <4>1, <4>2, <4>3 DEF Agrees
    <3> QED
      BY <3>1, <3>2
  <2> QED
    BY <2>4, <2>5, <2>6 DEF item, on, acc2, h2
<1> QED
  BY <1>2, <1>5, <1>6

\* The bytes of items.
LEMMA BytesOfIs ==
  ASSUME NEW items \in Seq(Item)
  PROVE  /\ BytesOf(items) \in Seq(Byte) /\ Len(BytesOf(items)) = Len(items) /\ Len(items) \in Nat
         /\ \A j \in 1..Len(items) : BytesOf(items)[j] = items[j].b
<1>1. Len(items) \in Nat /\ \A j \in 1..Len(items) : items[j].b \in Byte
  <2>1. Len(items) \in Nat
    BY LenProperties
  <2>2. ASSUME NEW j \in 1..Len(items) PROVE items[j].b \in Byte
    <3>1. items[j] \in Item
      BY ElementOfSeq
    <3> QED
      BY <3>1 DEF Item
  <2> QED
    BY <2>1, <2>2
<1> DEFINE n == Len(items)
           s == [j \in 1..n |-> items[j].b]
<1>2. BytesOf(items) = s
  BY DEF BytesOf
<1>3. s \in [1..n -> Byte] /\ \A j \in 1..n : s[j] = items[j].b
  BY <1>1
<1> HIDE DEF s
<1>4. s \in Seq(Byte) /\ Len(s) = n
  <2> HIDE DEF n
  <2> QED
    BY <1>1, <1>3 DEF n
<1> QED
  BY <1>1, <1>2, <1>3, <1>4

\* Part of the endless stream.
LEMMA TurnIs ==
  ASSUME NEW at \in 0..TurnLen - 1, NEW n \in Nat
  PROVE  /\ Turn(PsdStream, at, n) \in Seq(Item) /\ Len(Turn(PsdStream, at, n)) = n
         /\ \A j \in 1..n : Turn(PsdStream, at, n)[j] = PsdStream[((at + j - 1) % TurnLen) + 1]
<1> DEFINE s == Turn(PsdStream, at, n)
           m == TurnLen
<1>1. m \in Nat \ {0} /\ at \in Nat /\ PsdStream \in Seq(Item) /\ Len(PsdStream) = m
  BY FirstPlace, StreamIs DEF TurnLen
<1>2. s = [j \in 1..n |-> PsdStream[((at + j - 1) % m) + 1]]
  BY DEF Turn, TurnLen
<1> HIDE DEF s, m
<1>3. ASSUME NEW j \in 1..n PROVE PsdStream[((at + j - 1) % m) + 1] \in Item
  <2>1. at + j - 1 \in Int
    BY <1>1
  <2> DEFINE r == (at + j - 1) % m
  <2>2. r \in 0..m - 1
    BY <1>1, <2>1, Division
  <2> HIDE DEF r
  <2>3. r + 1 \in 1..m
    BY <1>1, <2>2
  <2> QED
    BY <1>1, <2>3, ElementOfSeq DEF r
<1>4. s \in [1..n -> Item]
  BY <1>2, <1>3
<1>5. s \in Seq(Item) /\ Len(s) = n
  BY <1>4
<1>6. \A j \in 1..n : s[j] = PsdStream[((at + j - 1) % m) + 1]
  BY <1>2
<1> QED
  BY <1>5, <1>6 DEF s, m

\* Parser and listener stay together over a chunk of the stream.
LEMMA TurnTogether ==
  ASSUME NEW at \in 0..TurnLen - 1, NEW n \in Nat,
         NEW acc \in Parsing(AasSize), NEW h \in Hearing, NEW before \in BOOLEAN,
         InStepAt(acc, h.sound, at), Agrees(acc.out, h.due, h.sound, before)
  PROVE  LET items == Turn(PsdStream, at, n)
             acc2 == Parsed(acc, BytesOf(items), AasSize, AasSent)
             h2 == Heard(h, items, AasSize) IN
         InStepAt(acc2, h2.sound, (at + n) % TurnLen) /\ Agrees(acc2.out, h2.due, h2.sound, before)
<1> DEFINE items == Turn(PsdStream, at, n)
           chunk == BytesOf(items)
           m == TurnLen
<1>1. m \in Nat \ {0} /\ at \in 0..m - 1 /\ at \in Nat /\ AasSize \in Nat
  BY FirstPlace, AasSizeAssumption
<1>2. /\ items \in Seq(Item) /\ Len(items) = n /\ chunk \in Seq(Byte) /\ Len(chunk) = n
      /\ \A j \in 1..n : items[j] = PsdStream[((at + j - 1) % m) + 1] /\ chunk[j] = items[j].b
  BY TurnIs, BytesOfIs
<1> HIDE DEF items, chunk, m
<1>3. PICK g \in [0..n -> Parsing(AasSize)] :
         ParseRun(g, acc, chunk, AasSize, AasSent) /\ Parsed(acc, chunk, AasSize, AasSent) = g[n]
  <2>1. \E g \in [0..Len(chunk) -> Parsing(AasSize)] :
          /\ ParseRun(g, acc, chunk, AasSize, AasSent)
          /\ Parsed(acc, chunk, AasSize, AasSent) = g[Len(chunk)]
    <3>1. AasSize \in Nat /\ chunk \in Seq(Byte)
      BY <1>1, <1>2
    <3> QED
      BY <3>1, ParseRuns
  <2> QED
    BY <1>2, <2>1
<1>4. PICK f \in [0..n -> Hearing] : HearRun(f, h, items, AasSize) /\ Heard(h, items, AasSize) = f[n]
  <2>1. \E f \in [0..Len(items) -> Hearing] :
          HearRun(f, h, items, AasSize) /\ Heard(h, items, AasSize) = f[Len(items)]
    BY <1>2, HearRuns
  <2> QED
    BY <1>2, <2>1
<1> DEFINE Together(j) == /\ InStepAt(g[j], f[j].sound, (at + j) % m)
                          /\ Agrees(g[j].out, f[j].due, f[j].sound, before)
           T == {j \in 0..n : Together(j)}
<1>5. 0 \in T
  <2>1. (at + 0) % m = at
    BY <1>1
  <2>2. g[0] = acc /\ f[0] = h
    BY <1>3, <1>4 DEF ParseRun, HearRun
  <2>3. Together(0)
    BY <2>1, <2>2
  <2> QED
    BY <2>3
<1>6. ASSUME NEW j \in 0..n - 1, j \in T PROVE j + 1 \in T
  <2>1. j + 1 \in 1..n /\ (j + 1) - 1 = j /\ j + 1 \in 0..n /\ j \in 0..n /\ at + (j + 1) - 1 = at + j
        /\ at + j \in Int /\ at + (j + 1) = (at + j) + 1 /\ 1 \in Int
    BY <1>1
  <2> DEFINE p == (at + j) % m
  <2>2. p \in 0..m - 1
    BY <1>1, <2>1, Division
  <2>3. (p + 1) % m = (at + (j + 1)) % m
    <3>1. (((at + j) % m) + 1) % m = ((at + j) + 1) % m
      BY <1>1, <2>1, CountOn
    <3> QED
      BY <2>1, <3>1
  <2>4. /\ g[j + 1] = ParseByte(g[j], PsdStream[p + 1].b, AasSize, AasSent)
        /\ f[j + 1] = HeardItem(f[j], PsdStream[p + 1], AasSize)
    <3>1. items[j + 1] = PsdStream[p + 1] /\ chunk[j + 1] = PsdStream[p + 1].b
      BY <1>2, <2>1
    <3>2. g[j + 1] = ParseByte(g[j], chunk[j + 1], AasSize, AasSent)
      BY <1>2, <1>3, <2>1 DEF ParseRun
    <3>3. f[j + 1] = HeardItem(f[j], items[j + 1], AasSize)
      BY <1>2, <1>4, <2>1 DEF HearRun
    <3> QED
      BY <3>1, <3>2, <3>3
  <2>5. InStepAt(g[j], f[j].sound, p) /\ Agrees(g[j].out, f[j].due, f[j].sound, before)
    BY <1>6
  <2>6. g[j] \in Parsing(AasSize) /\ f[j] \in Hearing
    BY <2>1
  <2> HIDE DEF p
  <2>7. /\ InStepAt(g[j + 1], f[j + 1].sound, (p + 1) % m)
        /\ Agrees(g[j + 1].out, f[j + 1].due, f[j + 1].sound, before)
    BY <2>2, <2>4, <2>5, <2>6, ItemTogether DEF m
  <2>8. Together(j + 1)
    BY <2>3, <2>7
  <2> QED
    BY <2>1, <2>8
<1>7. 0..n \subseteq T
  <2> HIDE DEF T
  <2> QED
    BY <1>5, <1>6, Inductive
<1>8. Together(n)
  BY <1>7
<1> QED
  BY <1>3, <1>4, <1>8 DEF items, chunk, m

-----------------------------------------------------------------------------
(* A PDU as it is sent. *)

LB(pdu) == LocBytes(Bits(pdu), Len(pdu.packets))
HL(pdu) == Len(Concat(pdu.hef))
BL(pdu) == Len(Concat(Body(pdu)))

\* A location has 12 or 16 bits.
LEMMA BitsAre == ASSUME NEW pdu PROVE Bits(pdu) \in {12, 16}
  BY DEF Bits, LcBits

\* The bytes that n locations take.
LEMMA LocBytesIs ==
  ASSUME NEW bits \in {12, 16}, NEW n \in Nat
  PROVE  /\ LocBytes(bits, n) \in Nat
         /\ bits = 16 => LocBytes(bits, n) = 2 * n
         /\ bits = 12 => LocBytes(bits, n) = (12 * n + 4) \div 8
<1>1. CASE bits = 16
  <2>1. LocBytes(bits, n) = (16 * n + 4) \div 8
    BY <1>1 DEF LocBytes
  <2>2. (16 * n + 4) \div 8 = 2 * n
    OBVIOUS
  <2> QED
    BY <1>1, <2>1, <2>2
<1>2. CASE bits = 12
  <2>1. LocBytes(bits, n) = (12 * n + 4) \div 8
    BY <1>2 DEF LocBytes
  <2>2. (12 * n + 4) \div 8 \in Nat
    OBVIOUS
  <2> QED
    BY <1>2, <2>1, <2>2
<1> QED
  BY <1>1, <1>2

\* A PDU that is well formed has a header expansion and packets of bytes.
LEMMA PduIs ==
  ASSUME NEW pdu, NEW max, WellFormed(pdu, max)
  PROVE  /\ pdu.hef \in Seq(Seq(Byte)) /\ Concat(pdu.hef) \in Seq(Byte) /\ HL(pdu) \in Nat
         /\ pdu.packets \in Seq(Seq(Byte)) /\ Len(pdu.packets) \in Nat
         /\ Body(pdu) \in Seq(Seq(Byte)) /\ Len(Body(pdu)) = Len(pdu.packets)
         /\ Concat(Body(pdu)) \in Seq(Byte) /\ BL(pdu) \in Nat
         /\ \A j \in 1..Len(pdu.packets) :
              /\ Body(pdu)[j] = Append(pdu.packets[j], 0) /\ pdu.packets[j] \in Seq(Byte)
              /\ Len(Body(pdu)[j]) = Len(pdu.packets[j]) + 1 /\ Len(pdu.packets[j]) \in Nat
         /\ Bits(pdu) \in {12, 16} /\ LB(pdu) \in Nat /\ pdu.prog \in Prog /\ pdu.stream \in Nat
         /\ HeaderLen \in Nat \ {0} /\ CodewordLen \in Nat
<1>1. pdu \in Pdus
  BY DEF WellFormed
<1>2. pdu.hef \in Seq(Seq(Byte)) /\ pdu.packets \in Seq(Seq(Byte)) /\ pdu.prog \in Prog /\ pdu.stream \in Nat
  BY <1>1 DEF Pdus
<1>3. Concat(pdu.hef) \in Seq(Byte)
  BY <1>2, ConcatIs
<1>4. HL(pdu) \in Nat
  BY <1>3, LenProperties DEF HL
<1> DEFINE n == Len(pdu.packets)
           B == Body(pdu)
<1>5. n \in Nat /\ \A j \in 1..n : pdu.packets[j] \in Seq(Byte) /\ Len(pdu.packets[j]) \in Nat
  BY <1>2, LenProperties, ElementOfSeq
<1>6. ASSUME NEW j \in 1..n
      PROVE  Append(pdu.packets[j], 0) \in Seq(Byte) /\ Len(Append(pdu.packets[j], 0)) = Len(pdu.packets[j]) + 1
  <2>1. 0 \in Byte
    BY DEF Byte
  <2> QED
    BY <1>5, <2>1, AppendProperties
<1>7. B = [j \in 1..n |-> Append(pdu.packets[j], 0)]
  BY DEF Body
<1> HIDE DEF B, n
<1>8. B \in [1..n -> Seq(Byte)] /\ \A j \in 1..n : B[j] = Append(pdu.packets[j], 0)
  BY <1>6, <1>7
<1>9. B \in Seq(Seq(Byte)) /\ Len(B) = n
  BY <1>5, <1>8
<1>10. Concat(B) \in Seq(Byte)
  BY <1>9, ConcatIs
<1>11. BL(pdu) \in Nat
  BY <1>10, LenProperties DEF BL, B
<1>12. Bits(pdu) \in {12, 16}
  BY BitsAre
<1>13. LB(pdu) \in Nat
  BY <1>5, <1>12, LocBytesIs DEF LB, n
<1>14. HeaderLen \in Nat \ {0} /\ CodewordLen \in Nat
  BY CodewordAssumption
<1> QED
  BY <1>2, <1>3, <1>4, <1>5, <1>6, <1>8, <1>9, <1>10, <1>11, <1>12, <1>13, <1>14 DEF n, B

\* Lengths, with l bytes of service data.
LEMMA PduLenIs ==
  ASSUME NEW pdu, NEW max, WellFormed(pdu, max), NEW l \in Nat
  PROVE  /\ LaLocation(pdu, l) = HeaderLen + LB(pdu) + HL(pdu) + l - 1 /\ LaLocation(pdu, l) \in Nat
         /\ PduLen(pdu, l) = LaLocation(pdu, l) + 1 + BL(pdu) /\ PduLen(pdu, l) \in Nat
<1>1. HL(pdu) \in Nat /\ BL(pdu) \in Nat /\ LB(pdu) \in Nat /\ HeaderLen \in Nat \ {0}
  BY PduIs
<1>2. LaLocation(pdu, l) = HeaderLen + LB(pdu) + HL(pdu) + l - 1
  BY DEF LaLocation, LB, HL
<1>3. PduLen(pdu, l) = LaLocation(pdu, l) + 1 + BL(pdu)
  BY DEF PduLen, BL
<1>4. LaLocation(pdu, l) \in Nat
  BY <1>1, <1>2
<1> QED
  BY <1>1, <1>2, <1>3, <1>4

\* Where packet j begins.
Before(pdu, l, j) == IF j = 1 THEN LaLocation(pdu, l) ELSE Locations(pdu, l)[j - 1]

\* The locations say where each packet ends, in rising order and within the PDU.
LEMMA LocationsAre ==
  ASSUME NEW pdu, NEW max, WellFormed(pdu, max), NEW l \in Nat
  PROVE  LET locs == Locations(pdu, l)
             la == LaLocation(pdu, l)
             n == Len(pdu.packets) IN
         /\ locs \in Seq(Nat) /\ Len(locs) = n /\ n \in Nat
         /\ \A j \in 1..n :
              /\ locs[j] \in Nat /\ locs[j] <= la + BL(pdu)
              /\ Before(pdu, l, j) \in Nat /\ Before(pdu, l, j) = la + Starts(Body(pdu), j)
              /\ Starts(Body(pdu), j) \in Nat /\ Starts(Body(pdu), j) + Len(pdu.packets[j]) + 1 <= BL(pdu)
              /\ locs[j] = Before(pdu, l, j) + Len(pdu.packets[j]) + 1
         /\ n # 0 => locs[n] = la + BL(pdu)
         /\ n = 0 => BL(pdu) = 0
<1> DEFINE locs == Locations(pdu, l)
           la == LaLocation(pdu, l)
           n == Len(pdu.packets)
           B == Body(pdu)
           P == Prefixes(B)
           bl == BL(pdu)
           L(j) == Len(P[j])
<1>1. la \in Nat /\ n \in Nat /\ bl \in Nat /\ B \in Seq(Seq(Byte)) /\ Len(B) = n
  BY PduIs, PduLenIs
<1>2. locs = [j \in 1..n |-> la + L(j)]
  BY DEF Locations
<1>3. /\ P \in [0..n -> Seq(Byte)] /\ P[0] = << >> /\ bl = L(n)
  <2> HIDE DEF B
  <2>1. P \in [0..Len(B) -> Seq(Byte)] /\ P[0] = << >>
    BY <1>1, PrefixesAre
  <2>2. bl = L(n)
    BY <1>1 DEF BL, Concat, B
  <2> QED
    BY <1>1, <2>1, <2>2
<1>4. \A j \in 0..n : L(j) \in Nat
  BY <1>3, LenProperties
<1>5. L(0) = 0
  BY <1>3
<1> HIDE DEF locs, la, n, P, L, B, bl
<1>6. locs \in [1..n -> Nat] /\ \A j \in 1..n : locs[j] = la + L(j) /\ locs[j] \in Nat
  <2>1. \A j \in 1..n : j \in 0..n
    BY <1>1
  <2>2. \A j \in 1..n : la + L(j) \in Nat
    BY <1>1, <1>4, <2>1
  <2> QED
    BY <1>2, <2>2
<1>7. locs \in Seq(Nat) /\ Len(locs) = n
  BY <1>1, <1>6
<1>8. ASSUME NEW j \in 1..n
      PROVE  /\ Starts(B, j) = L(j - 1) /\ L(j - 1) + Len(pdu.packets[j]) + 1 = L(j) /\ L(j) <= bl
             /\ L(j - 1) \in Nat /\ Len(pdu.packets[j]) \in Nat /\ L(j) \in Nat
             /\ Before(pdu, l, j) = la + L(j - 1)
  <2>0. j - 1 \in 0..n /\ j \in 0..n
    BY <1>1
  <2>1. Starts(B, j) + Len(B[j]) = L(j) /\ Starts(B, j) + Len(B[j]) <= bl /\ Starts(B, j) = L(j - 1)
    <3>1. Starts(B, j) + Len(B[j]) = Len(Prefixes(B)[j]) /\ Starts(B, j) + Len(B[j]) <= Len(Concat(B))
      BY <1>1, ConcatAt
    <3> QED
      BY <3>1 DEF L, P, bl, BL, B, Starts
  <2>2. Len(B[j]) = Len(pdu.packets[j]) + 1 /\ Len(pdu.packets[j]) \in Nat
    BY PduIs DEF B, n
  <2>3. Before(pdu, l, j) = la + L(j - 1)
    <3>1. CASE j = 1
      <4>1. Before(pdu, l, j) = la /\ j - 1 = 0
        BY <3>1 DEF Before, la
      <4> QED
        BY <1>1, <1>5, <4>1
    <3>2. CASE j # 1
      <4>1. j - 1 \in 1..n
        BY <1>1, <3>2
      <4> QED
        BY <1>6, <3>2, <4>1 DEF Before, locs
    <3> QED
      BY <3>1, <3>2
  <2> DEFINE x == Len(pdu.packets[j])
             y == L(j - 1)
             z == L(j)
             s == Len(B[j])
  <2>4. x \in Nat /\ y \in Nat /\ z \in Nat /\ y + s = z /\ z <= bl /\ s = x + 1
    BY <1>4, <2>0, <2>1, <2>2
  <2>5. y + x + 1 = z
    <3> HIDE DEF x, y, z, s
    <3> QED
      BY <2>4
  <2> QED
    BY <2>1, <2>3, <2>4, <2>5
<1>9. ASSUME NEW j \in 1..n
      PROVE  /\ locs[j] <= la + bl /\ Before(pdu, l, j) \in Nat
             /\ Starts(B, j) + Len(pdu.packets[j]) + 1 <= bl
             /\ locs[j] = Before(pdu, l, j) + Len(pdu.packets[j]) + 1
  <2> DEFINE x == Len(pdu.packets[j])
             y == L(j - 1)
             z == L(j)
  <2>1. /\ Starts(B, j) = y /\ y + x + 1 = z /\ z <= bl /\ x \in Nat /\ y \in Nat /\ z \in Nat
        /\ Before(pdu, l, j) = la + y /\ locs[j] = la + z
    BY <1>6, <1>8
  <2> HIDE DEF x, y, z
  <2>2. z <= bl /\ la + z <= la + bl /\ la + y \in Nat /\ la + z = (la + y) + x + 1
    BY <1>1, <2>1
  <2> QED
    BY <2>1, <2>2 DEF x
<1>10. n # 0 => locs[n] = la + bl
  <2>1. n # 0 => n \in 1..n
    BY <1>1
  <2> QED
    BY <1>3, <1>6, <2>1
<1>11. n = 0 => bl = 0
  BY <1>3, <1>5
<1> QED
  BY <1>1, <1>6, <1>7, <1>8, <1>9, <1>10, <1>11 DEF locs, la, n, B, bl

\* Two sequences, one after the other.
LEMMA JoinIs ==
  ASSUME NEW S, NEW a \in Seq(S), NEW b \in Seq(S)
  PROVE  /\ a \o b \in Seq(S) /\ Len(a) \in Nat /\ Len(b) \in Nat /\ Len(a \o b) = Len(a) + Len(b)
         /\ \A k \in 1..Len(a) : (a \o b)[k] = a[k]
         /\ \A k \in 1..Len(b) : (a \o b)[Len(a) + k] = b[k]
<1> DEFINE s == a \o b
           la == Len(a)
           lb == Len(b)
<1>1. la \in Nat /\ lb \in Nat
  BY LenProperties
<1>2. s \in Seq(S) /\ Len(s) = la + lb /\ \A i \in 1..la + lb : s[i] = IF i <= la THEN a[i] ELSE b[i - la]
  BY ConcatProperties
<1> HIDE DEF s, la, lb
<1>3. ASSUME NEW k \in 1..la PROVE s[k] = a[k]
  <2>1. k \in 1..la + lb /\ k <= la
    BY <1>1
  <2> QED
    BY <1>2, <2>1
<1>4. ASSUME NEW k \in 1..lb PROVE s[la + k] = b[k]
  <2>1. la + k \in 1..la + lb /\ ~(la + k <= la) /\ (la + k) - la = k
    BY <1>1
  <2> QED
    BY <1>2, <2>1
<1> QED
  BY <1>1, <1>2, <1>3, <1>4 DEF s, la, lb

FiveJoined(s, a, b, c, d, e) ==
  /\ Len(s) = Len(a) + Len(b) + Len(c) + Len(d) + Len(e)
  /\ \A k \in 1..Len(b) : s[Len(a) + k] = b[k]
  /\ \A k \in 1..Len(c) : s[Len(a) + Len(b) + k] = c[k]
  /\ \A k \in 1..Len(d) : s[Len(a) + Len(b) + Len(c) + k] = d[k]
  /\ \A k \in 1..Len(e) : s[Len(a) + Len(b) + Len(c) + Len(d) + k] = e[k]

\* Five of them.
LEMMA FiveParts ==
  ASSUME NEW S, NEW a \in Seq(S), NEW b \in Seq(S), NEW c \in Seq(S), NEW d \in Seq(S), NEW e \in Seq(S)
  PROVE  a \o b \o c \o d \o e \in Seq(S) /\ FiveJoined(a \o b \o c \o d \o e, a, b, c, d, e)
<1> DEFINE s2 == a \o b
           s3 == s2 \o c
           s4 == s3 \o d
           s5 == s4 \o e
           n1 == Len(a)
           n2 == Len(b)
           n3 == Len(c)
           n4 == Len(d)
           n5 == Len(e)
<1>1. /\ s2 \in Seq(S) /\ n1 \in Nat /\ n2 \in Nat /\ Len(s2) = n1 + n2
      /\ \A k \in 1..n2 : s2[n1 + k] = b[k]
  BY JoinIs
<1> HIDE DEF s2
<1>2. /\ s3 \in Seq(S) /\ n3 \in Nat /\ Len(s3) = Len(s2) + n3
      /\ \A k \in 1..Len(s2) : s3[k] = s2[k]
      /\ \A k \in 1..n3 : s3[Len(s2) + k] = c[k]
  <2>1. s2 \in Seq(S)
    BY <1>1
  <2> QED
    BY <2>1, JoinIs
<1> HIDE DEF s3
<1>3. /\ s4 \in Seq(S) /\ n4 \in Nat /\ Len(s4) = Len(s3) + n4
      /\ \A k \in 1..Len(s3) : s4[k] = s3[k]
      /\ \A k \in 1..n4 : s4[Len(s3) + k] = d[k]
  <2>1. s3 \in Seq(S)
    BY <1>2
  <2> QED
    BY <2>1, JoinIs
<1> HIDE DEF s4
<1>4. /\ s5 \in Seq(S) /\ n5 \in Nat /\ Len(s5) = Len(s4) + n5
      /\ \A k \in 1..Len(s4) : s5[k] = s4[k]
      /\ \A k \in 1..n5 : s5[Len(s4) + k] = e[k]
  <2>1. s4 \in Seq(S)
    BY <1>3
  <2> QED
    BY <2>1, JoinIs
<1> HIDE DEF s5, n1, n2, n3, n4, n5
<1>5. Len(s2) = n1 + n2 /\ Len(s3) = n1 + n2 + n3 /\ Len(s4) = n1 + n2 + n3 + n4
      /\ Len(s5) = n1 + n2 + n3 + n4 + n5
  BY <1>1, <1>2, <1>3, <1>4
<1>6. ASSUME NEW k \in 1..n2 PROVE s5[n1 + k] = b[k]
  <2>1. n1 + k \in 1..n1 + n2 /\ n1 + k \in 1..n1 + n2 + n3 /\ n1 + k \in 1..n1 + n2 + n3 + n4
    BY <1>1, <1>2, <1>3
  <2> QED
    BY <1>1, <1>2, <1>3, <1>4, <1>5, <2>1
<1>7. ASSUME NEW k \in 1..n3 PROVE s5[n1 + n2 + k] = c[k]
  <2>1. n1 + n2 + k \in 1..n1 + n2 + n3 /\ n1 + n2 + k \in 1..n1 + n2 + n3 + n4
    BY <1>1, <1>2, <1>3
  <2> QED
    BY <1>1, <1>2, <1>3, <1>4, <1>5, <2>1
<1>8. ASSUME NEW k \in 1..n4 PROVE s5[n1 + n2 + n3 + k] = d[k]
  <2>1. n1 + n2 + n3 + k \in 1..n1 + n2 + n3 + n4
    BY <1>1, <1>2, <1>3
  <2> QED
    BY <1>3, <1>4, <1>5, <2>1
<1>9. \A k \in 1..n5 : s5[n1 + n2 + n3 + n4 + k] = e[k]
  BY <1>4, <1>5
<1> QED
  BY <1>4, <1>5, <1>6, <1>7, <1>8, <1>9 DEF FiveJoined, s2, s3, s4, s5, n1, n2, n3, n4, n5

\* Locations as they are packed.
Fits(bits) == IF bits = 12 THEN 4096 ELSE 65536

Wide(locs, size, K) ==
  \A i \in 0..Len(locs) - 1 :
    2 * i + 2 <= size /\ K[2 * i + 1] = locs[i + 1] % 256 /\ K[2 * i + 2] = locs[i + 1] \div 256
Narrow(locs, size, K) ==
  \A q \in Nat :
    /\ 2 * q < Len(locs) =>
         /\ 3 * q + 2 <= size /\ K[3 * q + 1] = locs[2 * q + 1] % 256
         /\ K[3 * q + 2] % 16 = locs[2 * q + 1] \div 256
    /\ 2 * q + 1 < Len(locs) =>
         /\ 3 * q + 3 <= size /\ K[3 * q + 2] \div 16 = locs[2 * q + 2] % 16
         /\ K[3 * q + 3] = locs[2 * q + 2] \div 16

\* Two bytes for each location of 16 bits, three for two of 12.
LEMMA PackedIs ==
  ASSUME NEW bits \in {12, 16}, NEW locs \in Seq(Nat), \A j \in 1..Len(locs) : locs[j] < Fits(bits)
  PROVE  LET n == Len(locs)
             K == Packed(locs, bits)
             size == LocBytes(bits, n) IN
         /\ K \in Seq(Byte) /\ Len(K) = size /\ size \in Nat
         /\ bits = 16 => Wide(locs, size, K)
         /\ bits = 12 => Narrow(locs, size, K)
<1> DEFINE n == Len(locs)
           K == Packed(locs, bits)
           size == LocBytes(bits, n)
           At(i) == IF i + 1 \in 1..Len(locs) THEN locs[i + 1] ELSE 0
           Value(k) ==
             IF bits = 16 THEN (IF k % 2 = 1 THEN At(k \div 2) % 256 ELSE At(k \div 2 - 1) \div 256)
             ELSE LET pair == 2 * ((k - 1) \div 3) IN
                  CASE (k - 1) % 3 = 0 -> At(pair) % 256
                    [] (k - 1) % 3 = 1 -> (At(pair) \div 256) + 16 * (At(pair + 1) % 16)
                    [] OTHER           -> At(pair + 1) \div 16
<1>1. n \in Nat
  BY LenProperties
<1>2. size \in Nat
  BY <1>1, LocBytesIs
<1>3. \A i \in Int : At(i) \in Nat /\ At(i) < Fits(bits)
  <2>1. ASSUME NEW i \in Int, i + 1 \in 1..n PROVE At(i) \in Nat /\ At(i) < Fits(bits)
    <3>1. locs[i + 1] \in Nat
      BY <2>1, ElementOfSeq
    <3> QED
      BY <2>1, <3>1
  <2> QED
    BY <2>1 DEF Fits
<1>4. \A i \in 0..n - 1 : At(i) = locs[i + 1]
  <2> SUFFICES ASSUME NEW i \in 0..n - 1 PROVE i + 1 \in 1..n
    OBVIOUS
  <2> HIDE DEF n
  <2> QED
    BY <1>1
<1>5. K = [k \in 1..size |-> Value(k)]
  BY DEF Packed
<1> HIDE DEF At, K, size, n
<1>6. ASSUME NEW k \in 1..size, bits = 16 PROVE Value(k) \in Byte
  <2>1. k \div 2 \in Int /\ k \div 2 - 1 \in Int
    BY <1>2
  <2> DEFINE x == At(k \div 2)
             y == At(k \div 2 - 1)
  <2>2. x \in Nat /\ y \in Nat /\ y < 65536
    BY <1>3, <1>6, <2>1 DEF Fits
  <2>3. Value(k) = x % 256 \/ Value(k) = y \div 256
    BY <1>6
  <2> HIDE DEF x, y, Value
  <2>4. x % 256 \in Byte /\ y \div 256 \in Byte
    BY <2>2 DEF Byte
  <2> QED
    BY <2>3, <2>4, Zenon
<1>7. ASSUME NEW k \in 1..size, bits = 12 PROVE Value(k) \in Byte
  <2> DEFINE pair == 2 * ((k - 1) \div 3)
             x == At(pair)
             y == At(pair + 1)
  <2>1. pair \in Int /\ pair + 1 \in Int
    BY <1>2
  <2>2. x \in Nat /\ y \in Nat /\ x < 4096 /\ y < 4096
    BY <1>3, <1>7, <2>1 DEF Fits
  <2>3. Value(k) = x % 256 \/ Value(k) = (x \div 256) + 16 * (y % 16) \/ Value(k) = y \div 16
    BY <1>7
  <2> HIDE DEF x, y, Value
  <2> DEFINE u == x \div 256
             v == y % 16
  <2>4. x % 256 \in Byte /\ y \div 16 \in Byte /\ u \in 0..15 /\ v \in 0..15
    BY <2>2 DEF Byte
  <2>5. Value(k) = x % 256 \/ Value(k) = u + 16 * v \/ Value(k) = y \div 16
    BY <2>3
  <2> HIDE DEF u, v
  <2>6. u + 16 * v \in Byte
    BY <2>4 DEF Byte
  <2> QED
    BY <2>4, <2>5, <2>6, Zenon
<1>8. \A k \in 1..size : Value(k) \in Byte
  BY <1>6, <1>7
<1>9. ASSUME NEW i \in 0..n - 1, bits = 16
      PROVE  /\ 2 * i + 2 <= size
             /\ K[2 * i + 1] = locs[i + 1] % 256 /\ K[2 * i + 2] = locs[i + 1] \div 256
  <2>1. size = 2 * n
    BY <1>1, <1>9, LocBytesIs DEF size
  <2>2. /\ 2 * i + 1 \in 1..size /\ 2 * i + 2 \in 1..size /\ 2 * i + 2 <= size
        /\ (2 * i + 1) % 2 = 1 /\ (2 * i + 1) \div 2 = i
        /\ (2 * i + 2) % 2 # 1 /\ (2 * i + 2) \div 2 - 1 = i
    BY <1>1, <2>1
  <2>3. Value(2 * i + 1) = At(i) % 256 /\ Value(2 * i + 2) = At(i) \div 256
    BY <1>9, <2>2
  <2> HIDE DEF Value
  <2> QED
    BY <1>4, <1>5, <2>2, <2>3
<1>10. ASSUME NEW q \in Nat, bits = 12, 2 * q < n
       PROVE  /\ 3 * q + 2 <= size /\ K[3 * q + 1] = locs[2 * q + 1] % 256
              /\ K[3 * q + 2] % 16 = locs[2 * q + 1] \div 256
  <2>1. size = (12 * n + 4) \div 8
    BY <1>1, <1>10, LocBytesIs DEF size
  <2>2. /\ 3 * q + 1 \in 1..size /\ 3 * q + 2 \in 1..size /\ 3 * q + 2 <= size
        /\ ((3 * q + 1) - 1) % 3 = 0 /\ 2 * (((3 * q + 1) - 1) \div 3) = 2 * q
        /\ ((3 * q + 2) - 1) % 3 = 1 /\ 2 * (((3 * q + 2) - 1) \div 3) = 2 * q
        /\ 2 * q \in 0..n - 1 /\ 2 * q \in Int /\ 2 * q + 1 \in Int
    BY <1>1, <1>10, <2>1
  <2> DEFINE x == At(2 * q)
             y == At(2 * q + 1)
  <2>3. x \in Nat /\ y \in Nat /\ x < 4096
    <3>1. 2 * q \in Int /\ 2 * q + 1 \in Int /\ Fits(bits) = 4096
      BY <1>10, <2>2 DEF Fits
    <3>2. At(2 * q) \in Nat /\ At(2 * q) < 4096
      BY <1>3, <3>1
    <3>3. At(2 * q + 1) \in Nat
      BY <1>3, <3>1
    <3> QED
      BY <3>2, <3>3
  <2>4. Value(3 * q + 1) = x % 256 /\ Value(3 * q + 2) = (x \div 256) + 16 * (y % 16)
    <3> HIDE DEF x, y
    <3>1. Value(3 * q + 1) = At(2 * q) % 256
      BY <1>10, <2>2
    <3>2. Value(3 * q + 2) = (At(2 * q) \div 256) + 16 * (At(2 * q + 1) % 16)
      BY <1>10, <2>2
    <3> QED
      BY <3>1, <3>2 DEF x, y
  <2>5. x = locs[2 * q + 1]
    BY <1>4, <2>2
  <2> HIDE DEF Value, x, y
  <2>6. K[3 * q + 1] = x % 256 /\ K[3 * q + 2] = (x \div 256) + 16 * (y % 16)
    BY <1>5, <2>2, <2>4
  <2>7. ((x \div 256) + 16 * (y % 16)) % 16 = x \div 256
    <3> DEFINE u == x \div 256
               v == y % 16
    <3>1. u \in 0..15 /\ v \in Int
      BY <2>3
    <3> HIDE DEF u, v
    <3>2. (u + 16 * v) % 16 = u
      BY <3>1
    <3> QED
      BY <3>2 DEF u, v
  <2> QED
    BY <2>2, <2>5, <2>6, <2>7
<1>11. ASSUME NEW q \in Nat, bits = 12, 2 * q + 1 < n
       PROVE  /\ 3 * q + 3 <= size /\ K[3 * q + 2] \div 16 = locs[2 * q + 2] % 16
              /\ K[3 * q + 3] = locs[2 * q + 2] \div 16
  <2>1. size = (12 * n + 4) \div 8
    BY <1>1, <1>11, LocBytesIs DEF size
  <2>2. /\ 3 * q + 2 \in 1..size /\ 3 * q + 3 \in 1..size /\ 3 * q + 3 <= size
        /\ ((3 * q + 2) - 1) % 3 = 1 /\ 2 * (((3 * q + 2) - 1) \div 3) = 2 * q
        /\ ((3 * q + 3) - 1) % 3 = 2 /\ 2 * (((3 * q + 3) - 1) \div 3) = 2 * q
        /\ 2 * q + 1 \in 0..n - 1 /\ 2 * q \in Int /\ 2 * q + 1 \in Int /\ (2 * q + 1) + 1 = 2 * q + 2
    BY <1>1, <1>11, <2>1
  <2> DEFINE x == At(2 * q)
             y == At(2 * q + 1)
  <2>3. x \in Nat /\ y \in Nat /\ x < 4096
    <3>1. 2 * q \in Int /\ 2 * q + 1 \in Int /\ Fits(bits) = 4096
      BY <1>11, <2>2 DEF Fits
    <3>2. At(2 * q) \in Nat /\ At(2 * q) < 4096
      BY <1>3, <3>1
    <3>3. At(2 * q + 1) \in Nat
      BY <1>3, <3>1
    <3> QED
      BY <3>2, <3>3
  <2>4. Value(3 * q + 2) = (x \div 256) + 16 * (y % 16) /\ Value(3 * q + 3) = y \div 16
    <3> HIDE DEF x, y
    <3>1. Value(3 * q + 2) = (At(2 * q) \div 256) + 16 * (At(2 * q + 1) % 16)
      BY <1>11, <2>2
    <3>2. Value(3 * q + 3) = At(2 * q + 1) \div 16
      <4> DEFINE k == 3 * q + 3
      <4>1. (k - 1) % 3 # 0 /\ (k - 1) % 3 # 1 /\ 2 * ((k - 1) \div 3) = 2 * q
        BY <2>2
      <4> HIDE DEF k
      <4>2. Value(k) = At(2 * ((k - 1) \div 3) + 1) \div 16
        BY <1>11, <4>1
      <4> QED
        BY <4>1, <4>2 DEF k
    <3> QED
      BY <3>1, <3>2 DEF x, y
  <2>5. y = locs[2 * q + 2]
    BY <1>4, <2>2
  <2> HIDE DEF Value, x, y
  <2>6. K[3 * q + 2] = (x \div 256) + 16 * (y % 16) /\ K[3 * q + 3] = y \div 16
    BY <1>5, <2>2, <2>4
  <2>7. ((x \div 256) + 16 * (y % 16)) \div 16 = y % 16
    <3> DEFINE u == x \div 256
               v == y % 16
    <3>1. u \in 0..15 /\ v \in Int
      BY <2>3
    <3> HIDE DEF u, v
    <3>2. (u + 16 * v) \div 16 = v
      BY <3>1
    <3> QED
      BY <3>2 DEF u, v
  <2> QED
    BY <2>2, <2>5, <2>6, <2>7
<1>12. K \in Seq(Byte) /\ Len(K) = size
  <2> HIDE DEF Value
  <2>1. K \in [1..size -> Byte]
    BY <1>5, <1>8
  <2> QED
    BY <1>2, <2>1
<1>13. bits = 16 => Wide(locs, size, K)
  BY <1>9 DEF Wide, n
<1>14. bits = 12 => Narrow(locs, size, K)
  BY <1>10, <1>11 DEF Narrow, n
<1> QED
  BY <1>2, <1>12, <1>13, <1>14 DEF n, K, size

\* parseLocation reads what was packed.
PackedAt(bytes, at, locs, bits) ==
  /\ bits \in {12, 16} /\ locs \in Seq(Nat) /\ at \in Nat
  /\ \A i \in 1..Len(locs) : locs[i] < Fits(bits)
  /\ \A k \in 1..LocBytes(bits, Len(locs)) : bytes[at + k] = Packed(locs, bits)[k]

\* Every location is read as it was packed, 12 bits of it or 16.
LEMMA LocationRead ==
  ASSUME NEW bits, NEW locs, NEW bytes, NEW at, PackedAt(bytes, at, locs, bits), NEW j, j \in 1..Len(locs)
  PROVE  ParseLocation(bytes, at, bits, j - 1) = locs[j]
<1>0. /\ bits \in {12, 16} /\ locs \in Seq(Nat) /\ at \in Nat /\ j \in 1..Len(locs)
      /\ \A i \in 1..Len(locs) : locs[i] < Fits(bits)
      /\ \A k \in 1..LocBytes(bits, Len(locs)) : bytes[at + k] = Packed(locs, bits)[k]
  BY DEF PackedAt
<1> DEFINE n == Len(locs)
           K == Packed(locs, bits)
           size == LocBytes(bits, n)
           b(k) == Nth(bytes, at + k)
           v == locs[j]
<1>1. n \in Nat /\ v \in Nat /\ v < Fits(bits)
  BY <1>0, LenProperties, ElementOfSeq
<1>2. size \in Nat /\ (bits = 16 => Wide(locs, size, K)) /\ (bits = 12 => Narrow(locs, size, K))
  BY <1>0, PackedIs
<1>3. ASSUME NEW k \in Nat, k < size PROVE b(k) = K[k + 1]
  <2>1. k + 1 \in 1..size /\ at + (k + 1) = (at + k) + 1
    BY <1>0, <1>2, <1>3
  <2> QED
    BY <1>0, <2>1 DEF Nth
<1>4. ParseLocation(bytes, at, bits, j - 1) =
        IF bits = 16 THEN b(2 * (j - 1) + 1) * 256 + b(2 * (j - 1))
        ELSE LET t == ((j - 1) \div 2) * 3 IN
             IF (j - 1) % 2 = 0 THEN (b(t + 1) % 16) * 256 + b(t) ELSE b(t + 2) * 16 + b(t + 1) \div 16
  BY DEF ParseLocation
<1>5. j \in 1..n
  BY <1>0
<1> HIDE DEF b, K, size, n, v
<1>6. CASE bits = 16
  <2> DEFINE i == j - 1
  <2>1. i \in 0..n - 1 /\ i + 1 = j /\ 2 * i + 1 \in Nat /\ 2 * i \in Nat /\ (2 * i + 1) + 1 = 2 * i + 2
    BY <1>1, <1>5
  <2>2. 2 * i + 2 <= size /\ K[2 * i + 1] = v % 256 /\ K[2 * i + 2] = v \div 256
    BY <1>2, <1>6, <2>1 DEF v, Wide, n
  <2>3. 2 * i + 1 < size /\ 2 * i < size
    BY <1>2, <2>1, <2>2
  <2>4. b(2 * i) = K[2 * i + 1] /\ b(2 * i + 1) = K[2 * i + 2]
    BY <1>3, <2>1, <2>3
  <2>5. (v \div 256) * 256 + (v % 256) = v
    BY <1>1
  <2> QED
    BY <1>4, <1>6, <2>2, <2>4, <2>5 DEF v
<1>7. CASE bits = 12 /\ (j - 1) % 2 = 0
  <2> DEFINE q == (j - 1) \div 2
  <2>1. q \in Nat /\ 2 * q + 1 = j /\ 2 * q < n
    BY <1>1, <1>5, <1>7
  <2>2. ParseLocation(bytes, at, bits, j - 1) = (b(q * 3 + 1) % 16) * 256 + b(q * 3)
    BY <1>4, <1>7
  <2> HIDE DEF q
  <2>3. 3 * q + 2 <= size /\ K[3 * q + 1] = v % 256 /\ K[3 * q + 2] % 16 = v \div 256
    BY <1>2, <1>7, <2>1 DEF v, Narrow, n
  <2>4. /\ q * 3 + 1 < size /\ q * 3 < size /\ q * 3 \in Nat /\ q * 3 + 1 \in Nat
        /\ q * 3 + 1 = 3 * q + 1 /\ (q * 3 + 1) + 1 = 3 * q + 2
    BY <1>2, <2>1, <2>3
  <2>5. b(q * 3) = K[3 * q + 1] /\ b(q * 3 + 1) = K[3 * q + 2]
    <3>1. b(q * 3) = K[q * 3 + 1] /\ b(q * 3 + 1) = K[(q * 3 + 1) + 1]
      BY <1>3, <2>4
    <3> QED
      BY <2>4, <3>1
  <2>6. (v \div 256) * 256 + (v % 256) = v
    BY <1>1
  <2> QED
    BY <2>2, <2>3, <2>5, <2>6 DEF v
<1>8. CASE bits = 12 /\ (j - 1) % 2 # 0
  <2> DEFINE q == (j - 1) \div 2
  <2>1. q \in Nat /\ 2 * q + 2 = j /\ 2 * q + 1 < n
    BY <1>1, <1>5, <1>8
  <2>2. 3 * q + 3 <= size /\ K[3 * q + 2] \div 16 = v % 16 /\ K[3 * q + 3] = v \div 16
    BY <1>2, <1>8, <2>1 DEF v, Narrow, n
  <2>3. ParseLocation(bytes, at, bits, j - 1) = b(q * 3 + 2) * 16 + b(q * 3 + 1) \div 16
    BY <1>4, <1>8
  <2> HIDE DEF q
  <2>4. /\ q * 3 + 1 < size /\ q * 3 + 2 < size /\ q * 3 + 2 \in Nat /\ q * 3 + 1 \in Nat
        /\ (q * 3 + 1) + 1 = 3 * q + 2 /\ (q * 3 + 2) + 1 = 3 * q + 3
    BY <1>2, <2>1, <2>2
  <2>5. b(q * 3 + 1) = K[3 * q + 2] /\ b(q * 3 + 2) = K[3 * q + 3]
    <3>1. b(q * 3 + 1) = K[(q * 3 + 1) + 1] /\ b(q * 3 + 2) = K[(q * 3 + 2) + 1]
      BY <1>3, <2>4
    <3> QED
      BY <2>4, <3>1
  <2>6. (v \div 16) * 16 + (v % 16) = v
    BY <1>1
  <2> QED
    BY <2>2, <2>3, <2>5, <2>6 DEF v
<1> QED
  BY <1>0, <1>6, <1>7, <1>8

-----------------------------------------------------------------------------
(* The bytes of a PDU. *)

Code(pdu, psd0) == Packed(Locations(pdu, Len(psd0)), Bits(pdu))
PduBytes(pdu, psd0) ==
  [i \in 1..HeaderLen |-> 0] \o Code(pdu, psd0) \o Concat(pdu.hef) \o psd0 \o Concat(Body(pdu))

\* The locations of a PDU fit their bits.
LEMMA LocationsFit ==
  ASSUME NEW pdu, NEW max \in Nat, WellFormed(pdu, max), NEW l \in 0..max
  PROVE  /\ \A j \in 1..Len(Locations(pdu, l)) : Locations(pdu, l)[j] < Fits(Bits(pdu))
         /\ PduLen(pdu, l) > CodewordLen /\ PduLen(pdu, l) <= Fits(Bits(pdu))
<1> DEFINE locs == Locations(pdu, l)
           n == Len(pdu.packets)
           base == HeaderLen + LB(pdu) + HL(pdu)
           bl == BL(pdu)
           fit == Fits(Bits(pdu))
<1>1. PduLen(pdu, max) <= fit /\ PduLen(pdu, 0) > CodewordLen
  BY DEF WellFormed, Fits
<1>2. bl \in Nat /\ HL(pdu) \in Nat /\ LB(pdu) \in Nat /\ HeaderLen \in Nat /\ CodewordLen \in Nat
  BY PduIs
<1>3. base \in Nat
  BY <1>2
<1>4. l \in Nat /\ 0 \in Nat
  OBVIOUS
<1>5. /\ LaLocation(pdu, l) = base + l - 1 /\ PduLen(pdu, l) = LaLocation(pdu, l) + 1 + bl
      /\ LaLocation(pdu, max) = base + max - 1 /\ PduLen(pdu, max) = LaLocation(pdu, max) + 1 + bl
      /\ LaLocation(pdu, 0) = base + 0 - 1 /\ PduLen(pdu, 0) = LaLocation(pdu, 0) + 1 + bl
  BY <1>4, PduLenIs
<1>6. Len(locs) = n /\ \A j \in 1..n : locs[j] \in Nat /\ locs[j] <= LaLocation(pdu, l) + bl
  BY <1>4, LocationsAre
<1> HIDE DEF base, bl, locs, n
<1>7. fit \in Nat
  BY DEF Fits
<1> HIDE DEF fit
<1>8. LaLocation(pdu, l) + bl < fit /\ PduLen(pdu, l) > CodewordLen /\ PduLen(pdu, l) <= fit
      /\ LaLocation(pdu, l) \in Int
  BY <1>1, <1>2, <1>3, <1>5, <1>7
<1>9. ASSUME NEW j \in 1..n PROVE locs[j] < fit
  <2> DEFINE x == locs[j]
             y == LaLocation(pdu, l)
  <2>1. x \in Nat /\ x <= y + bl /\ y + bl < fit /\ y \in Int
    BY <1>6, <1>8
  <2> HIDE DEF x, y
  <2>2. x < fit
    BY <1>2, <1>7, <2>1
  <2> QED
    BY <2>2 DEF x
<1> QED
  BY <1>6, <1>8, <1>9 DEF fit, locs, n

\* Where its parts are.
LEMMA EncodedIs ==
  ASSUME NEW pdu, NEW max \in Nat, WellFormed(pdu, max), NEW psd0 \in Seq(Byte), Len(psd0) \in 0..max
  PROVE  LET e == PduBytes(pdu, psd0)
             l == Len(psd0) IN
         /\ e \in Seq(Byte) /\ Len(e) = PduLen(pdu, l)
         /\ \A k \in 1..LB(pdu) : e[HeaderLen + k] = Code(pdu, psd0)[k]
         /\ \A k \in 1..HL(pdu) : e[HeaderLen + LB(pdu) + k] = Concat(pdu.hef)[k]
         /\ \A k \in 1..l : e[HeaderLen + LB(pdu) + HL(pdu) + k] = psd0[k]
         /\ \A k \in 1..BL(pdu) : e[LaLocation(pdu, l) + 1 + k] = Concat(Body(pdu))[k]
<1> DEFINE l == Len(psd0)
           e == PduBytes(pdu, psd0)
           zeros == [i \in 1..HeaderLen |-> 0]
           code == Code(pdu, psd0)
           hef == Concat(pdu.hef)
           body == Concat(Body(pdu))
           locs == Locations(pdu, l)
<1>1. /\ hef \in Seq(Byte) /\ Len(hef) = HL(pdu) /\ body \in Seq(Byte) /\ Len(body) = BL(pdu)
      /\ LB(pdu) \in Nat /\ HL(pdu) \in Nat /\ BL(pdu) \in Nat /\ HeaderLen \in Nat /\ l \in Nat
      /\ Bits(pdu) \in {12, 16}
  BY PduIs DEF HL, BL
<1>2. zeros \in Seq(Byte) /\ Len(zeros) = HeaderLen
  <2>1. zeros \in [1..HeaderLen -> Byte]
    BY DEF Byte
  <2> HIDE DEF zeros
  <2> QED
    BY <1>1, <2>1
<1>3. code \in Seq(Byte) /\ Len(code) = LB(pdu)
  <2>1. locs \in Seq(Nat) /\ Len(locs) = Len(pdu.packets)
    BY <1>1, LocationsAre
  <2>2. \A j \in 1..Len(locs) : locs[j] < Fits(Bits(pdu))
    BY LocationsFit
  <2>3. Packed(locs, Bits(pdu)) \in Seq(Byte) /\ Len(Packed(locs, Bits(pdu))) = LocBytes(Bits(pdu), Len(locs))
    <3> HIDE DEF locs
    <3> QED
      BY <1>1, <2>1, <2>2, PackedIs
  <2> QED
    BY <2>1, <2>3 DEF Code, LB
<1>4. e = zeros \o code \o hef \o psd0 \o body
  BY DEF PduBytes
<1>5. LaLocation(pdu, l) + 1 = HeaderLen + LB(pdu) + HL(pdu) + l
      /\ PduLen(pdu, l) = HeaderLen + LB(pdu) + HL(pdu) + l + BL(pdu)
  <2>1. /\ LaLocation(pdu, l) = HeaderLen + LB(pdu) + HL(pdu) + l - 1 /\ LaLocation(pdu, l) \in Nat
        /\ PduLen(pdu, l) = LaLocation(pdu, l) + 1 + BL(pdu)
    BY <1>1, PduLenIs
  <2> HIDE DEF l
  <2> QED
    BY <1>1, <2>1
<1> HIDE DEF e, zeros, code, hef, body, l
<1>6. /\ e \in Seq(Byte) /\ Len(e) = Len(zeros) + Len(code) + Len(hef) + Len(psd0) + Len(body)
      /\ \A k \in 1..Len(code) : e[Len(zeros) + k] = code[k]
      /\ \A k \in 1..Len(hef) : e[Len(zeros) + Len(code) + k] = hef[k]
      /\ \A k \in 1..Len(psd0) : e[Len(zeros) + Len(code) + Len(hef) + k] = psd0[k]
      /\ \A k \in 1..Len(body) : e[Len(zeros) + Len(code) + Len(hef) + Len(psd0) + k] = body[k]
  <2>1. zeros \in Seq(Byte) /\ code \in Seq(Byte) /\ hef \in Seq(Byte) /\ body \in Seq(Byte)
    BY <1>1, <1>2, <1>3
  <2> DEFINE s == zeros \o code \o hef \o psd0 \o body
  <2>2. s \in Seq(Byte) /\ FiveJoined(s, zeros, code, hef, psd0, body)
    BY <2>1, FiveParts
  <2>3. e = s
    BY <1>4
  <2> HIDE DEF s
  <2> QED
    BY <2>2, <2>3 DEF FiveJoined
<1> QED
  BY <1>1, <1>2, <1>3, <1>5, <1>6 DEF e, code, hef, body, l

-----------------------------------------------------------------------------
(* The header expansion. *)

HefReading == [at: Nat, more: BOOLEAN, prog: Prog]

\* parseHEF stays within the bytes.
LEMMA HefStepIs ==
  ASSUME NEW bytes \in Seq(Byte), NEW end \in 0..Len(bytes), NEW acc \in HefReading
  PROVE  HefStep(acc, bytes, end) \in HefReading
<1> DEFINE n == Len(bytes)
<1>1. n \in Nat /\ end \in Nat /\ end <= n
  BY LenProperties
<1>2. acc.at \in Nat /\ acc.more \in BOOLEAN /\ acc.prog \in Prog
      /\ acc = [at |-> acc.at, more |-> acc.more, prog |-> acc.prog]
  BY DEF HefReading
<1> HIDE DEF n
<1>3. CASE ~acc.more \/ acc.at >= end
  <2>1. HefStep(acc, bytes, end) = acc \/ HefStep(acc, bytes, end) = [acc EXCEPT !.more = FALSE]
    BY <1>3 DEF HefStep
  <2> QED
    BY <1>2, <2>1 DEF HefReading
<1>4. CASE acc.more /\ ~(acc.at >= end)
  <2> DEFINE b == Nth(bytes, acc.at)
             size == HefField(b)
             fits == acc.at + size <= end
             at2 == IF fits THEN acc.at + size ELSE end
             more2 == fits /\ MoreFields(bytes, acc.at, size)
             prog2 == IF TellsProg(b) THEN ProgTold(b) ELSE acc.prog
  <2>1. HefStep(acc, bytes, end) = [at |-> at2, more |-> more2, prog |-> prog2]
    BY <1>4 DEF HefStep
  <2>2. b \in Byte
    <3>1. acc.at + 1 \in 1..n
      BY <1>1, <1>2, <1>4
    <3> QED
      BY <3>1, ElementOfSeq DEF Nth, n
  <2>3. size \in Nat
    BY DEF HefField
  <2>4. ProgTold(b) \in Prog
    <3> HIDE DEF b
    <3> QED
      BY <2>2 DEF ProgTold, Prog, Byte
  <2>5. at2 \in Nat
    <3> HIDE DEF size
    <3> QED
      BY <1>1, <1>2, <2>3
  <2>6. more2 \in BOOLEAN
    BY DEF MoreFields
  <2>7. prog2 \in Prog
    BY <1>2, <2>4
  <2> HIDE DEF at2, more2, prog2
  <2> QED
    BY <2>1, <2>5, <2>6, <2>7 DEF HefReading
<1> QED
  BY <1>3, <1>4

HefRun(g, bytes, o, end) ==
  /\ g[0] = [at |-> o, more |-> TRUE, prog |-> 0]
  /\ \A j \in 1..Len(bytes) : g[j] = HefStep(g[j - 1], bytes, end)

\* parseHEF as a run over the fields.
LEMMA HefRuns ==
  ASSUME NEW bytes \in Seq(Byte), NEW end \in 0..Len(bytes), NEW o \in Nat
  PROVE  \E g \in [0..Len(bytes) -> HefReading] :
            HefRun(g, bytes, o, end) /\ ParseHEF(bytes, o, end) = g[Len(bytes)]
<1> DEFINE n == Len(bytes)
           A == HefReading
           a == [at |-> o, more |-> TRUE, prog |-> 0]
           Step(x, j) == HefStep(x, bytes, end)
           F == [x \in (1..n) \X A |-> Step(x[2], x[1])]
           Goes(f) == f = [j \in 0..n |-> IF j = 0 THEN a ELSE Step(f[j - 1], j)]
           g == CHOOSE f : Goes(f)
<1>1. n \in Nat
  BY LenProperties
<1>2. a \in A
  BY DEF HefReading, Prog
<1>3. ParseHEF(bytes, o, end) = g[n]
  BY DEF ParseHEF
<1>4. ASSUME NEW x \in A, NEW j \in 1..n PROVE Step(x, j) \in A
  BY HefStepIs
<1> HIDE DEF n, A, a, Step
<1>5. F \in [(1..n) \X A -> A]
  BY <1>4
<1>6. PICK f \in [0..n -> A] : Recurs(f, n, a, F)
  <2> HIDE DEF F
  <2> QED
    BY <1>1, <1>2, <1>5, Recursion
<1>7. ASSUME NEW i \in 1..n PROVE f[i] = Step(f[i - 1], i)
  <2>1. i - 1 \in 0..n /\ f[i - 1] \in A
    BY <1>1
  <2> QED
    BY <1>6, <2>1 DEF Recurs
<1>8. Goes(f)
  BY <1>1, <1>6, <1>7 DEF Recurs
<1> HIDE DEF g
<1>9. Goes(g)
  BY <1>8 DEF g
<1>10. g[0] = a /\ \A j \in 1..n : g[j] = Step(g[j - 1], j)
  BY <1>1, <1>9
<1> DEFINE T == {j \in 0..n : g[j] \in A}
<1>11. 0..n \subseteq T
  <2>1. 0 \in T
    BY <1>1, <1>2, <1>10
  <2>2. ASSUME NEW j \in 0..n - 1, j \in T PROVE j + 1 \in T
    <3>1. j + 1 \in 1..n /\ (j + 1) - 1 = j /\ j + 1 \in 0..n /\ g[j] \in A
      BY <1>1, <2>2
    <3>2. g[j + 1] = Step(g[j], j + 1)
      BY <1>10, <3>1
    <3> QED
      BY <1>4, <3>1, <3>2
  <2> HIDE DEF T
  <2> QED
    BY <1>1, <2>1, <2>2, Inductive
<1>12. g \in [0..n -> A]
  BY <1>1, <1>9, <1>11
<1> QED
  BY <1>3, <1>10, <1>12 DEF n, A, a, Step, HefRun

\* A header expansion as a station sends it is read as it is.
LEMMA HefRead ==
  ASSUME NEW hef \in Seq(Seq(Byte)), hef # << >>, FieldsRight(hef), NEW prog, ProgRight(hef, prog),
         NEW bytes \in Seq(Byte), NEW end \in 0..Len(bytes), NEW o \in Nat,
         o + Len(Concat(hef)) <= end,
         \A k \in 1..Len(Concat(hef)) : bytes[o + k] = Concat(hef)[k]
  PROVE  ParseHEF(bytes, o, end).at = o + Len(Concat(hef)) /\ ParseHEF(bytes, o, end).prog = prog
<1> DEFINE n == Len(bytes)
           m == Len(hef)
           C == Concat(hef)
           h == Len(C)
           S(j) == Len(Prefixes(hef)[j])
           size(j) == Len(hef[j])
<1>1. PICK g \in [0..n -> HefReading] : HefRun(g, bytes, o, end) /\ ParseHEF(bytes, o, end) = g[n]
  BY HefRuns
<1>2. n \in Nat /\ m \in Nat \ {0} /\ h \in Nat /\ end \in Nat /\ end <= n /\ o + h <= end
  <2>1. n \in Nat
    BY LenProperties
  <2>2. m \in Nat \ {0}
    BY EmptySeq
  <2>3. C \in Seq(Byte)
    BY ConcatIs
  <2>4. h \in Nat
    BY <2>3, LenProperties
  <2> QED
    BY <2>1, <2>2, <2>4
<1>3. PICK w \in 0..m :
        /\ \A l \in w + 1..m : ~TellsProg(hef[l][1])
        /\ IF w = 0 THEN prog = 0 ELSE TellsProg(hef[w][1]) /\ ProgTold(hef[w][1]) = prog
  BY DEF ProgRight
<1>4. S(0) = 0 /\ S(m) = h
  <2>1. Prefixes(hef)[0] = << >>
    BY PrefixesAre
  <2> QED
    BY <2>1 DEF Concat
<1>5. ASSUME NEW j \in 1..m
      PROVE  /\ S(j - 1) \in Nat /\ size(j) \in Nat \ {0} /\ S(j) = S(j - 1) + size(j) /\ S(j) <= h
             /\ \A k \in 1..size(j) : C[S(j - 1) + k] = hef[j][k]
             /\ size(j) = HefField(hef[j][1]) /\ (hef[j][size(j)] >= 128 <=> j < m)
  <2>1. /\ hef[j] \in Seq(Byte) /\ Starts(hef, j) \in Nat
        /\ Starts(hef, j) + Len(hef[j]) = Len(Prefixes(hef)[j])
        /\ Starts(hef, j) + Len(hef[j]) <= Len(Concat(hef))
        /\ \A k \in 1..Len(hef[j]) : Concat(hef)[Starts(hef, j) + k] = hef[j][k]
    BY ConcatAt
  <2>2. hef[j] # << >> /\ Len(hef[j]) = HefField(hef[j][1]) /\ (hef[j][Len(hef[j])] >= 128 <=> j < Len(hef))
    BY DEF FieldsRight
  <2>3. size(j) \in Nat \ {0}
    BY <2>1, <2>2, EmptySeq
  <2> QED
    BY <2>1, <2>2, <2>3 DEF Starts
<1> HIDE DEF n, m, C, h, S, size
<1> DEFINE ReadTo(j) == /\ g[j].at = o + S(j) /\ (g[j].more <=> j < m)
                        /\ (j >= w => g[j].prog = prog)
                        /\ j <= S(j) /\ S(j) \in Nat
           T == {j \in 0..m : j <= n /\ ReadTo(j)}
<1>6. 0 \in T
  <2>1. g[0] = [at |-> o, more |-> TRUE, prog |-> 0]
    BY <1>1 DEF HefRun
  <2>2. g[0].at = o + S(0) /\ (g[0].more <=> 0 < m) /\ (0 >= w => g[0].prog = prog)
    BY <1>2, <1>3, <1>4, <2>1
  <2> QED
    BY <1>2, <1>4, <2>2
<1>7. ASSUME NEW j \in 0..m - 1, j \in T PROVE j + 1 \in T
  <2> DEFINE i == j + 1
             s == S(j)
             z == size(i)
             acc == g[j]
  <2>1. i \in 1..m /\ i - 1 = j /\ j \in Nat
    BY <1>2
  <2>2. /\ s \in Nat /\ z \in Nat \ {0} /\ S(i) = s + z /\ s + z <= h
        /\ \A k \in 1..z : C[s + k] = hef[i][k]
        /\ z = HefField(hef[i][1]) /\ (hef[i][z] >= 128 <=> i < m)
    BY <1>5, <2>1
  <2>3. acc.at = o + s /\ acc.more /\ (j >= w => acc.prog = prog) /\ j <= s
    <3>1. ReadTo(j)
      BY <1>7
    <3>2. j < m
      BY <1>2
    <3> QED
      BY <3>1, <3>2
  <2> HIDE DEF s, z, acc, i
  <2>4. i <= s + z /\ s + z <= n /\ i <= n /\ i \in 1..n /\ acc.at \in Nat /\ ~(acc.at >= end)
        /\ acc.at + z <= end /\ acc.at + z = o + (s + z)
    BY <1>2, <2>1, <2>2, <2>3 DEF i
  <2>5. Nth(bytes, acc.at) = hef[i][1]
    <3>1. 1 \in 1..z /\ s + 1 \in 1..h /\ acc.at + 1 = o + (s + 1)
      BY <1>2, <2>2, <2>3
    <3>2. bytes[o + (s + 1)] = C[s + 1]
      BY <3>1 DEF C, h
    <3>3. C[s + 1] = hef[i][1]
      BY <2>2, <3>1
    <3> QED
      BY <3>1, <3>2, <3>3 DEF Nth
  <2>6. Nth(bytes, acc.at + z - 1) = hef[i][z]
    <3>1. z \in 1..z /\ s + z \in 1..h /\ (acc.at + z - 1) + 1 = o + (s + z)
      <4> DEFINE a == acc.at
      <4>1. a \in Nat /\ a = o + s
        BY <2>3, <2>4
      <4> HIDE DEF a
      <4>3. z \in Nat /\ z >= 1 /\ s \in Nat /\ s + z <= h /\ h \in Nat /\ a \in Nat /\ a = o + s
        BY <1>2, <2>2, <4>1
      <4>4. (a + z - 1) + 1 = o + (s + z)
        BY <4>3
      <4>2. z \in 1..z /\ s + z \in 1..h /\ (a + z - 1) + 1 = o + (s + z)
        BY <4>3, <4>4
      <4> QED
        BY <4>2 DEF a
    <3>2. bytes[o + (s + z)] = C[s + z]
      BY <3>1 DEF C, h
    <3>3. C[s + z] = hef[i][z]
      BY <2>2, <3>1
    <3> QED
      BY <3>1, <3>2, <3>3 DEF Nth
  <2>7. g[i] = HefStep(acc, bytes, end)
    BY <1>1, <2>1, <2>4 DEF HefRun, n, acc
  <2> DEFINE b == Nth(bytes, acc.at)
             fits == acc.at + HefField(b) <= end
             at2 == IF fits THEN acc.at + HefField(b) ELSE end
             more2 == fits /\ MoreFields(bytes, acc.at, HefField(b))
             prog2 == IF TellsProg(b) THEN ProgTold(b) ELSE acc.prog
  <2>8. HefStep(acc, bytes, end) = [at |-> at2, more |-> more2, prog |-> prog2]
    BY <2>3, <2>4 DEF HefStep
  <2>9. b = hef[i][1] /\ HefField(b) = z
    BY <2>2, <2>5
  <2>10. at2 = o + (s + z)
    BY <2>4, <2>9
  <2>11. more2 <=> i < m
    BY <2>2, <2>4, <2>6, <2>9 DEF MoreFields
  <2>12. i >= w => prog2 = prog
    <3>1. CASE j >= w
      <4>1. i \in w + 1..m
        BY <1>3, <2>1, <3>1
      <4>2. ~TellsProg(b)
        BY <1>3, <2>9, <4>1
      <4> QED
        BY <2>3, <3>1, <4>2
    <3>2. CASE i = w
      <4>1. w # 0
        BY <2>1, <3>2
      <4> QED
        BY <1>3, <2>9, <3>2, <4>1
    <3>3. i >= w => i = w \/ j >= w
      BY <1>3, <2>1
    <3> QED
      BY <3>1, <3>2, <3>3
  <2> HIDE DEF at2, more2, prog2
  <2>13. g[i].at = o + (s + z) /\ (g[i].more <=> i < m) /\ (i >= w => g[i].prog = prog)
    BY <2>7, <2>8, <2>10, <2>11, <2>12
  <2>14. S(i) \in Nat /\ i <= S(i) /\ i \in 0..m
    <3>1. s + z \in Nat /\ i <= s + z /\ i \in 0..m
      BY <1>2, <2>1, <2>2, <2>4
    <3> QED
      BY <2>2, <3>1
  <2>15. i \in T
    BY <2>2, <2>4, <2>13, <2>14
  <2> QED
    BY <2>15 DEF i
<1>8. 0..m \subseteq T
  <2> HIDE DEF T
  <2> QED
    BY <1>2, <1>6, <1>7, Inductive
<1>9. m \in 0..m /\ m <= n /\ ReadTo(m)
  BY <1>2, <1>8
<1> DEFINE U == {j \in 0..n : j >= m => g[j].at = o + h /\ ~g[j].more /\ g[j].prog = prog}
<1>10. 0 \in U
  BY <1>2
<1>11. ASSUME NEW j \in 0..n - 1, j \in U PROVE j + 1 \in U
  <2>1. j + 1 \in 1..n /\ (j + 1) - 1 = j /\ j \in Nat /\ j + 1 \in 0..n
    BY <1>2
  <2>2. CASE j >= m
    <3>1. ~g[j].more /\ g[j].at = o + h /\ g[j].prog = prog
      BY <1>11, <2>2
    <3>2. g[j + 1] = HefStep(g[j], bytes, end)
      BY <1>1, <2>1 DEF HefRun, n
    <3>3. g[j + 1] = g[j]
      BY <3>1, <3>2 DEF HefStep
    <3> QED
      BY <2>1, <3>1, <3>3
  <2>3. CASE j + 1 = m
    <3>1. g[j + 1].at = o + h /\ ~g[j + 1].more /\ g[j + 1].prog = prog
      <4>1. m >= w /\ ~(m < m)
        BY <1>2, <1>3
      <4>2. g[m].at = o + h /\ ~g[m].more /\ g[m].prog = prog
        BY <1>4, <1>9, <4>1
      <4> QED
        BY <2>3, <4>2
    <3> QED
      BY <2>1, <3>1
  <2>4. CASE ~(j + 1 >= m)
    BY <2>1, <2>4
  <2>5. j >= m \/ j + 1 = m \/ ~(j + 1 >= m)
    BY <1>2, <2>1
  <2> QED
    BY <2>2, <2>3, <2>4, <2>5
<1>12. 0..n \subseteq U
  <2> HIDE DEF U
  <2> QED
    BY <1>2, <1>10, <1>11, Inductive
<1>13. g[n].at = o + h /\ g[n].prog = prog
  <2>1. n \in 0..n /\ n >= m
    BY <1>2, <1>9
  <2>2. n \in U
    BY <1>12, <2>1
  <2> QED
    BY <2>1, <2>2
<1> QED
  BY <1>1, <1>13 DEF h, C

-----------------------------------------------------------------------------
(* PDUs in a frame. *)

HeaderOf(pdu, l, o) ==
  [at |-> o, codec |-> pdu.codec, stream |-> pdu.stream, nop |-> Len(pdu.packets),
   hef |-> pdu.hef # << >>, la |-> LaLocation(pdu, l)]
Stretch(pdu, l, o, j) ==
  <<o + Locations(pdu, l)[j] - Len(pdu.packets[j]), o + Locations(pdu, l)[j]>>

\* The bytes, header and packets of a PDU.
LEMMA EncodedParts ==
  ASSUME NEW pdu, NEW max \in Nat, WellFormed(pdu, max), NEW psd0 \in Seq(Byte), Len(psd0) \in 0..max,
         NEW o, NEW bad
  PROVE  LET e == Encoded(pdu, psd0, o, bad)
             l == Len(psd0) IN
         /\ e.bytes = PduBytes(pdu, psd0) /\ e.header = HeaderOf(pdu, l, o)
         /\ e.packets = {Stretch(pdu, l, o, j) : j \in (1..Len(pdu.packets)) \ bad}
<1> DEFINE l == Len(psd0)
           locs == Locations(pdu, l)
           e == Encoded(pdu, psd0, o, bad)
<1>1. e = [bytes   |-> PduBytes(pdu, psd0),
           header  |-> [at |-> o, codec |-> pdu.codec, stream |-> pdu.stream,
                        nop |-> Len(locs), hef |-> pdu.hef # << >>, la |-> LaLocation(pdu, l)],
           packets |-> {<<o + locs[j] - Len(pdu.packets[j]), o + locs[j]>> : j \in DOMAIN locs \ bad}]
  BY DEF Encoded, PduBytes, Code
<1>2. Len(locs) = Len(pdu.packets) /\ DOMAIN locs = 1..Len(pdu.packets)
  <2>1. l \in Nat
    BY LenProperties
  <2>2. Len(locs) = Len(pdu.packets)
    <3> HIDE DEF l
    <3> QED
      BY <2>1, LocationsAre
  <2>3. DOMAIN locs = 1..Len(pdu.packets)
    BY DEF Locations
  <2> QED
    BY <2>2, <2>3
<1> HIDE DEF e, locs
<1>3. e.header = HeaderOf(pdu, l, o)
  BY <1>1, <1>2 DEF HeaderOf
<1>4. e.packets = {Stretch(pdu, l, o, j) : j \in (1..Len(pdu.packets)) \ bad}
  BY <1>1, <1>2 DEF Stretch, locs
<1> QED
  BY <1>1, <1>3, <1>4 DEF e

\* Headers and packets lie within the bytes.
FrameRight(f) ==
  /\ f.bytes \in Seq(Byte)
  /\ \A h \in f.headers : h.at \in 0..Len(f.bytes) - 1
  /\ \A p \in f.packets : p[2] \in 0..Len(f.bytes) - 1

\* f2 is f with something behind it.
Grown(f, f2) ==
  /\ Len(f.bytes) <= Len(f2.bytes) /\ \A k \in 1..Len(f.bytes) : f2.bytes[k] = f.bytes[k]
  /\ f.headers \subseteq f2.headers /\ \A h \in f2.headers \ f.headers : h.at \in Nat /\ h.at >= Len(f.bytes)
  /\ f.packets \subseteq f2.packets /\ \A p \in f2.packets \ f.packets : p[2] >= Len(f.bytes)

\* The PDU is in the frame at offset o.
Lies(f, o, pdu, psd0, bad, lost) ==
  LET l == Len(psd0) IN
  /\ o \in Nat /\ o + PduLen(pdu, l) <= Len(f.bytes)
  /\ \A k \in 1..PduLen(pdu, l) : f.bytes[o + k] = PduBytes(pdu, psd0)[k]
  /\ {h \in f.headers : h.at = o} = IF lost THEN {} ELSE {HeaderOf(pdu, l, o)}
  /\ \A h \in f.headers : h.at \in Nat /\ (h.at <= o \/ h.at >= o + PduLen(pdu, l))
  /\ \A j \in 1..Len(pdu.packets) : Stretch(pdu, l, o, j) \in f.packets <=> j \notin bad

\* Where the packets end: each in the PDU, and in different places.
LEMMA StretchesApart ==
  ASSUME NEW pdu, NEW max \in Nat, WellFormed(pdu, max), NEW l \in 0..max, NEW o \in Nat
  PROVE  /\ \A j \in 1..Len(pdu.packets) :
              /\ Stretch(pdu, l, o, j)[2] \in Nat /\ Stretch(pdu, l, o, j)[2] >= o
              /\ Stretch(pdu, l, o, j)[2] < o + PduLen(pdu, l)
         /\ \A i, j \in 1..Len(pdu.packets) : Stretch(pdu, l, o, i) = Stretch(pdu, l, o, j) => i = j
<1> DEFINE n == Len(pdu.packets)
           locs == Locations(pdu, l)
           B == Body(pdu)
           la == LaLocation(pdu, l)
           S(j) == Len(Prefixes(B)[j])
           q == PduLen(pdu, l)
<1>1. /\ n \in Nat /\ B \in Seq(Seq(Byte)) /\ Len(B) = n /\ BL(pdu) \in Nat
  BY PduIs
<1>2. l \in Nat /\ la \in Nat /\ q = la + 1 + BL(pdu) /\ q \in Nat
  BY PduLenIs
<1>3. \A j \in 1..n :
        /\ locs[j] \in Nat /\ locs[j] <= la + BL(pdu)
        /\ Starts(B, j) \in Nat /\ Len(pdu.packets[j]) \in Nat
        /\ locs[j] = la + Starts(B, j) + Len(pdu.packets[j]) + 1
  <2> SUFFICES ASSUME NEW j \in 1..n
               PROVE  /\ locs[j] \in Nat /\ locs[j] <= la + BL(pdu)
                      /\ Starts(B, j) \in Nat /\ Len(pdu.packets[j]) \in Nat
                      /\ locs[j] = la + Starts(B, j) + Len(pdu.packets[j]) + 1
    OBVIOUS
  <2>1. /\ locs[j] \in Nat /\ locs[j] <= la + BL(pdu)
        /\ Before(pdu, l, j) = la + Starts(B, j) /\ Starts(B, j) \in Nat
        /\ locs[j] = Before(pdu, l, j) + Len(pdu.packets[j]) + 1
    BY <1>2, LocationsAre
  <2>2. Len(pdu.packets[j]) \in Nat
    BY PduIs
  <2> QED
    BY <2>1, <2>2
<1>4. \A j \in 1..n : Starts(B, j) + Len(pdu.packets[j]) + 1 = S(j)
  <2> SUFFICES ASSUME NEW j \in 1..n PROVE Starts(B, j) + Len(pdu.packets[j]) + 1 = S(j)
    OBVIOUS
  <2>1. Starts(B, j) + Len(B[j]) = S(j)
    <3> HIDE DEF B
    <3> QED
      BY <1>1, ConcatAt
  <2>2. Len(B[j]) = Len(pdu.packets[j]) + 1 /\ Len(pdu.packets[j]) \in Nat
    BY PduIs
  <2>3. Starts(B, j) \in Nat
    BY <1>3
  <2> DEFINE x == Starts(B, j)
             y == Len(pdu.packets[j])
             z == Len(B[j])
  <2>4. x \in Nat /\ y \in Nat /\ z = y + 1 /\ x + z = S(j)
    BY <2>1, <2>2, <2>3
  <2> HIDE DEF x, y, z, S
  <2>5. x + y + 1 = S(j)
    BY <2>4
  <2> QED
    BY <2>5 DEF x, y
<1>5. ASSUME NEW i \in 1..n, NEW j \in 1..n, i < j PROVE S(i) <= Starts(B, j)
  <2>1. i \in 0..n /\ j - 1 \in i..n
    BY <1>1, <1>5
  <2> HIDE DEF B
  <2>2. Len(Prefixes(B)[i]) <= Len(Prefixes(B)[j - 1])
    BY <1>1, <2>1, PrefixKeeps
  <2> QED
    BY <2>2 DEF Starts
<1> HIDE DEF n, locs, B, la, q
<1>6. ASSUME NEW i \in 1..n, NEW j \in 1..n, i < j PROVE locs[i] < locs[j]
  <2> DEFINE xi == Starts(B, i)
             yi == Len(pdu.packets[i])
             si == S(i)
             xj == Starts(B, j)
             yj == Len(pdu.packets[j])
  <2>1. /\ xi \in Nat /\ yi \in Nat /\ xj \in Nat /\ yj \in Nat /\ xi + yi + 1 = si /\ si <= xj
        /\ locs[i] = la + xi + yi + 1 /\ locs[j] = la + xj + yj + 1
    BY <1>3, <1>4, <1>5, <1>6
  <2> HIDE DEF xi, yi, si, xj, yj
  <2>2. la + xi + yi + 1 < la + xj + yj + 1
    BY <1>2, <2>1
  <2> QED
    BY <2>1, <2>2
<1>7. \A j \in 1..n : Stretch(pdu, l, o, j)[2] = o + locs[j]
  BY DEF Stretch, locs
<1>8. ASSUME NEW j \in 1..n
      PROVE  /\ Stretch(pdu, l, o, j)[2] \in Nat /\ Stretch(pdu, l, o, j)[2] >= o
             /\ Stretch(pdu, l, o, j)[2] < o + q
  <2> DEFINE x == locs[j]
  <2>1. x \in Nat /\ x <= la + BL(pdu)
    BY <1>3
  <2>2. Stretch(pdu, l, o, j)[2] = o + x
    BY <1>7
  <2> HIDE DEF x
  <2>3. o + x \in Nat /\ o + x >= o /\ o + x < o + q
    BY <1>1, <1>2, <2>1
  <2> QED
    BY <2>2, <2>3
<1>9. ASSUME NEW i \in 1..n, NEW j \in 1..n, Stretch(pdu, l, o, i) = Stretch(pdu, l, o, j) PROVE i = j
  <2> DEFINE x == locs[i]
             y == locs[j]
  <2>1. o + x = o + y /\ x \in Nat /\ y \in Nat
    BY <1>3, <1>7, <1>9
  <2>2. i < j => x < y
    BY <1>6
  <2>3. j < i => y < x
    BY <1>6
  <2> HIDE DEF x, y
  <2> QED
    BY <1>1, <2>1, <2>2, <2>3
<1> QED
  BY <1>8, <1>9 DEF n, q

\* What is behind it does not touch a PDU.
LEMMA StaysThere ==
  ASSUME NEW f, NEW f2, Grown(f, f2), NEW pdu, NEW max \in Nat, WellFormed(pdu, max),
         NEW psd0 \in Seq(Byte), Len(psd0) \in 0..max, NEW o, NEW bad, NEW lost,
         Lies(f, o, pdu, psd0, bad, lost), Len(f.bytes) \in Nat, Len(f2.bytes) \in Nat
  PROVE  Lies(f2, o, pdu, psd0, bad, lost)
<1> DEFINE l == Len(psd0)
           q == PduLen(pdu, l)
           m == Len(f.bytes)
           m2 == Len(f2.bytes)
<1>1. o \in Nat /\ q \in Nat \ {0} /\ m \in Nat /\ m2 \in Nat /\ o + q <= m /\ m <= m2
  <2>1. q \in Nat
    BY PduLenIs
  <2>2. q > CodewordLen /\ CodewordLen \in Nat
    BY LocationsFit, PduIs
  <2>3. o \in Nat /\ o + q <= m /\ m <= m2
    BY DEF Lies, Grown
  <2> HIDE DEF q, m, m2
  <2>4. q # 0
    BY <2>1, <2>2
  <2> QED
    BY <2>1, <2>3, <2>4 DEF m, m2
<1>2. /\ \A k \in 1..q : f.bytes[o + k] = PduBytes(pdu, psd0)[k]
      /\ {h \in f.headers : h.at = o} = IF lost THEN {} ELSE {HeaderOf(pdu, l, o)}
      /\ \A h \in f.headers : h.at \in Nat /\ (h.at <= o \/ h.at >= o + q)
      /\ \A j \in 1..Len(pdu.packets) : Stretch(pdu, l, o, j) \in f.packets <=> j \notin bad
  BY DEF Lies
<1>3. /\ \A k \in 1..m : f2.bytes[k] = f.bytes[k]
      /\ f.headers \subseteq f2.headers /\ \A h \in f2.headers \ f.headers : h.at \in Nat /\ h.at >= m
      /\ f.packets \subseteq f2.packets /\ \A p \in f2.packets \ f.packets : p[2] >= m
  BY DEF Grown
<1>4. \A j \in 1..Len(pdu.packets) : Stretch(pdu, l, o, j)[2] \in Nat /\ Stretch(pdu, l, o, j)[2] < o + q
  BY <1>1, StretchesApart
<1> HIDE DEF l, q, m, m2
<1>5. ASSUME NEW k \in 1..q PROVE f2.bytes[o + k] = PduBytes(pdu, psd0)[k]
  <2>1. o + k \in 1..m
    BY <1>1
  <2> QED
    BY <1>2, <1>3, <2>1
<1>6. ASSUME NEW h \in f2.headers
      PROVE  /\ h.at \in Nat
             /\ h.at <= o \/ h.at >= o + q
             /\ h.at = o => h \in f.headers
  <2>1. CASE h \in f.headers
    BY <1>2, <2>1
  <2>2. CASE h \notin f.headers
    <3> DEFINE x == h.at
    <3>1. x \in Nat /\ x >= m
      BY <1>3, <2>2
    <3> HIDE DEF x
    <3>2. x >= o + q /\ x # o
      BY <1>1, <3>1
    <3> QED
      BY <3>1, <3>2 DEF x
  <2> QED
    BY <2>1, <2>2
<1>7. {h \in f2.headers : h.at = o} = {h \in f.headers : h.at = o}
  BY <1>3, <1>6
<1>8. ASSUME NEW j \in 1..Len(pdu.packets)
      PROVE  Stretch(pdu, l, o, j) \in f2.packets <=> Stretch(pdu, l, o, j) \in f.packets
  <2> DEFINE p == Stretch(pdu, l, o, j)
             x == p[2]
  <2>1. x \in Nat /\ x < o + q
    BY <1>4
  <2>2. p \in f2.packets \ f.packets => x >= m
    BY <1>3
  <2> HIDE DEF p, x
  <2>3. ~(x >= m)
    BY <1>1, <2>1
  <2>4. p \in f2.packets <=> p \in f.packets
    BY <1>3, <2>2, <2>3
  <2> QED
    BY <2>4 DEF p
<1>9. o + q <= m2
  BY <1>1
<1>10. \A j \in 1..Len(pdu.packets) : Stretch(pdu, l, o, j) \in f2.packets <=> j \notin bad
  BY <1>2, <1>8
<1>11. {h \in f2.headers : h.at = o} = IF lost THEN {} ELSE {HeaderOf(pdu, l, o)}
  BY <1>2, <1>7
<1>12. \A h \in f2.headers : h.at \in Nat /\ (h.at <= o \/ h.at >= o + q)
  BY <1>6, Zenon
<1> QED
  BY <1>1, <1>5, <1>9, <1>10, <1>11, <1>12 DEF Lies, l, q, m2

\* Growing is transitive.
LEMMA GrownOn ==
  ASSUME NEW f, NEW f2, NEW f3, Grown(f, f2), Grown(f2, f3),
         Len(f.bytes) \in Nat, Len(f2.bytes) \in Nat, Len(f3.bytes) \in Nat,
         \A p \in f3.packets : p[2] \in Nat
  PROVE  Grown(f, f3)
<1> DEFINE m == Len(f.bytes)
           m2 == Len(f2.bytes)
           m3 == Len(f3.bytes)
<1>1. m \in Nat /\ m2 \in Nat /\ m3 \in Nat /\ m <= m2 /\ m2 <= m3
  BY DEF Grown
<1>2. /\ \A k \in 1..m : f2.bytes[k] = f.bytes[k]
      /\ f.headers \subseteq f2.headers /\ \A h \in f2.headers \ f.headers : h.at \in Nat /\ h.at >= m
      /\ f.packets \subseteq f2.packets /\ \A p \in f2.packets \ f.packets : p[2] >= m
      /\ \A k \in 1..m2 : f3.bytes[k] = f2.bytes[k]
      /\ f2.headers \subseteq f3.headers /\ \A h \in f3.headers \ f2.headers : h.at \in Nat /\ h.at >= m2
      /\ f2.packets \subseteq f3.packets /\ \A p \in f3.packets \ f2.packets : p[2] >= m2
  BY DEF Grown
<1> HIDE DEF m, m2, m3
<1>3. ASSUME NEW k \in 1..m PROVE f3.bytes[k] = f.bytes[k]
  <2>1. k \in 1..m2
    BY <1>1
  <2> QED
    BY <1>2, <2>1
<1>4. ASSUME NEW h \in f3.headers \ f.headers PROVE h.at \in Nat /\ h.at >= m
  <2>1. CASE h \in f2.headers
    BY <1>2, <2>1
  <2>2. CASE h \notin f2.headers
    <3> DEFINE x == h.at
    <3>1. x \in Nat /\ x >= m2
      BY <1>2, <2>2
    <3> HIDE DEF x
    <3>2. x >= m
      BY <1>1, <3>1
    <3> QED
      BY <3>1, <3>2 DEF x
  <2> QED
    BY <2>1, <2>2
<1>5. ASSUME NEW p \in f3.packets \ f.packets PROVE p[2] >= m
  <2>1. CASE p \in f2.packets
    BY <1>2, <2>1
  <2>2. CASE p \notin f2.packets
    <3> DEFINE x == p[2]
    <3>1. x \in Nat /\ x >= m2
      BY <1>2, <2>2
    <3> HIDE DEF x
    <3>2. x >= m
      BY <1>1, <3>1
    <3> QED
      BY <3>1, <3>2 DEF x
  <2> QED
    BY <2>1, <2>2
<1>6. f.headers \subseteq f3.headers /\ f.packets \subseteq f3.packets /\ m <= m3
  BY <1>1, <1>2
<1> QED
  BY <1>3, <1>4, <1>5, <1>6 DEF Grown, m, m3

\* A PDU more in a frame.
LEMMA PduAdded ==
  ASSUME NEW f, FrameRight(f), NEW pdu, NEW max \in Nat, WellFormed(pdu, max),
         NEW psd0 \in Seq(Byte), Len(psd0) \in 0..max, NEW bad, NEW lost \in BOOLEAN
  PROVE  LET f2 == WithPdu(f, pdu, psd0, bad, lost) IN
         /\ FrameRight(f2) /\ Grown(f, f2) /\ Len(f2.bytes) = Len(f.bytes) + PduLen(pdu, Len(psd0))
         /\ Lies(f2, Len(f.bytes), pdu, psd0, bad, lost)
<1> DEFINE l == Len(psd0)
           q == PduLen(pdu, l)
           o == Len(f.bytes)
           e == Encoded(pdu, psd0, o, bad)
           b == PduBytes(pdu, psd0)
           h0 == HeaderOf(pdu, l, o)
           n == Len(pdu.packets)
           P == {Stretch(pdu, l, o, j) : j \in (1..n) \ bad}
           f2 == WithPdu(f, pdu, psd0, bad, lost)
<1>1. e.bytes = b /\ e.header = h0 /\ e.packets = P
  BY EncodedParts
<1>2. f2.bytes = f.bytes \o b /\ f2.headers = (IF lost THEN f.headers ELSE f.headers \cup {h0})
      /\ f2.packets = f.packets \cup P
  <2>1. f2 = [bytes |-> f.bytes \o e.bytes,
              headers |-> IF lost THEN f.headers ELSE f.headers \cup {e.header},
              packets |-> f.packets \cup e.packets]
    BY DEF WithPdu
  <2> HIDE DEF e, b, h0, P, f2
  <2> QED
    BY <1>1, <2>1
<1>3. b \in Seq(Byte) /\ Len(b) = q
  BY EncodedIs
<1>4. q \in Nat \ {0}
  <2>1. q \in Nat
    BY PduLenIs
  <2>2. q > CodewordLen /\ CodewordLen \in Nat
    BY LocationsFit, PduIs
  <2> HIDE DEF q
  <2> QED
    BY <2>1, <2>2
<1>5. /\ f2.bytes \in Seq(Byte) /\ o \in Nat /\ Len(f2.bytes) = o + q
      /\ \A k \in 1..o : f2.bytes[k] = f.bytes[k]
      /\ \A k \in 1..q : f2.bytes[o + k] = b[k]
  <2>1. f.bytes \in Seq(Byte)
    BY DEF FrameRight
  <2> DEFINE a == f.bytes
  <2> HIDE DEF a, b, f2, q
  <2>2. /\ a \o b \in Seq(Byte) /\ Len(a) \in Nat /\ Len(a \o b) = Len(a) + Len(b)
        /\ \A k \in 1..Len(a) : (a \o b)[k] = a[k]
        /\ \A k \in 1..Len(b) : (a \o b)[Len(a) + k] = b[k]
    <3>1. a \in Seq(Byte) /\ b \in Seq(Byte)
      BY <1>3, <2>1 DEF a
    <3> QED
      BY <3>1, JoinIs
  <2> QED
    BY <1>2, <1>3, <2>2 DEF a
<1>6. h0.at = o
  BY DEF HeaderOf
<1>7. /\ \A j \in 1..n : Stretch(pdu, l, o, j)[2] \in Nat /\ Stretch(pdu, l, o, j)[2] >= o
                         /\ Stretch(pdu, l, o, j)[2] < o + q
      /\ \A i, j \in 1..n : Stretch(pdu, l, o, i) = Stretch(pdu, l, o, j) => i = j
  BY <1>5, StretchesApart
<1>8. /\ \A h \in f.headers : h.at \in 0..o - 1
      /\ \A p \in f.packets : p[2] \in 0..o - 1
  BY DEF FrameRight
<1> DEFINE S(j) == Stretch(pdu, l, o, j)
<1>9. P = {S(j) : j \in (1..n) \ bad}
  OBVIOUS
<1>10. \A j \in 1..n : S(j)[2] \in Nat /\ S(j)[2] >= o /\ S(j)[2] < o + q
  BY <1>7
<1>11. \A i, j \in 1..n : S(i) = S(j) => i = j
  BY <1>7
<1> HIDE DEF l, q, e, b, h0, n, P, f2, S
<1>12. \A p \in P : p[2] \in Nat /\ p[2] >= o /\ p[2] < o + q
  BY <1>9, <1>10
<1>13. \A h \in f2.headers : h.at \in 0..(o + q) - 1 /\ (h \notin f.headers => h = h0)
  <2> SUFFICES ASSUME NEW h \in f2.headers
               PROVE h.at \in 0..(o + q) - 1 /\ (h \notin f.headers => h = h0)
    OBVIOUS
  <2>1. CASE h \in f.headers
    <3> DEFINE x == h.at
    <3>1. x \in 0..o - 1
      BY <1>8, <2>1
    <3> HIDE DEF x, o
    <3>2. x \in 0..(o + q) - 1
      BY <1>4, <1>5, <3>1
    <3> QED
      BY <2>1, <3>2 DEF x
  <2>2. CASE h \notin f.headers
    <3>1. h = h0
      BY <1>2, <2>2
    <3> HIDE DEF o
    <3>2. o \in 0..(o + q) - 1
      BY <1>4, <1>5
    <3> QED
      BY <1>6, <3>1, <3>2
  <2> QED
    BY <2>1, <2>2
<1>14. \A p \in f2.packets : p[2] \in 0..(o + q) - 1
  <2> SUFFICES ASSUME NEW p \in f2.packets PROVE p[2] \in 0..(o + q) - 1
    OBVIOUS
  <2> DEFINE x == p[2]
  <2>1. x \in 0..o - 1 \/ (x \in Nat /\ x >= o /\ x < o + q)
    BY <1>2, <1>8, <1>12
  <2> HIDE DEF x, o
  <2>2. x \in 0..(o + q) - 1
    BY <1>4, <1>5, <2>1
  <2> QED
    BY <2>2 DEF x, o
<1>15. FrameRight(f2)
  BY <1>5, <1>13, <1>14 DEF FrameRight
<1>16. Grown(f, f2)
  <2>1. Len(f.bytes) <= Len(f2.bytes)
    BY <1>4, <1>5
  <2>2. \A k \in 1..Len(f.bytes) : f2.bytes[k] = f.bytes[k]
    BY <1>5
  <2>3. f.headers \subseteq f2.headers /\ f.packets \subseteq f2.packets
    BY <1>2
  <2>4. \A h \in f2.headers \ f.headers : h.at \in Nat /\ h.at >= Len(f.bytes)
    BY <1>5, <1>6, <1>13
  <2>5. \A p \in f2.packets \ f.packets : p[2] >= Len(f.bytes)
    BY <1>2, <1>12
  <2> QED
    BY <2>1, <2>2, <2>3, <2>4, <2>5 DEF Grown
<1>17. ASSUME NEW j \in 1..n PROVE S(j) \in f2.packets <=> j \notin bad
  <2>1. S(j) \notin f.packets
    <3> DEFINE x == S(j)[2]
    <3>1. x \in Nat /\ x >= o
      BY <1>10
    <3> HIDE DEF x, o
    <3>2. x \notin 0..o - 1
      BY <1>5, <3>1
    <3> QED
      BY <1>8, <3>2 DEF x, o
  <2>2. S(j) \in P <=> j \notin bad
    BY <1>9, <1>11
  <2> QED
    BY <1>2, <2>1, <2>2
<1>18. {h \in f2.headers : h.at = o} = IF lost THEN {} ELSE {h0}
  <2>1. \A h \in f.headers : h.at # o
    <3> SUFFICES ASSUME NEW h \in f.headers, h.at = o PROVE FALSE
      OBVIOUS
    <3>1. o \in 0..o - 1
      BY <1>8
    <3> HIDE DEF o
    <3> QED
      BY <1>5, <3>1
  <2> QED
    BY <1>2, <1>6, <2>1
<1>19. ASSUME NEW h \in f2.headers PROVE h.at \in Nat /\ (h.at <= o \/ h.at >= o + q)
  <2>1. CASE h \in f.headers
    <3> DEFINE x == h.at
    <3>1. x \in 0..o - 1
      BY <1>8, <2>1
    <3> HIDE DEF x, o
    <3>2. x \in Nat /\ x <= o
      BY <1>5, <3>1
    <3> QED
      BY <3>2 DEF x, o
  <2>2. CASE h = h0
    <3> HIDE DEF o
    <3> QED
      BY <1>5, <1>6, <2>2
  <2> QED
    BY <1>13, <2>1, <2>2
<1>20. o \in Nat /\ o + q <= Len(f2.bytes)
  BY <1>4, <1>5
<1>21. Lies(f2, o, pdu, psd0, bad, lost)
  BY <1>5, <1>17, <1>18, <1>19, <1>20 DEF Lies, S, q, l, n, b, h0
<1> QED
  BY <1>5, <1>15, <1>16, <1>21 DEF f2, q, l

-----------------------------------------------------------------------------
(* A PDU as it is taken apart. *)

InFrame(f, o, pdu, max, psd0, bad, lost, end) ==
  /\ max \in Nat /\ WellFormed(pdu, max) /\ psd0 \in Seq(Byte) /\ Len(psd0) \in 0..max
  /\ f.bytes \in Seq(Byte) /\ Lies(f, o, pdu, psd0, bad, lost)
  /\ end \in Nat /\ o + PduLen(pdu, Len(psd0)) <= end /\ end <= Len(f.bytes)

\* Its parts, in the frame.
LEMMA PduThere ==
  ASSUME NEW f, NEW o, NEW pdu, NEW max, NEW psd0, NEW bad, NEW lost, NEW end,
         InFrame(f, o, pdu, max, psd0, bad, lost, end)
  PROVE  LET l == Len(psd0) IN
         /\ \A k \in 1..LB(pdu) : f.bytes[o + HeaderLen + k] = Code(pdu, psd0)[k]
         /\ \A k \in 1..HL(pdu) : f.bytes[o + HeaderLen + LB(pdu) + k] = Concat(pdu.hef)[k]
         /\ \A k \in 1..l : f.bytes[o + HeaderLen + LB(pdu) + HL(pdu) + k] = psd0[k]
         /\ \A k \in 1..BL(pdu) : f.bytes[o + LaLocation(pdu, l) + 1 + k] = Concat(Body(pdu))[k]
<1> DEFINE l == Len(psd0)
           q == PduLen(pdu, l)
           la == LaLocation(pdu, l)
           e == PduBytes(pdu, psd0)
           lb == LB(pdu)
           hl == HL(pdu)
           bl == BL(pdu)
<1>1. /\ max \in Nat /\ WellFormed(pdu, max) /\ psd0 \in Seq(Byte) /\ Len(psd0) \in 0..max
      /\ Lies(f, o, pdu, psd0, bad, lost)
  BY DEF InFrame
<1>2. o \in Nat /\ \A k \in 1..q : f.bytes[o + k] = e[k]
  BY <1>1 DEF Lies
<1>3. /\ \A k \in 1..lb : e[HeaderLen + k] = Code(pdu, psd0)[k]
      /\ \A k \in 1..hl : e[HeaderLen + lb + k] = Concat(pdu.hef)[k]
      /\ \A k \in 1..l : e[HeaderLen + lb + hl + k] = psd0[k]
      /\ \A k \in 1..bl : e[la + 1 + k] = Concat(Body(pdu))[k]
  BY <1>1, EncodedIs
<1>4. HeaderLen \in Nat /\ lb \in Nat /\ hl \in Nat /\ bl \in Nat
  BY <1>1, PduIs
<1>5. l \in Nat
  BY <1>1
<1>6. la = HeaderLen + lb + hl + l - 1 /\ la \in Nat /\ q = la + 1 + bl /\ q \in Nat
  BY <1>1, <1>5, PduLenIs
<1> HIDE DEF l, q, la, e, lb, hl, bl
<1>7. ASSUME NEW k \in 1..lb PROVE f.bytes[o + HeaderLen + k] = Code(pdu, psd0)[k]
  <2>1. HeaderLen + k \in 1..q /\ o + (HeaderLen + k) = o + HeaderLen + k
    BY <1>2, <1>4, <1>5, <1>6
  <2> QED
    BY <1>2, <1>3, <2>1
<1>8. ASSUME NEW k \in 1..hl PROVE f.bytes[o + HeaderLen + lb + k] = Concat(pdu.hef)[k]
  <2>1. HeaderLen + lb + k \in 1..q /\ o + (HeaderLen + lb + k) = o + HeaderLen + lb + k
    BY <1>2, <1>4, <1>5, <1>6
  <2> QED
    BY <1>2, <1>3, <2>1
<1>9. ASSUME NEW k \in 1..l PROVE f.bytes[o + HeaderLen + lb + hl + k] = psd0[k]
  <2>1. HeaderLen + lb + hl + k \in 1..q /\ o + (HeaderLen + lb + hl + k) = o + HeaderLen + lb + hl + k
    BY <1>2, <1>4, <1>5, <1>6
  <2> QED
    BY <1>2, <1>3, <2>1
<1>10. ASSUME NEW k \in 1..bl PROVE f.bytes[o + la + 1 + k] = Concat(Body(pdu))[k]
  <2>1. la + 1 + k \in 1..q /\ o + (la + 1 + k) = o + la + 1 + k
    BY <1>2, <1>4, <1>5, <1>6
  <2> QED
    BY <1>2, <1>3, <2>1
<1> QED
  BY <1>7, <1>8, <1>9, <1>10 DEF l, la, lb, hl, bl

\* A slice that holds s.
LEMMA SliceIs ==
  ASSUME NEW bytes \in Seq(Byte), NEW from \in Nat, NEW s \in Seq(Byte), from + Len(s) <= Len(bytes),
         \A k \in 1..Len(s) : bytes[from + k] = s[k]
  PROVE  Slice(bytes, from, from + Len(s)) = s
<1> DEFINE n == Len(s)
           m == Len(bytes)
           t == SubSeq(bytes, from + 1, from + n)
<1>1. n \in Nat /\ m \in Nat /\ from + n <= m
  BY LenProperties
<1>2. \A k \in 1..n : bytes[from + k] = s[k]
  OBVIOUS
<1> HIDE DEF n, m
<1>3. \A i \in from + 1..from + n : bytes[i] \in Byte
  <2> SUFFICES ASSUME NEW i \in from + 1..from + n PROVE bytes[i] \in Byte
    OBVIOUS
  <2>1. i \in 1..m
    BY <1>1
  <2> QED
    BY <2>1, ElementOfSeq DEF m
<1>4. from + 1 \in Int /\ from + n \in Int
  BY <1>1
<1> DEFINE x == from + 1
           y == from + n
<1>5. t = SubSeq(bytes, x, y) /\ x \in Int /\ y \in Int /\ \A i \in x..y : bytes[i] \in Byte
  BY <1>3, <1>4
<1> HIDE DEF x, y, t
<1>6. /\ t \in Seq(Byte) /\ Len(t) = (IF x <= y THEN y - x + 1 ELSE 0)
      /\ \A i \in 1..y - x + 1 : t[i] = bytes[x + i - 1]
  BY <1>5, SubSeqProperties
<1>7. y - x + 1 = n /\ (IF x <= y THEN y - x + 1 ELSE 0) = n
  BY <1>1 DEF x, y
<1>8. ASSUME NEW i \in 1..n PROVE t[i] = s[i]
  <2>1. x + i - 1 = from + i
    BY <1>1 DEF x
  <2> QED
    BY <1>2, <1>6, <1>7, <2>1
<1>9. Len(t) = Len(s)
  BY <1>6, <1>7 DEF n
<1>10. t = s
  BY <1>6, <1>8, <1>9, SeqEqual DEF n
<1> QED
  BY <1>10 DEF t, n, Slice

\* Sequences that are not empty make at least one place each.
LEMMA LongEnough ==
  ASSUME NEW S, NEW seqs \in Seq(Seq(S)), \A j \in 1..Len(seqs) : Len(seqs[j]) # 0
  PROVE  Len(seqs) <= Len(Concat(seqs))
<1> DEFINE m == Len(seqs)
           L(j) == Len(Prefixes(seqs)[j])
           T == {j \in 0..m : L(j) \in Nat /\ j <= L(j)}
<1>1. m \in Nat
  BY LenProperties
<1>2. L(0) = 0 /\ L(m) = Len(Concat(seqs))
  <2>1. Prefixes(seqs)[0] = << >>
    BY PrefixesAre
  <2> QED
    BY <2>1 DEF Concat
<1>3. ASSUME NEW j \in 1..m PROVE L(j - 1) \in Nat /\ L(j) \in Nat /\ L(j) >= L(j - 1) + 1
  <2>1. seqs[j] \in Seq(S) /\ Starts(seqs, j) \in Nat /\ Starts(seqs, j) + Len(seqs[j]) = L(j)
    BY ConcatAt
  <2> DEFINE x == L(j - 1)
             y == Len(seqs[j])
             z == L(j)
  <2>2. x \in Nat /\ y \in Nat /\ y # 0 /\ x + y = z
    BY <2>1, LenProperties DEF Starts
  <2> HIDE DEF x, y, z
  <2>3. x \in Nat /\ z \in Nat /\ z >= x + 1
    BY <2>2
  <2> QED
    BY <2>3 DEF x, z
<1> HIDE DEF m, L
<1>4. 0 \in T
  BY <1>1, <1>2
<1>5. ASSUME NEW j \in 0..m - 1, j \in T PROVE j + 1 \in T
  <2>1. j + 1 \in 1..m /\ (j + 1) - 1 = j /\ j \in Nat /\ j + 1 \in 0..m
    BY <1>1
  <2> DEFINE x == L(j)
             z == L(j + 1)
  <2>2. x \in Nat /\ z \in Nat /\ z >= x + 1 /\ j <= x
    <3>1. L((j + 1) - 1) \in Nat /\ z \in Nat /\ z >= L((j + 1) - 1) + 1
      BY <1>3, <2>1
    <3> QED
      BY <1>5, <2>1, <3>1
  <2> HIDE DEF x, z
  <2>3. j + 1 <= z
    BY <2>1, <2>2
  <2> QED
    BY <2>1, <2>2, <2>3 DEF z
<1>6. 0..m \subseteq T
  <2> HIDE DEF T
  <2> QED
    BY <1>1, <1>4, <1>5, Inductive
<1>7. m <= L(m)
  BY <1>1, <1>6
<1> QED
  BY <1>2, <1>7 DEF m

\* Its locations, header expansion and service data are read as they are.
LEMMA PduRead ==
  ASSUME NEW f, NEW o, NEW pdu, NEW max, NEW psd0, NEW bad, NEW lost, NEW end,
         InFrame(f, o, pdu, max, psd0, bad, lost, end)
  PROVE  LET l == Len(psd0)
             locEnd == o + HeaderLen + LB(pdu) IN
         /\ ParseLocations(f.bytes, o + HeaderLen, Bits(pdu), Len(pdu.packets)) = Locations(pdu, l)
         /\ pdu.hef # << >> => /\ ParseHEF(f.bytes, locEnd, end).at = locEnd + HL(pdu)
                               /\ ParseHEF(f.bytes, locEnd, end).prog = pdu.prog
         /\ pdu.hef = << >> => pdu.prog = 0 /\ HL(pdu) = 0
         /\ Slice(f.bytes, locEnd + HL(pdu), o + LaLocation(pdu, l) + 1) = psd0
<1> DEFINE l == Len(psd0)
           n == Len(pdu.packets)
           locs == Locations(pdu, l)
           locEnd == o + HeaderLen + LB(pdu)
           hl == HL(pdu)
           la == LaLocation(pdu, l)
           q == PduLen(pdu, l)
           bits == Bits(pdu)
<1>1. /\ max \in Nat /\ WellFormed(pdu, max) /\ psd0 \in Seq(Byte) /\ Len(psd0) \in 0..max
      /\ f.bytes \in Seq(Byte) /\ o \in Nat /\ end \in Nat /\ o + q <= end /\ end <= Len(f.bytes)
  BY DEF InFrame, Lies
<1>2. /\ HeaderLen \in Nat /\ LB(pdu) \in Nat /\ hl \in Nat /\ BL(pdu) \in Nat /\ n \in Nat
      /\ bits \in {12, 16} /\ pdu.hef \in Seq(Seq(Byte)) /\ Len(Concat(pdu.hef)) = hl
  BY <1>1, PduIs DEF HL
<1>3. l \in Nat
  BY <1>1
<1>4. la = HeaderLen + LB(pdu) + hl + l - 1 /\ la \in Nat /\ q = la + 1 + BL(pdu) /\ q \in Nat
  BY <1>1, <1>3, PduLenIs
<1>5. locs \in Seq(Nat) /\ Len(locs) = n
  BY <1>1, <1>3, LocationsAre
<1>6. Len(f.bytes) \in Nat
  BY <1>1, LenProperties
<1>7. ParseLocations(f.bytes, o + HeaderLen, bits, n) = locs
  <2> DEFINE at == o + HeaderLen
             bytes == f.bytes
  <2>1. at \in Nat
    BY <1>1, <1>2
  <2>2. \A j \in 1..Len(locs) : locs[j] < Fits(bits)
    BY <1>1, LocationsFit
  <2>3. \A k \in 1..LocBytes(bits, Len(locs)) : bytes[at + k] = Packed(locs, bits)[k]
    <3>1. LocBytes(bits, Len(locs)) = LB(pdu)
      BY <1>5 DEF LB
    <3> QED
      BY <3>1, PduThere DEF Code
  <2> HIDE DEF locs, bits, at, bytes
  <2>4. \A j \in 1..Len(locs) : ParseLocation(bytes, at, bits, j - 1) = locs[j]
    <3>1. PackedAt(bytes, at, locs, bits)
      BY <1>2, <1>5, <2>1, <2>2, <2>3 DEF PackedAt, bits
    <3> QED
      BY <3>1, LocationRead
  <2>5. ParseLocations(bytes, at, bits, n) = [j \in 1..n |-> locs[j]]
    BY <1>5, <2>4 DEF ParseLocations
  <2>6. locs = [j \in 1..n |-> locs[j]]
    BY <1>5
  <2> QED
    BY <2>5, <2>6 DEF at, bytes
<1>8. ASSUME pdu.hef # << >>
      PROVE  ParseHEF(f.bytes, locEnd, end).at = locEnd + hl /\ ParseHEF(f.bytes, locEnd, end).prog = pdu.prog
  <2>1. FieldsRight(pdu.hef) /\ ProgRight(pdu.hef, pdu.prog)
    BY <1>1 DEF WellFormed
  <2>2. \A k \in 1..Len(Concat(pdu.hef)) : f.bytes[locEnd + k] = Concat(pdu.hef)[k]
    BY <1>2, PduThere
  <2> DEFINE m == Len(f.bytes)
             lb == LB(pdu)
             bl == BL(pdu)
  <2>3. locEnd \in Nat /\ locEnd + hl <= end /\ end \in 0..m
    <3>1. /\ o \in Nat /\ end \in Nat /\ m \in Nat /\ o + q <= end /\ end <= m /\ lb \in Nat /\ bl \in Nat
          /\ HeaderLen \in Nat /\ hl \in Nat /\ l \in Nat /\ la = HeaderLen + lb + hl + l - 1 /\ q = la + 1 + bl
          /\ locEnd = o + HeaderLen + lb /\ la \in Nat /\ q \in Nat
      BY <1>1, <1>2, <1>3, <1>4, <1>6
    <3> HIDE DEF locEnd, hl, m, lb, bl, l, la, q
    <3> QED
      BY <3>1
  <2>4. locEnd + Len(Concat(pdu.hef)) <= end
    BY <1>2, <2>3
  <2> DEFINE bytes == f.bytes
             hef == pdu.hef
             prog == pdu.prog
  <2>5. /\ hef \in Seq(Seq(Byte)) /\ hef # << >> /\ FieldsRight(hef) /\ ProgRight(hef, prog)
        /\ bytes \in Seq(Byte) /\ end \in 0..Len(bytes) /\ locEnd \in Nat
        /\ locEnd + Len(Concat(hef)) <= end
        /\ \A k \in 1..Len(Concat(hef)) : bytes[locEnd + k] = Concat(hef)[k]
    BY <1>1, <1>2, <1>8, <2>1, <2>2, <2>3, <2>4
  <2> HIDE DEF locEnd, m, bytes, hef, prog
  <2>6. ParseHEF(bytes, locEnd, end).at = locEnd + Len(Concat(hef)) /\ ParseHEF(bytes, locEnd, end).prog = prog
    BY <2>5, HefRead
  <2> QED
    BY <1>2, <2>6 DEF bytes, hef, prog
<1>9. ASSUME pdu.hef = << >> PROVE pdu.prog = 0 /\ hl = 0
  <2>1. ProgRight(<< >>, pdu.prog)
    BY <1>1, <1>9 DEF WellFormed
  <2>2. pdu.prog = 0
    BY <2>1 DEF ProgRight
  <2>3. Concat(<< >>) = << >>
    <3>1. << >> \in Seq(Seq(Byte)) /\ Len(<< >>) = 0
      OBVIOUS
    <3> QED
      BY <3>1, ConcatIs
  <2> QED
    BY <1>2, <1>9, <2>2, <2>3
<1>10. Slice(f.bytes, locEnd + hl, o + la + 1) = psd0
  <2> DEFINE from == locEnd + hl
             m == Len(f.bytes)
             lb == LB(pdu)
             bl == BL(pdu)
             bytes == f.bytes
  <2>1. from \in Nat /\ from + l = o + la + 1 /\ from + l <= m
    <3>1. /\ o \in Nat /\ end \in Nat /\ m \in Nat /\ o + q <= end /\ end <= m /\ lb \in Nat /\ bl \in Nat
          /\ HeaderLen \in Nat /\ hl \in Nat /\ l \in Nat /\ la = HeaderLen + lb + hl + l - 1 /\ q = la + 1 + bl
          /\ from = o + HeaderLen + lb + hl /\ la \in Nat /\ q \in Nat
      BY <1>1, <1>2, <1>3, <1>4, <1>6
    <3> HIDE DEF from, hl, m, lb, bl, l, la, q
    <3> QED
      BY <3>1
  <2>2. \A k \in 1..Len(psd0) : bytes[from + k] = psd0[k]
    BY PduThere
  <2>3. from + Len(psd0) <= Len(bytes) /\ bytes \in Seq(Byte) /\ psd0 \in Seq(Byte)
    BY <1>1, <2>1
  <2> HIDE DEF from, m, bytes
  <2>4. Slice(bytes, from, from + Len(psd0)) = psd0
    BY <2>1, <2>2, <2>3, SliceIs
  <2> QED
    BY <2>1, <2>4 DEF bytes, from
<1> QED
  BY <1>7, <1>8, <1>9, <1>10

\* So are its packets, and the header is sensible.
LEMMA PacketsRead ==
  ASSUME NEW f, NEW o, NEW pdu, NEW max, NEW psd0, NEW bad, NEW lost, NEW end,
         InFrame(f, o, pdu, max, psd0, bad, lost, end)
  PROVE  LET l == Len(psd0)
             hdr == HeaderOf(pdu, l, o) IN
         /\ Sensible(hdr, Locations(pdu, l), o + HeaderLen + LB(pdu), end)
         /\ Packets(f, hdr, Locations(pdu, l)) =
              [j \in 1..Len(pdu.packets) |-> [data |-> pdu.packets[j], ok |-> j \notin bad]]
<1> DEFINE l == Len(psd0)
           n == Len(pdu.packets)
           locs == Locations(pdu, l)
           la == LaLocation(pdu, l)
           q == PduLen(pdu, l)
           hdr == HeaderOf(pdu, l, o)
           m == Len(f.bytes)
           lb == LB(pdu)
           hl == HL(pdu)
           bl == BL(pdu)
           B == Body(pdu)
           bf(j) == Before(pdu, l, j)
           x(j) == Len(pdu.packets[j])
           st(j) == Starts(B, j)
<1>1. /\ max \in Nat /\ WellFormed(pdu, max) /\ psd0 \in Seq(Byte) /\ Len(psd0) \in 0..max
      /\ f.bytes \in Seq(Byte) /\ o \in Nat /\ end \in Nat /\ o + q <= end /\ end <= m
  BY DEF InFrame, Lies
<1>2. /\ HeaderLen \in Nat /\ lb \in Nat /\ hl \in Nat /\ bl \in Nat /\ n \in Nat
      /\ B \in Seq(Seq(Byte)) /\ Len(B) = n
  BY <1>1, PduIs
<1>3. l \in Nat
  BY <1>1
<1>4. la = HeaderLen + lb + hl + l - 1 /\ la \in Nat /\ q = la + 1 + bl /\ q \in Nat
  BY <1>1, <1>3, PduLenIs
<1>5. \A j \in 1..n :
        /\ locs[j] \in Nat /\ locs[j] <= la + bl
        /\ bf(j) \in Nat /\ bf(j) = la + st(j) /\ st(j) \in Nat /\ st(j) + x(j) + 1 <= bl
        /\ locs[j] = bf(j) + x(j) + 1
  BY <1>1, <1>3, LocationsAre
<1>6. \A j \in 1..n : /\ pdu.packets[j] \in Seq(Byte) /\ x(j) \in Nat
                      /\ B[j] = Append(pdu.packets[j], 0) /\ Len(B[j]) = x(j) + 1
  BY <1>1, PduIs
<1>7. /\ hdr.at = o /\ hdr.la = la /\ hdr.nop = n
  BY DEF HeaderOf
<1>8. \A k \in 1..bl : f.bytes[o + la + 1 + k] = Concat(B)[k]
  BY PduThere
<1>9. \A j \in 1..n : \A k \in 1..x(j) + 1 : Concat(B)[st(j) + k] = B[j][k]
  <2> SUFFICES ASSUME NEW j \in 1..n PROVE \A k \in 1..x(j) + 1 : Concat(B)[st(j) + k] = B[j][k]
    OBVIOUS
  <2>1. Len(B[j]) = x(j) + 1
    BY <1>6
  <2> HIDE DEF B
  <2>2. \A k \in 1..Len(B[j]) : Concat(B)[Starts(B, j) + k] = B[j][k]
    BY <1>2, ConcatAt
  <2> QED
    BY <2>1, <2>2
<1>10. \A j \in 1..n : (IF j = 1 THEN la ELSE locs[j - 1]) = bf(j)
  BY DEF Before
<1>11. \A j \in 1..n : Stretch(pdu, l, o, j) = <<o + locs[j] - x(j), o + locs[j]>>
                       /\ (Stretch(pdu, l, o, j) \in f.packets <=> j \notin bad)
  <2>1. \A j \in 1..n : Stretch(pdu, l, o, j) \in f.packets <=> j \notin bad
    BY DEF InFrame, Lies
  <2> QED
    BY <2>1 DEF Stretch
<1>12. Packets(f, hdr, locs) =
         [j \in 1..hdr.nop |->
            LET from == IF j = 1 THEN hdr.at + hdr.la + 1 ELSE hdr.at + locs[j - 1] + 1
                to == hdr.at + locs[j]
            IN [data |-> Slice(f.bytes, from, to), ok |-> <<from, to>> \in f.packets]]
  BY DEF Packets
<1>13. m \in Nat
  BY <1>1, LenProperties
<1> HIDE DEF l, n, locs, la, q, hdr, m, lb, hl, bl, B, bf, x, st
<1>14. Sensible(hdr, locs, o + HeaderLen + lb, end)
  <2>1. o + la + 1 >= o + HeaderLen + lb /\ o + la < end
    BY <1>1, <1>2, <1>3, <1>4
  <2>2. ASSUME NEW j \in 1..n
        PROVE locs[j] > (IF j = 1 THEN hdr.la ELSE locs[j - 1]) /\ o + locs[j] < end
    <3> DEFINE y == locs[j]
               z == bf(j)
               w == x(j)
    <3>1. y \in Nat /\ y <= la + bl /\ z \in Nat /\ w \in Nat /\ y = z + w + 1
      BY <1>5, <1>6
    <3>2. (IF j = 1 THEN hdr.la ELSE locs[j - 1]) = z
      BY <1>7, <1>10
    <3> HIDE DEF y, z, w
    <3>3. y > z /\ o + y < end
      BY <1>1, <1>2, <1>4, <3>1
    <3> QED
      BY <3>2, <3>3 DEF y
  <2> QED
    BY <1>7, <2>1, <2>2 DEF Sensible
<1>15. ASSUME NEW j \in 1..n
       PROVE LET from == IF j = 1 THEN hdr.at + hdr.la + 1 ELSE hdr.at + locs[j - 1] + 1
                 to == hdr.at + locs[j]
             IN Slice(f.bytes, from, to) = pdu.packets[j] /\ (<<from, to>> \in f.packets <=> j \notin bad)
  <2> DEFINE from == IF j = 1 THEN hdr.at + hdr.la + 1 ELSE hdr.at + locs[j - 1] + 1
             to == hdr.at + locs[j]
             y == locs[j]
             z == bf(j)
             w == x(j)
             s == st(j)
             b == f.bytes
             p == pdu.packets[j]
  <2>1. /\ y \in Nat /\ y <= la + bl /\ z \in Nat /\ w \in Nat /\ y = z + w + 1 /\ s \in Nat
        /\ z = la + s /\ s + w + 1 <= bl
    BY <1>5, <1>6
  <2>2. from = o + z + 1 /\ to = o + y
    BY <1>7, <1>10
  <2>3. <<o + y - w, o + y>> \in f.packets <=> j \notin bad
    BY <1>11
  <2>4. p \in Seq(Byte) /\ Len(p) = w /\ B[j] = Append(p, 0)
    BY <1>6 DEF x
  <2>5. \A k \in 1..w + 1 : Concat(B)[s + k] = B[j][k]
    BY <1>9
  <2>6. b \in Seq(Byte) /\ Len(b) = m
    BY <1>1 DEF m
  <2>7. \A k \in 1..bl : b[o + la + 1 + k] = Concat(B)[k]
    BY <1>8
  <2> HIDE DEF from, to, y, z, w, s, b, p
  <2>8. from \in Nat /\ to = from + w /\ o + y - w = from /\ from + w <= m
    <3>1. /\ o \in Nat /\ end \in Nat /\ m \in Nat /\ o + q <= end /\ end <= m /\ q = la + 1 + bl
          /\ la \in Nat /\ bl \in Nat
      BY <1>1, <1>2, <1>4, <1>13
    <3>2. from \in Nat /\ to = from + w
      BY <2>1, <2>2, <3>1
    <3>3. o + y - w = from
      BY <2>1, <2>2, <3>1
    <3>4. from + w <= m
      BY <2>1, <2>2, <3>1
    <3> QED
      BY <3>2, <3>3, <3>4
  <2>9. ASSUME NEW k \in 1..w PROVE b[from + k] = p[k]
    <3>1. s + k \in 1..bl /\ k \in 1..w + 1 /\ from + k = o + la + 1 + (s + k)
      <4>1. o \in Nat /\ la \in Nat /\ bl \in Nat /\ w \in Nat /\ s \in Nat /\ z = la + s /\ from = o + z + 1
            /\ s + w + 1 <= bl
        BY <1>1, <1>2, <1>4, <2>1, <2>2
      <4>2. k \in 1..w + 1 /\ s + k \in 1..bl
        BY <4>1
      <4>3. from + k = o + la + 1 + (s + k)
        BY <4>1
      <4> QED
        BY <4>2, <4>3
    <3>2. b[from + k] = B[j][k]
      BY <2>5, <2>7, <3>1
    <3>3. B[j][k] = p[k]
      <4>1. 0 \in Byte /\ k \in 1..Len(p)
        BY <2>4 DEF Byte
      <4> QED
        BY <2>4, <4>1, AppendProperties
    <3> QED
      BY <3>2, <3>3
  <2>10. Slice(b, from, from + Len(p)) = p
    BY <2>4, <2>6, <2>8, <2>9, SliceIs
  <2>11. Slice(b, from, to) = p
    BY <2>4, <2>8, <2>10
  <2>12. <<from, to>> \in f.packets <=> j \notin bad
    BY <2>2, <2>3, <2>8
  <2> QED
    BY <2>11, <2>12 DEF b, p, from, to
<1>16. Packets(f, hdr, locs) = [j \in 1..n |-> [data |-> pdu.packets[j], ok |-> j \notin bad]]
  <2>1. ASSUME NEW j \in 1..n
        PROVE LET from == IF j = 1 THEN hdr.at + hdr.la + 1 ELSE hdr.at + locs[j - 1] + 1
                  to == hdr.at + locs[j]
              IN [data |-> Slice(f.bytes, from, to), ok |-> <<from, to>> \in f.packets]
                   = [data |-> pdu.packets[j], ok |-> j \notin bad]
    <3> DEFINE from == IF j = 1 THEN hdr.at + hdr.la + 1 ELSE hdr.at + locs[j - 1] + 1
               to == hdr.at + locs[j]
    <3>1. Slice(f.bytes, from, to) = pdu.packets[j] /\ (<<from, to>> \in f.packets <=> j \notin bad)
      BY <1>15
    <3> HIDE DEF from, to
    <3>2. (<<from, to>> \in f.packets) = (j \notin bad)
      BY <3>1
    <3>3. [data |-> Slice(f.bytes, from, to), ok |-> <<from, to>> \in f.packets]
            = [data |-> pdu.packets[j], ok |-> j \notin bad]
      BY <3>1, <3>2
    <3> QED
      BY <3>3 DEF from, to
  <2> QED
    BY <1>7, <1>12, <2>1
<1> QED
  BY <1>14, <1>16 DEF hdr, locs, l, n, lb

\* What a PDU brings, and the parser of its program after it.
Brought(pdu, psd0, bad) ==
  [prog |-> pdu.prog, stream |-> pdu.stream, psd |-> psd0,
   packets |-> [i \in 1..Len(pdu.packets) |-> [data |-> pdu.packets[i], ok |-> i \notin bad]]]
ParsedBy(acc, pdu, psd0, sent) ==
  Parsed([on |-> acc.psd[pdu.prog].on, buf |-> acc.psd[pdu.prog].buf, out |-> acc.out],
         psd0, AasSize, sent)

\* The PDU with its header taken.
LEMMA HeaderTaken ==
  ASSUME NEW f, NEW o, NEW pdu, NEW max, NEW psd0, NEW bad, NEW lost, NEW end,
         InFrame(f, o, pdu, max, psd0, bad, lost, end), NEW acc, NEW sent
  PROVE  LET q == PduLen(pdu, Len(psd0))
             hdr == HeaderOf(pdu, Len(psd0), o)
             p == ParsedBy(acc, pdu, psd0, sent) IN
         TakePdu(acc, f, hdr, end, sent) =
           IF pdu.stream >= MaxStreams THEN [acc EXCEPT !.at = @ + Len(pdu.packets)]
           ELSE [at |-> o + q, pdus |-> Append(acc.pdus, Brought(pdu, psd0, bad)),
                 psd |-> [acc.psd EXCEPT ![pdu.prog] = ParserOf(p)], out |-> p.out]
<1> DEFINE l == Len(psd0)
           n == Len(pdu.packets)
           q == PduLen(pdu, l)
           hdr == HeaderOf(pdu, l, o)
           la == LaLocation(pdu, l)
           locs == Locations(pdu, l)
           lb == LB(pdu)
           hl == HL(pdu)
           bl == BL(pdu)
           bits == LcBits(hdr.codec, hdr.stream)
           locEnd == hdr.at + HeaderLen + LocBytes(bits, hdr.nop)
           loc == ParseLocations(f.bytes, hdr.at + HeaderLen, bits, hdr.nop)
           hef == IF hdr.hef THEN ParseHEF(f.bytes, locEnd, end)
                  ELSE [at |-> locEnd, more |-> FALSE, prog |-> 0]
           data == Slice(f.bytes, hef.at, hdr.at + hdr.la + 1)
           p == Parsed([on |-> acc.psd[hef.prog].on, buf |-> acc.psd[hef.prog].buf, out |-> acc.out],
                       data, AasSize, sent)
<1>1. TakePdu(acc, f, hdr, end, sent) =
        IF ~Sensible(hdr, loc, locEnd, end) THEN acc
        ELSE IF hdr.stream >= MaxStreams THEN [acc EXCEPT !.at = @ + hdr.nop]
        ELSE [at   |-> hdr.at + (IF hdr.nop = 0 THEN hdr.la ELSE loc[hdr.nop]) + 1,
              pdus |-> Append(acc.pdus, [prog |-> hef.prog, stream |-> hdr.stream, psd |-> data,
                                         packets |-> Packets(f, hdr, loc)]),
              psd  |-> [acc.psd EXCEPT ![hef.prog] = ParserOf(p)],
              out  |-> p.out]
  BY DEF TakePdu
<1>2. /\ hdr.at = o /\ hdr.la = la /\ hdr.nop = n /\ hdr.codec = pdu.codec /\ hdr.stream = pdu.stream
      /\ hdr.hef = (pdu.hef # << >>)
  BY DEF HeaderOf
<1>3. bits = Bits(pdu)
  <2> HIDE DEF hdr
  <2> QED
    BY <1>2 DEF Bits
<1>4. locEnd = o + HeaderLen + lb
  <2> HIDE DEF hdr, bits
  <2> QED
    BY <1>2, <1>3 DEF LB
<1> HIDE DEF hdr, bits, locEnd
<1>5. loc = locs
  <2>1. ParseLocations(f.bytes, o + HeaderLen, Bits(pdu), n) = locs
    BY PduRead
  <2> HIDE DEF n, locs
  <2> QED
    BY <1>2, <1>3, <2>1
<1>6. hef.at = locEnd + hl /\ hef.prog = pdu.prog
  <2>1. /\ pdu.hef # << >> => /\ ParseHEF(f.bytes, o + HeaderLen + LB(pdu), end).at = o + HeaderLen + LB(pdu) + HL(pdu)
                              /\ ParseHEF(f.bytes, o + HeaderLen + LB(pdu), end).prog = pdu.prog
        /\ pdu.hef = << >> => pdu.prog = 0 /\ HL(pdu) = 0
    BY PduRead
  <2>2. locEnd \in Nat
    <3>1. o \in Nat /\ HeaderLen \in Nat /\ lb \in Nat
      BY PduIs DEF InFrame, Lies
    <3> HIDE DEF lb
    <3> QED
      BY <1>4, <3>1
  <2>3. CASE pdu.hef # << >>
    <3>1. hef = ParseHEF(f.bytes, locEnd, end)
      BY <1>2, <2>3
    <3> QED
      BY <1>4, <2>1, <2>3, <3>1
  <2>4. CASE pdu.hef = << >>
    <3>1. hef = [at |-> locEnd, more |-> FALSE, prog |-> 0]
      BY <1>2, <2>4
    <3>2. hef.at = locEnd /\ hef.prog = 0 /\ hl = 0 /\ pdu.prog = 0
      BY <2>1, <2>4, <3>1
    <3> HIDE DEF hef
    <3> QED
      BY <2>2, <3>2
  <2> QED
    BY <2>3, <2>4
<1> HIDE DEF hef, loc
<1>7. data = psd0
  <2>1. Slice(f.bytes, o + HeaderLen + LB(pdu) + HL(pdu), o + LaLocation(pdu, l) + 1) = psd0
    BY PduRead
  <2>2. hef.at = o + HeaderLen + LB(pdu) + HL(pdu) /\ hdr.at + hdr.la + 1 = o + LaLocation(pdu, l) + 1
    BY <1>2, <1>4, <1>6
  <2> QED
    BY <2>1, <2>2
<1> HIDE DEF data
<1>8. p = ParsedBy(acc, pdu, psd0, sent)
  BY <1>6, <1>7 DEF ParsedBy
<1> HIDE DEF p
<1>9. /\ Sensible(hdr, loc, locEnd, end)
      /\ Packets(f, hdr, loc) = [j \in 1..n |-> [data |-> pdu.packets[j], ok |-> j \notin bad]]
  <2>1. /\ Sensible(hdr, locs, o + HeaderLen + LB(pdu), end)
        /\ Packets(f, hdr, locs) = [j \in 1..n |-> [data |-> pdu.packets[j], ok |-> j \notin bad]]
    BY PacketsRead DEF hdr
  <2> HIDE DEF locs
  <2> QED
    BY <1>4, <1>5, <2>1
<1>10. hdr.at + (IF hdr.nop = 0 THEN hdr.la ELSE loc[hdr.nop]) + 1 = o + q
  <2>1. /\ max \in Nat /\ WellFormed(pdu, max) /\ l \in Nat /\ o \in Nat
    BY DEF InFrame, Lies
  <2>2. la \in Nat /\ bl \in Nat /\ q = la + 1 + bl
    BY <2>1, PduLenIs, PduIs
  <2>3. (n # 0 => locs[n] = la + bl) /\ (n = 0 => bl = 0)
    BY <2>1, LocationsAre
  <2> HIDE DEF l, n, q, la, locs, bl
  <2>4. CASE n = 0
    <3>1. hdr.at + (IF hdr.nop = 0 THEN hdr.la ELSE loc[hdr.nop]) + 1 = o + la + 1
      BY <1>2, <2>4
    <3> QED
      BY <2>1, <2>2, <2>3, <2>4, <3>1
  <2>5. CASE n # 0
    <3>1. hdr.at + (IF hdr.nop = 0 THEN hdr.la ELSE loc[hdr.nop]) + 1 = o + (la + bl) + 1
      BY <1>2, <1>5, <2>3, <2>5
    <3> QED
      BY <2>1, <2>2, <3>1
  <2> QED
    BY <2>4, <2>5
<1>11. [prog |-> hef.prog, stream |-> hdr.stream, psd |-> data, packets |-> Packets(f, hdr, loc)]
         = Brought(pdu, psd0, bad)
  BY <1>2, <1>6, <1>7, <1>9 DEF Brought
<1> HIDE DEF l, n, q
<1>12. TakePdu(acc, f, hdr, end, sent) =
         IF pdu.stream >= MaxStreams THEN [acc EXCEPT !.at = @ + n]
         ELSE [at |-> o + q, pdus |-> Append(acc.pdus, Brought(pdu, psd0, bad)),
               psd |-> [acc.psd EXCEPT ![pdu.prog] = ParserOf(p)], out |-> p.out]
  BY <1>1, <1>2, <1>6, <1>9, <1>10, <1>11
<1> QED
  BY <1>8, <1>12 DEF n, q, hdr, l

\* process at a PDU.
LEMMA PduTaken ==
  ASSUME NEW f, NEW o, NEW pdu, NEW max, NEW psd0, NEW bad, NEW lost, NEW end,
         InFrame(f, o, pdu, max, psd0, bad, lost, end), NEW acc, acc.at = o, NEW sent
  PROVE  LET q == PduLen(pdu, Len(psd0))
             p == ParsedBy(acc, pdu, psd0, sent) IN
         TakeNext(acc, f, end, sent) =
           IF lost THEN acc
           ELSE IF pdu.stream >= MaxStreams THEN [acc EXCEPT !.at = @ + Len(pdu.packets)]
           ELSE [at |-> o + q, pdus |-> Append(acc.pdus, Brought(pdu, psd0, bad)),
                 psd |-> [acc.psd EXCEPT ![pdu.prog] = ParserOf(p)], out |-> p.out]
<1> DEFINE l == Len(psd0)
           q == PduLen(pdu, l)
           hdr == HeaderOf(pdu, l, o)
           there == {h \in f.headers : h.at = acc.at}
           result == IF pdu.stream >= MaxStreams THEN [acc EXCEPT !.at = @ + Len(pdu.packets)]
                     ELSE [at |-> o + q, pdus |-> Append(acc.pdus, Brought(pdu, psd0, bad)),
                           psd |-> [acc.psd EXCEPT ![pdu.prog] = ParserOf(ParsedBy(acc, pdu, psd0, sent))],
                           out |-> ParsedBy(acc, pdu, psd0, sent).out]
<1>1. TakePdu(acc, f, hdr, end, sent) = result
  BY HeaderTaken
<1>2. there = IF lost THEN {} ELSE {hdr}
  BY DEF InFrame, Lies
<1>3. ~(acc.at >= end - CodewordLen)
  <2>1. /\ max \in Nat /\ WellFormed(pdu, max) /\ l \in 0..max /\ o \in Nat /\ end \in Nat /\ o + q <= end
    BY DEF InFrame, Lies
  <2>2. q > CodewordLen /\ CodewordLen \in Nat
    BY <2>1, LocationsFit, PduIs
  <2>3. q \in Nat
    BY <2>1, PduLenIs
  <2> HIDE DEF q
  <2> QED
    BY <2>1, <2>2, <2>3
<1>4. TakeNext(acc, f, end, sent) =
        IF acc.at >= end - CodewordLen \/ there = {} THEN acc
        ELSE TakePdu(acc, f, CHOOSE h \in there : TRUE, end, sent)
  BY DEF TakeNext
<1>5. (CHOOSE h \in {hdr} : TRUE) = hdr
  OBVIOUS
<1> HIDE DEF hdr, there, result
<1>6. CASE lost
  BY <1>2, <1>4, <1>6
<1>7. CASE ~lost
  <2>1. there = {hdr}
    BY <1>2, <1>7
  <2>2. TakeNext(acc, f, end, sent) = TakePdu(acc, f, CHOOSE h \in there : TRUE, end, sent)
    BY <1>3, <1>4, <2>1
  <2>3. TakeNext(acc, f, end, sent) = result
    BY <1>1, <1>5, <2>1, <2>2
  <2> QED
    BY <1>7, <2>3 DEF result
<1> QED
  BY <1>6, <1>7

\* Behind a PDU of a stream it does not know process finds nothing.
LEMMA NothingBehind ==
  ASSUME NEW f, NEW o, NEW pdu, NEW max, NEW psd0, NEW bad, NEW lost, NEW end,
         InFrame(f, o, pdu, max, psd0, bad, lost, end), pdu.packets # << >>,
         NEW acc, acc.at = o + Len(pdu.packets), NEW sent
  PROVE  TakeNext(acc, f, end, sent) = acc
<1> DEFINE l == Len(psd0)
           n == Len(pdu.packets)
           q == PduLen(pdu, l)
           bl == BL(pdu)
           la == LaLocation(pdu, l)
<1>1. /\ max \in Nat /\ WellFormed(pdu, max) /\ l \in Nat /\ o \in Nat
      /\ \A h \in f.headers : h.at \in Nat /\ (h.at <= o \/ h.at >= o + q)
  BY DEF InFrame, Lies
<1>2. la \in Nat /\ bl \in Nat /\ q = la + 1 + bl
  BY <1>1, PduLenIs, PduIs
<1>3. n \in Nat \ {0}
  <2>1. pdu.packets \in Seq(Seq(Byte))
    BY <1>1, PduIs
  <2> QED
    BY <2>1, EmptySeq
<1>4. n <= bl
  <2> DEFINE B == Body(pdu)
  <2>1. B \in Seq(Seq(Byte)) /\ Len(B) = n /\ bl = Len(Concat(B))
    BY <1>1, PduIs DEF BL
  <2>2. \A j \in 1..n : Len(B[j]) # 0
    <3> SUFFICES ASSUME NEW j \in 1..n PROVE Len(B[j]) # 0
      OBVIOUS
    <3>1. Len(B[j]) = Len(pdu.packets[j]) + 1 /\ Len(pdu.packets[j]) \in Nat
      BY <1>1, PduIs
    <3> DEFINE x == Len(pdu.packets[j])
               y == Len(B[j])
    <3>2. y = x + 1 /\ x \in Nat
      BY <3>1
    <3> HIDE DEF x, y
    <3>3. y # 0
      BY <3>2
    <3> QED
      BY <3>3 DEF y
  <2> HIDE DEF B, n, bl
  <2>3. Len(B) <= Len(Concat(B))
    BY <2>1, <2>2, LongEnough
  <2> QED
    BY <2>1, <2>3
<1> HIDE DEF l, n, q, bl, la
<1>5. ASSUME NEW h \in f.headers PROVE h.at # acc.at
  <2> DEFINE x == h.at
  <2>1. x \in Nat /\ (x <= o \/ x >= o + q)
    BY <1>1
  <2> HIDE DEF x
  <2>2. x # o + n
    BY <1>1, <1>2, <1>3, <1>4, <2>1
  <2> QED
    BY <2>2 DEF x, n
<1>6. {h \in f.headers : h.at = acc.at} = {}
  BY <1>5
<1> QED
  BY <1>6 DEF TakeNext

-----------------------------------------------------------------------------
(* What is sent, PDU by PDU. *)

\* Nothing comes of no bytes.
LEMMA ParsedEmpty ==
  ASSUME NEW size \in Nat, NEW acc \in Parsing(size), NEW sent
  PROVE  Parsed(acc, << >>, size, sent) = acc
<1>1. << >> \in Seq(Byte) /\ Len(<< >>) = 0
  OBVIOUS
<1>2. \E g \in [0..Len(<< >>) -> Parsing(size)] :
         ParseRun(g, acc, << >>, size, sent) /\ Parsed(acc, << >>, size, sent) = g[Len(<< >>)]
  BY <1>1, ParseRuns
<1>3. PICK g : ParseRun(g, acc, << >>, size, sent) /\ Parsed(acc, << >>, size, sent) = g[0]
  BY <1>1, <1>2
<1> QED
  BY <1>3 DEF ParseRun

\* The service data of a PDU: as much as is told, in step with the stream, or flags.
LEMMA PsdItemsAre ==
  ASSUME NEW pdu, NEW at \in 0..TurnLen - 1, NEW k \in 0..MaxPsd
  PROVE  LET items == PsdItems(pdu, at, k)
             psd0 == BytesOf(items) IN
         /\ items \in Seq(Item) /\ psd0 \in Seq(Byte) /\ Len(psd0) \in 0..MaxPsd
         /\ Carries(pdu) => /\ items = Turn(PsdStream, at, k)
                            /\ items = << >> => k = 0
         /\ ~Carries(pdu) => \A i \in 1..Len(psd0) : psd0[i] = Flag
         /\ ~Carries(pdu) /\ pdu.prog = 0 => psd0 = << >>
<1> DEFINE items == PsdItems(pdu, at, k)
           psd0 == BytesOf(items)
<1>1. k \in Nat /\ k <= MaxPsd /\ MaxPsd \in Nat
  BY BoundsAssumption
<1>2. CASE Carries(pdu)
  <2> DEFINE t == Turn(PsdStream, at, k)
  <2>1. items = t
    BY <1>2 DEF PsdItems
  <2>2. t \in Seq(Item) /\ Len(t) = k
    BY <1>1, TurnIs
  <2> HIDE DEF items, t
  <2>3. BytesOf(t) \in Seq(Byte) /\ Len(BytesOf(t)) = k
    BY <2>2, BytesOfIs
  <2>4. t = << >> => k = 0
    BY <2>2
  <2> QED
    BY <1>1, <1>2, <2>1, <2>2, <2>3, <2>4 DEF t, items
<1>3. CASE ~Carries(pdu) /\ pdu.stream = 0
  <2> DEFINE x == [b |-> Flag, ends |-> << >>]
             s == [i \in 1..k |-> x]
  <2>1. items = s
    BY <1>3 DEF PsdItems
  <2>2. x \in Item /\ x.b = Flag
    BY DEF Item, Byte, Flag
  <2> HIDE DEF x
  <2>3. s \in [1..k -> Item] /\ \A i \in 1..k : s[i].b = Flag
    BY <2>2
  <2> HIDE DEF s, items
  <2>4. s \in Seq(Item) /\ Len(s) = k
    BY <1>1, <2>3
  <2>5. BytesOf(s) \in Seq(Byte) /\ Len(BytesOf(s)) = Len(s)
        /\ \A i \in 1..Len(s) : BytesOf(s)[i] = s[i].b
    BY <2>4, BytesOfIs
  <2>6. pdu.prog # 0
    BY <1>3 DEF Carries
  <2>7. \A i \in 1..Len(BytesOf(s)) : BytesOf(s)[i] = Flag
    BY <2>3, <2>4, <2>5
  <2>8. Len(BytesOf(s)) \in 0..MaxPsd
    BY <1>1, <2>4, <2>5
  <2> QED
    BY <1>3, <2>1, <2>4, <2>5, <2>6, <2>7, <2>8 DEF items
<1>4. CASE ~Carries(pdu) /\ pdu.stream # 0
  <2>1. items = << >>
    BY <1>4 DEF PsdItems
  <2>2. << >> \in Seq(Item) /\ Len(<< >>) = 0 /\ << >> \in Seq(Byte)
    OBVIOUS
  <2> HIDE DEF items
  <2>3. BytesOf(<< >>) \in Seq(Byte) /\ Len(BytesOf(<< >>)) = 0
    BY <2>2, BytesOfIs
  <2>4. BytesOf(<< >>) = << >>
    BY <2>3, EmptySeq
  <2>5. psd0 = << >>
    BY <2>1, <2>4
  <2>6. items \in Seq(Item) /\ psd0 \in Seq(Byte) /\ Len(psd0) = 0
    BY <2>1, <2>2, <2>5
  <2> HIDE DEF psd0
  <2>7. Len(psd0) \in 0..MaxPsd /\ \A i \in 1..Len(psd0) : psd0[i] = Flag
    BY <1>1, <2>6
  <2> QED
    BY <1>4, <2>5, <2>6, <2>7 DEF psd0, items
<1> QED
  BY <1>2, <1>3, <1>4

\* What is sent so far.
SentRight(s) ==
  /\ FrameRight(s.frame) /\ s.at \in 0..TurnLen - 1
  /\ s.reach \in BOOLEAN /\ s.sound \in BOOLEAN /\ s.due \in Seq(Seq(Byte))

Data(s, pdu, k) == BytesOf(PsdItems(pdu, s.at, k))
Reaches(s, pdu, lost) == s.reach /\ ~lost /\ ~(pdu.stream >= MaxStreams)

SentOn(s, s2, pdu, k, lost, bad) ==
  LET r == Reaches(s, pdu, lost)
      h == Heard([sound |-> s.sound, due |-> s.due], PsdItems(pdu, s.at, k), AasSize) IN
  /\ s2.frame = WithPdu(s.frame, pdu, Data(s, pdu, k), bad, lost) /\ s2.reach = r
  /\ s2.at = IF Carries(pdu) THEN (s.at + k) % TurnLen ELSE s.at
  /\ s2.pdus = IF r THEN Append(s.pdus, Brought(pdu, Data(s, pdu, k), bad)) ELSE s.pdus
  /\ ~Carries(pdu) => s2.sound = s.sound /\ s2.due = s.due
  /\ Carries(pdu) /\ ~r => s2.sound = (s.sound /\ PsdItems(pdu, s.at, k) = << >>) /\ s2.due = s.due
  /\ Carries(pdu) /\ r => s2.sound = h.sound /\ s2.due = h.due

\* One PDU more.
LEMMA SentPduIs ==
  ASSUME NEW s, SentRight(s), NEW pdu, WellFormed(pdu, MaxPsd), NEW k \in 0..MaxPsd,
         NEW lost \in BOOLEAN, NEW bad
  PROVE  SentRight(SentPdu(s, pdu, k, lost, bad)) /\ SentOn(s, SentPdu(s, pdu, k, lost, bad), pdu, k, lost, bad)
<1> DEFINE items == PsdItems(pdu, s.at, k)
           psd0 == Data(s, pdu, k)
           r == Reaches(s, pdu, lost)
           h0 == [sound |-> s.sound, due |-> s.due]
           heard == IF Carries(pdu) THEN HeardPdu(s, items, r) ELSE h0
           frame2 == WithPdu(s.frame, pdu, psd0, bad, lost)
           at2 == IF Carries(pdu) THEN (s.at + k) % TurnLen ELSE s.at
           brought == [prog |-> pdu.prog, stream |-> pdu.stream, psd |-> BytesOf(items),
                       packets |-> [i \in 1..Len(pdu.packets) |->
                                 [data |-> pdu.packets[i], ok |-> i \notin bad]]]
           pdus2 == IF r THEN Append(s.pdus, Brought(pdu, psd0, bad)) ELSE s.pdus
           s2 == SentPdu(s, pdu, k, lost, bad)
<1>1. pdu.stream \in Nat
  BY BoundsAssumption, PduIs
<1>2. r = (s.reach /\ ~lost /\ pdu.stream < MaxStreams)
  <2>1. (pdu.stream < MaxStreams) <=> ~(pdu.stream >= MaxStreams)
    BY <1>1 DEF MaxStreams
  <2>2. s.reach \in BOOLEAN
    BY DEF SentRight
  <2> QED
    BY <2>1, <2>2 DEF Reaches
<1>3. brought = Brought(pdu, psd0, bad)
  BY DEF Brought, Data
<1>4. s2 = [frame |-> frame2, at |-> at2, pdus |-> pdus2, reach |-> r,
            sound |-> heard.sound, due |-> heard.due]
  <2>1. s2 = [frame |-> frame2, at |-> at2, pdus |-> IF r THEN Append(s.pdus, brought) ELSE s.pdus,
              reach |-> r, sound |-> heard.sound, due |-> heard.due]
    <3> HIDE DEF r, brought
    <3>1. s2 = [frame |-> WithPdu(s.frame, pdu, BytesOf(items), bad, lost),
                at |-> IF Carries(pdu) THEN (s.at + k) % Len(PsdStream) ELSE s.at,
                pdus |-> IF r THEN Append(s.pdus, brought) ELSE s.pdus,
                reach |-> r,
                sound |-> (IF Carries(pdu) THEN HeardPdu(s, items, r) ELSE h0).sound,
                due |-> (IF Carries(pdu) THEN HeardPdu(s, items, r) ELSE h0).due]
      BY <1>2 DEF SentPdu, brought
    <3> HIDE DEF s2, items
    <3> QED
      BY <3>1 DEF Data, TurnLen, items
  <2> HIDE DEF brought, s2, frame2, heard, at2, r
  <2> QED
    BY <1>3, <2>1
<1>5. s.at \in 0..TurnLen - 1 /\ FrameRight(s.frame) /\ s.sound \in BOOLEAN /\ s.due \in Seq(Seq(Byte))
      /\ s.reach \in BOOLEAN
  BY DEF SentRight
<1>6. /\ items \in Seq(Item) /\ psd0 \in Seq(Byte) /\ Len(psd0) \in 0..MaxPsd
  BY <1>5, PsdItemsAre DEF Data
<1>7. FrameRight(frame2)
  <2>1. MaxPsd \in Nat
    BY BoundsAssumption
  <2> DEFINE f == s.frame
  <2>2. FrameRight(f) /\ frame2 = WithPdu(f, pdu, psd0, bad, lost)
    BY <1>5
  <2> HIDE DEF f, psd0, frame2
  <2> QED
    BY <1>6, <2>1, <2>2, PduAdded
<1>8. at2 \in 0..TurnLen - 1
  <2> DEFINE m == TurnLen
             a == s.at
  <2>1. m \in Nat \ {0} /\ a \in 0..m - 1 /\ k \in Nat
    BY <1>5, FirstPlace, BoundsAssumption
  <2> HIDE DEF m, a
  <2>2. a + k \in Int
    BY <2>1
  <2>3. (a + k) % m \in 0..m - 1
    BY <2>1, <2>2, Division
  <2> QED
    BY <2>1, <2>3 DEF a, m
<1>9. h0 \in Hearing
  BY <1>5 DEF Hearing
<1>10. /\ heard.sound \in BOOLEAN /\ heard.due \in Seq(Seq(Byte))
       /\ ~Carries(pdu) => heard.sound = s.sound /\ heard.due = s.due
       /\ Carries(pdu) /\ ~r => heard.sound = (s.sound /\ items = << >>) /\ heard.due = s.due
       /\ Carries(pdu) /\ r => heard = Heard(h0, items, AasSize)
  <2>1. CASE ~Carries(pdu)
    <3>1. heard = h0
      BY <2>1
    <3> HIDE DEF heard
    <3> QED
      BY <1>5, <2>1, <3>1
  <2>2. CASE Carries(pdu) /\ ~r
    <3>1. heard = [sound |-> s.sound /\ items = << >>, due |-> s.due]
      BY <2>2 DEF HeardPdu
    <3> HIDE DEF heard, items
    <3>2. (s.sound /\ items = << >>) \in BOOLEAN
      BY <1>5
    <3> QED
      BY <1>5, <2>2, <3>1, <3>2
  <2>3. CASE Carries(pdu) /\ r
    <3>1. heard = Heard(h0, items, AasSize)
      BY <2>3 DEF HeardPdu
    <3> HIDE DEF heard, items, h0
    <3>2. Heard(h0, items, AasSize) \in Hearing
      BY <1>6, <1>9, HeardIs
    <3>3. heard.sound \in BOOLEAN /\ heard.due \in Seq(Seq(Byte))
      BY <3>1, <3>2 DEF Hearing
    <3> QED
      BY <2>3, <3>1, <3>3
  <2> QED
    BY <2>1, <2>2, <2>3
<1>11. r \in BOOLEAN
  BY <1>5 DEF Reaches
<1> HIDE DEF s2, frame2, at2, pdus2, heard, r
<1>12. /\ s2.frame = frame2 /\ s2.at = at2 /\ s2.pdus = pdus2 /\ s2.reach = r
       /\ s2.sound = heard.sound /\ s2.due = heard.due
  BY <1>4
<1>13. SentRight(s2)
  BY <1>7, <1>8, <1>10, <1>11, <1>12 DEF SentRight
<1>14. SentOn(s, s2, pdu, k, lost, bad)
  BY <1>10, <1>12 DEF SentOn, frame2, at2, pdus2, r, items, h0
<1> QED
  BY <1>13, <1>14 DEF s2

\* Nothing of what is sent from s to s2 reaches the parser p.
Passed(s, s2, p) ==
  InStepAt(p, s2.sound, s2.at) /\ s2.pdus = s.pdus /\ s2.due = s.due /\ s2.reach = FALSE

\* A PDU that does not arrive leaves the parser in step, or nothing is sound any more.
LEMMA NotReached ==
  ASSUME NEW s, SentRight(s), NEW pdu, WellFormed(pdu, MaxPsd), NEW k \in 0..MaxPsd,
         NEW lost \in BOOLEAN, NEW bad, ~Reaches(s, pdu, lost),
         NEW p, InStepAt(p, s.sound, s.at)
  PROVE  Passed(s, SentPdu(s, pdu, k, lost, bad), p)
<1> DEFINE s2 == SentPdu(s, pdu, k, lost, bad)
           m == TurnLen
           a == s.at
<1>1. /\ s2.reach = Reaches(s, pdu, lost)
      /\ s2.at = IF Carries(pdu) THEN (s.at + k) % TurnLen ELSE s.at
      /\ s2.pdus = s.pdus
      /\ ~Carries(pdu) => s2.sound = s.sound /\ s2.due = s.due
      /\ Carries(pdu) => s2.sound = (s.sound /\ PsdItems(pdu, s.at, k) = << >>) /\ s2.due = s.due
  <2> DEFINE r == Reaches(s, pdu, lost)
  <2>1. /\ s2.reach = r
        /\ s2.at = IF Carries(pdu) THEN (s.at + k) % TurnLen ELSE s.at
        /\ s2.pdus = IF r THEN Append(s.pdus, Brought(pdu, Data(s, pdu, k), bad)) ELSE s.pdus
        /\ ~Carries(pdu) => s2.sound = s.sound /\ s2.due = s.due
        /\ Carries(pdu) /\ ~r => s2.sound = (s.sound /\ PsdItems(pdu, s.at, k) = << >>) /\ s2.due = s.due
    <3>1. SentOn(s, s2, pdu, k, lost, bad)
      BY SentPduIs
    <3> HIDE DEF s2
    <3> QED
      BY <3>1 DEF SentOn
  <2>2. ~r
    OBVIOUS
  <2> HIDE DEF s2, r
  <2> QED
    BY <2>1, <2>2 DEF r
<1>2. a \in 0..m - 1 /\ m \in Nat \ {0}
  BY FirstPlace DEF SentRight
<1>3. Carries(pdu) /\ PsdItems(pdu, s.at, k) = << >> => k = 0
  BY <1>2, PsdItemsAre
<1>4. (a + 0) % m = a
  <2> HIDE DEF a, m
  <2> QED
    BY <1>2
<1>5. s2.sound => s2.at = s.at /\ s.sound
  <2>1. CASE ~Carries(pdu)
    BY <1>1, <2>1
  <2>2. CASE Carries(pdu) /\ s2.sound
    BY <1>1, <1>3, <1>4, <2>2
  <2> QED
    BY <2>1, <2>2
<1>6. s2.reach = FALSE
  <2>1. Reaches(s, pdu, lost) = FALSE
    BY DEF Reaches
  <2> QED
    BY <1>1, <2>1
<1> HIDE DEF s2
<1>7. InStepAt(p, s2.sound, s2.at)
  BY <1>5 DEF InStepAt
<1> QED
  BY <1>1, <1>6, <1>7 DEF s2, Passed

-----------------------------------------------------------------------------
(* Station and receiver, PDU by PDU. *)

ParsersRight(parsers) ==
  /\ parsers \in [Prog -> Parser]
  /\ \A p \in Prog : Len(parsers[p].buf) <= AasSize /\ (p # 0 => parsers[p].buf = << >>)
TakenRight(x) ==
  /\ x = [at |-> x.at, pdus |-> x.pdus, psd |-> x.psd, out |-> x.out]
  /\ ParsersRight(x.psd) /\ x.out \in Seq(Seq(Byte))
Matches(out, due, before) == out = due \/ (~before /\ out # << >> /\ Tail(out) = due)

\* Process is as far as the station, or at the PDU it does not pass.
Abreast(s, x, f, end, before) ==
  /\ SentRight(s) /\ TakenRight(x) /\ x.pdus = s.pdus
  /\ InStepAt(x.psd[0], s.sound, s.at) /\ Matches(x.out, s.due, before)
  /\ IF s.reach THEN x.at = Len(s.frame.bytes) /\ Agrees(x.out, s.due, s.sound, before)
     ELSE TakeNext(x, f, end, AasSent) = x

\* A parser with what is taken by it.
LEMMA ParserAnd ==
  ASSUME NEW parsers, ParsersRight(parsers), NEW p \in Prog, NEW out \in Seq(Seq(Byte))
  PROVE  /\ [on |-> parsers[p].on, buf |-> parsers[p].buf, out |-> out] \in Parsing(AasSize)
         /\ parsers[p] = [on |-> parsers[p].on, buf |-> parsers[p].buf]
<1>1. parsers[p] \in Parser /\ Len(parsers[p].buf) <= AasSize
  BY DEF ParsersRight
<1> DEFINE q == parsers[p]
           b == q.buf
<1>2. q = [on |-> q.on, buf |-> b] /\ q.on \in BOOLEAN /\ b \in Seq(Byte)
  BY <1>1 DEF Parser
<1>3. Len(b) <= AasSize
  BY <1>1
<1> HIDE DEF b
<1>4. [on |-> q.on, buf |-> b, out |-> out] \in Parsing(AasSize)
  <2> DEFINE a == [on |-> q.on, buf |-> b, out |-> out]
  <2>1. a \in [on: BOOLEAN, buf: Seq(Byte), out: Seq(Seq(Byte))] /\ a.buf = b
    BY <1>2
  <2> HIDE DEF a
  <2>2. Len(a.buf) <= AasSize
    BY <1>3, <2>1
  <2> QED
    BY <2>1, <2>2 DEF Parsing, a
<1> QED
  BY <1>2, <1>4 DEF b

\* The parser of program p set to one that is right.
LEMMA ParserSet ==
  ASSUME NEW parsers, ParsersRight(parsers), NEW p \in Prog, NEW acc \in Parsing(AasSize),
         p # 0 => acc.buf = << >>
  PROVE  /\ ParsersRight([parsers EXCEPT ![p] = ParserOf(acc)])
         /\ [parsers EXCEPT ![p] = ParserOf(acc)][p] = ParserOf(acc)
         /\ ParserOf(acc).on = acc.on /\ ParserOf(acc).buf = acc.buf
<1>1. acc.on \in BOOLEAN /\ acc.buf \in Seq(Byte) /\ Len(acc.buf) <= AasSize
  BY DEF Parsing
<1> DEFINE q == ParserOf(acc)
           new == [parsers EXCEPT ![p] = q]
<1>2. q \in Parser /\ q.on = acc.on /\ q.buf = acc.buf
  BY <1>1 DEF Parser, ParserOf
<1> HIDE DEF q
<1>3. parsers \in [Prog -> Parser]
  BY DEF ParsersRight
<1>4. new \in [Prog -> Parser] /\ \A i \in Prog : new[i] = IF i = p THEN q ELSE parsers[i]
  BY <1>2, <1>3
<1> HIDE DEF new
<1>5. ASSUME NEW i \in Prog PROVE Len(new[i].buf) <= AasSize /\ (i # 0 => new[i].buf = << >>)
  <2>1. CASE i = p
    BY <1>1, <1>2, <1>4, <2>1
  <2>2. CASE i # p
    BY <1>4, <2>2 DEF ParsersRight
  <2> QED
    BY <2>1, <2>2
<1>6. ParsersRight(new)
  BY <1>4, <1>5 DEF ParsersRight
<1> QED
  BY <1>2, <1>4, <1>6 DEF new, q

\* One PDU more on both sides, which is not reached.
LEMMA PduMissed ==
  ASSUME NEW before \in BOOLEAN, NEW s, NEW x, NEW f, NEW end, Abreast(s, x, f, end, before),
         NEW pdu, NEW k \in 0..MaxPsd, NEW lost \in BOOLEAN, NEW bad, ~Reaches(s, pdu, lost),
         InFrame(f, Len(s.frame.bytes), pdu, MaxPsd, Data(s, pdu, k), bad, lost, end)
  PROVE  Abreast(SentPdu(s, pdu, k, lost, bad), TakeNext(x, f, end, AasSent), f, end, before)
<1> DEFINE s2 == SentPdu(s, pdu, k, lost, bad)
           x2 == TakeNext(x, f, end, AasSent)
           o == Len(s.frame.bytes)
           n == Len(pdu.packets)
<1>1. /\ SentRight(s) /\ TakenRight(x) /\ x.pdus = s.pdus
      /\ InStepAt(x.psd[0], s.sound, s.at) /\ Matches(x.out, s.due, before)
      /\ s.reach => x.at = o
      /\ ~s.reach => x2 = x
  BY DEF Abreast
<1>2. WellFormed(pdu, MaxPsd)
  BY DEF InFrame
<1>3. /\ InStepAt(x.psd[0], s2.sound, s2.at) /\ s2.pdus = s.pdus /\ s2.due = s.due /\ s2.reach = FALSE
  <2> DEFINE p == x.psd[0]
  <2>1. InStepAt(p, s.sound, s.at)
    BY <1>1
  <2> HIDE DEF p
  <2>2. Passed(s, SentPdu(s, pdu, k, lost, bad), p)
    BY <1>1, <1>2, <2>1, NotReached
  <2> QED
    BY <2>2 DEF p, Passed
<1>4. SentRight(s2)
  BY <1>1, <1>2, SentPduIs
<1>5. /\ TakenRight(x2) /\ x2.pdus = x.pdus /\ x2.psd = x.psd /\ x2.out = x.out
      /\ TakeNext(x2, f, end, AasSent) = x2
  <2>1. CASE ~s.reach
    BY <1>1, <2>1
  <2>2. CASE s.reach /\ lost
    <3>1. x2 = x
      <4>1. x.at = o
        BY <1>1, <2>2
      <4> DEFINE psd0 == Data(s, pdu, k)
      <4>2. InFrame(f, o, pdu, MaxPsd, psd0, bad, lost, end)
        OBVIOUS
      <4> HIDE DEF o, psd0
      <4>3. {h \in f.headers : h.at = x.at} = {}
        BY <2>2, <4>1, <4>2 DEF InFrame, Lies
      <4>4. TakeNext(x, f, end, AasSent) = x
        BY <4>3 DEF TakeNext
      <4> QED
        BY <4>4
    <3> HIDE DEF x2
    <3> QED
      BY <1>1, <3>1 DEF x2
  <2>3. CASE s.reach /\ ~lost
    <3>1. pdu.stream >= MaxStreams
      BY <2>3 DEF Reaches
    <3>2. x.at = o
      BY <1>1, <2>3
    <3>3. x2 = [x EXCEPT !.at = @ + n]
      <4> DEFINE psd0 == Data(s, pdu, k)
      <4>1. InFrame(f, o, pdu, MaxPsd, psd0, bad, lost, end)
        OBVIOUS
      <4> HIDE DEF o, psd0
      <4>2. TakeNext(x, f, end, AasSent) = [x EXCEPT !.at = @ + Len(pdu.packets)]
        BY <2>3, <3>1, <3>2, <4>1, PduTaken
      <4> QED
        BY <4>2
    <3>4. x = [at |-> x.at, pdus |-> x.pdus, psd |-> x.psd, out |-> x.out] /\ ParsersRight(x.psd)
          /\ x.out \in Seq(Seq(Byte))
      BY <1>1 DEF TakenRight
    <3> HIDE DEF x2
    <3>5. x2 = [at |-> o + n, pdus |-> x.pdus, psd |-> x.psd, out |-> x.out]
      BY <3>2, <3>3, <3>4
    <3>6. x2.at = o + n /\ x2.pdus = x.pdus /\ x2.psd = x.psd /\ x2.out = x.out
          /\ x2 = [at |-> x2.at, pdus |-> x2.pdus, psd |-> x2.psd, out |-> x2.out]
      BY <3>5
    <3>7. pdu.packets # << >>
      BY <1>2, <3>1 DEF WellFormed
    <3>8. TakeNext(x2, f, end, AasSent) = x2
      <4> DEFINE psd0 == Data(s, pdu, k)
      <4>1. InFrame(f, o, pdu, MaxPsd, psd0, bad, lost, end) /\ x2.at = o + Len(pdu.packets)
        BY <3>6
      <4> HIDE DEF o, psd0
      <4> QED
        BY <3>7, <4>1, NothingBehind
    <3>9. TakenRight(x2)
      BY <3>4, <3>6 DEF TakenRight
    <3> QED
      BY <3>6, <3>8, <3>9 DEF x2
  <2>4. s.reach \in BOOLEAN
    BY <1>1 DEF SentRight
  <2> QED
    BY <2>1, <2>2, <2>3, <2>4
<1> HIDE DEF s2, x2
<1>6. Abreast(s2, x2, f, end, before)
  BY <1>1, <1>3, <1>4, <1>5 DEF Abreast
<1> QED
  BY <1>6 DEF s2, x2

\* One PDU more on both sides, which is.
LEMMA PduReached ==
  ASSUME NEW before \in BOOLEAN, NEW s, NEW x, NEW f, NEW end, Abreast(s, x, f, end, before),
         NEW pdu, NEW k \in 0..MaxPsd, NEW lost \in BOOLEAN, NEW bad, Reaches(s, pdu, lost),
         InFrame(f, Len(s.frame.bytes), pdu, MaxPsd, Data(s, pdu, k), bad, lost, end)
  PROVE  Abreast(SentPdu(s, pdu, k, lost, bad), TakeNext(x, f, end, AasSent), f, end, before)
<1> DEFINE s2 == SentPdu(s, pdu, k, lost, bad)
           x2 == TakeNext(x, f, end, AasSent)
           o == Len(s.frame.bytes)
           psd0 == Data(s, pdu, k)
           q == PduLen(pdu, Len(psd0))
           g == pdu.prog
           acc == [on |-> x.psd[g].on, buf |-> x.psd[g].buf, out |-> x.out]
           p == ParsedBy(x, pdu, psd0, AasSent)
           items == PsdItems(pdu, s.at, k)
           h0 == [sound |-> s.sound, due |-> s.due]
<1>1. s.reach /\ ~lost /\ ~(pdu.stream >= MaxStreams)
  BY DEF Reaches
<1>2. /\ SentRight(s) /\ TakenRight(x) /\ x.pdus = s.pdus
      /\ InStepAt(x.psd[0], s.sound, s.at)
      /\ x.at = o /\ Agrees(x.out, s.due, s.sound, before)
  BY <1>1 DEF Abreast
<1>3. WellFormed(pdu, MaxPsd) /\ psd0 \in Seq(Byte) /\ Len(psd0) \in 0..MaxPsd /\ MaxPsd \in Nat
  BY DEF InFrame
<1>4. x2 = [at |-> o + q, pdus |-> Append(x.pdus, Brought(pdu, psd0, bad)),
            psd |-> [x.psd EXCEPT ![g] = ParserOf(p)], out |-> p.out]
  BY <1>1, <1>2, PduTaken
<1>5. SentRight(s2) /\ SentOn(s, s2, pdu, k, lost, bad)
  BY <1>2, <1>3, SentPduIs
<1>6. Len(s2.frame.bytes) = o + q
  <2>1. s2.frame = WithPdu(s.frame, pdu, psd0, bad, lost)
    BY <1>5 DEF SentOn
  <2>2. FrameRight(s.frame)
    BY <1>2 DEF SentRight
  <2>3. Len(WithPdu(s.frame, pdu, psd0, bad, lost).bytes) = o + q
    <3> DEFINE fr == s.frame
    <3>1. FrameRight(fr)
      BY <2>2
    <3> HIDE DEF fr, psd0
    <3>2. Len(WithPdu(fr, pdu, psd0, bad, lost).bytes) = Len(fr.bytes) + PduLen(pdu, Len(psd0))
      BY <1>3, <3>1, PduAdded
    <3> QED
      BY <3>2 DEF fr
  <2> QED
    BY <2>1, <2>3
<1>7. g \in Prog /\ 0 \in Prog
  BY <1>3, PduIs DEF Prog
<1>8. ParsersRight(x.psd) /\ x.out \in Seq(Seq(Byte))
  BY <1>2 DEF TakenRight
<1>9. AasSize \in Nat
  BY AasSizeAssumption
<1>10. acc \in Parsing(AasSize)
  BY <1>7, <1>8, ParserAnd
<1>11. p = Parsed(acc, psd0, AasSize, AasSent)
  BY DEF ParsedBy
<1>12. acc.on = x.psd[g].on /\ acc.buf = x.psd[g].buf /\ acc.out = x.out
  OBVIOUS
<1> HIDE DEF acc, psd0
<1>13. p \in Parsing(AasSize)
  BY <1>3, <1>9, <1>10, <1>11, ParsedIs
<1>14. s.at \in 0..TurnLen - 1 /\ s.sound \in BOOLEAN /\ s.due \in Seq(Seq(Byte))
  BY <1>2 DEF SentRight
<1>15. /\ ~Carries(pdu) => \A i \in 1..Len(psd0) : psd0[i] = Flag
       /\ ~Carries(pdu) /\ g = 0 => psd0 = << >>
       /\ Carries(pdu) => items = Turn(PsdStream, s.at, k)
  BY <1>14, PsdItemsAre DEF Data, psd0
<1>16. Reaches(s, pdu, lost) = TRUE
  BY DEF Reaches
<1>17. /\ s2.reach = TRUE
       /\ s2.at = IF Carries(pdu) THEN (s.at + k) % TurnLen ELSE s.at
       /\ s2.pdus = Append(s.pdus, Brought(pdu, psd0, bad))
       /\ ~Carries(pdu) => s2.sound = s.sound /\ s2.due = s.due
       /\ Carries(pdu) => s2.sound = Heard(h0, items, AasSize).sound /\ s2.due = Heard(h0, items, AasSize).due
  <2> HIDE DEF s2
  <2> QED
    BY <1>5, <1>16 DEF SentOn, psd0
<1> HIDE DEF p, s2, x2
<1>18. /\ x2.at = o + q /\ x2.pdus = Append(x.pdus, Brought(pdu, psd0, bad))
       /\ x2.psd = [x.psd EXCEPT ![g] = ParserOf(p)] /\ x2.out = p.out
       /\ x2 = [at |-> x2.at, pdus |-> x2.pdus, psd |-> x2.psd, out |-> x2.out]
  BY <1>4
<1>19. g # 0 => p.buf = << >> /\ p.out = x.out
  <2> SUFFICES ASSUME g # 0 PROVE p.buf = << >> /\ p.out = x.out
    OBVIOUS
  <2>1. acc.buf = << >>
    BY <1>7, <1>8, <1>12 DEF ParsersRight
  <2>2. ~Carries(pdu)
    BY DEF Carries
  <2>3. \A i \in 1..Len(psd0) : psd0[i] = Flag
    BY <1>15, <2>2
  <2> QED
    BY <1>3, <1>9, <1>10, <1>11, <1>12, <2>1, <2>3, ParsedFlags
<1>20. /\ ParsersRight(x2.psd) /\ x2.psd[g] = ParserOf(p)
       /\ ParserOf(p).on = p.on /\ ParserOf(p).buf = p.buf
  <2>1. g # 0 => p.buf = << >>
    BY <1>19
  <2> QED
    BY <1>7, <1>8, <1>13, <1>18, <2>1, ParserSet
<1>21. p.out \in Seq(Seq(Byte))
  BY <1>13 DEF Parsing
<1>22. TakenRight(x2)
  BY <1>18, <1>20, <1>21 DEF TakenRight
<1>23. InStepAt(x2.psd[0], s2.sound, s2.at) /\ Agrees(x2.out, s2.due, s2.sound, before)
  <2>1. CASE Carries(pdu)
    <3>1. g = 0
      BY <2>1 DEF Carries
    <3>2. h0 \in Hearing /\ h0.sound = s.sound /\ h0.due = s.due
      BY <1>14 DEF Hearing
    <3>3. psd0 = BytesOf(Turn(PsdStream, s.at, k))
      BY <1>15, <2>1 DEF psd0, Data
    <3>4. InStepAt(acc, s.sound, s.at)
      BY <1>2, <1>12, <3>1 DEF InStepAt, Mirrors
    <3>5. Agrees(acc.out, s.due, s.sound, before)
      BY <1>2, <1>12
    <3> HIDE DEF h0
    <3>6. LET it == Turn(PsdStream, s.at, k)
              acc2 == Parsed(acc, BytesOf(it), AasSize, AasSent)
              h2 == Heard(h0, it, AasSize) IN
          InStepAt(acc2, h2.sound, (s.at + k) % TurnLen) /\ Agrees(acc2.out, h2.due, h2.sound, before)
      <4>1. k \in Nat
        BY <1>3
      <4>2. InStepAt(acc, h0.sound, s.at) /\ Agrees(acc.out, h0.due, h0.sound, before)
        BY <3>2, <3>4, <3>5
      <4> DEFINE a == s.at
      <4>3. a \in 0..TurnLen - 1 /\ InStepAt(acc, h0.sound, a)
        BY <1>14, <4>2
      <4> HIDE DEF a
      <4>4. LET it == Turn(PsdStream, a, k)
                acc2 == Parsed(acc, BytesOf(it), AasSize, AasSent)
                h2 == Heard(h0, it, AasSize) IN
            InStepAt(acc2, h2.sound, (a + k) % TurnLen) /\ Agrees(acc2.out, h2.due, h2.sound, before)
        BY <1>10, <3>2, <4>1, <4>2, <4>3, TurnTogether
      <4> QED
        BY <4>4 DEF a
    <3>7. InStepAt(p, s2.sound, s2.at) /\ Agrees(p.out, s2.due, s2.sound, before)
      BY <1>11, <1>15, <1>17, <2>1, <3>3, <3>6
    <3>8. x2.psd[0].on = p.on /\ x2.psd[0].buf = p.buf
      BY <1>20, <3>1
    <3>9. InStepAt(x2.psd[0], s2.sound, s2.at)
      BY <3>7, <3>8 DEF InStepAt, Mirrors
    <3> QED
      BY <1>18, <3>7, <3>9
  <2>2. CASE ~Carries(pdu) /\ g = 0
    <3>1. psd0 = << >>
      BY <1>15, <2>2
    <3>2. p = acc
      BY <1>9, <1>10, <1>11, <3>1, ParsedEmpty
    <3>3. x2.psd[0].on = x.psd[0].on /\ x2.psd[0].buf = x.psd[0].buf /\ x2.out = x.out
      BY <1>12, <1>18, <1>20, <2>2, <3>2
    <3>4. InStepAt(x2.psd[0], s.sound, s.at)
      BY <1>2, <3>3 DEF InStepAt, Mirrors
    <3> QED
      BY <1>2, <1>17, <2>2, <3>3, <3>4
  <2>3. CASE g # 0
    <3>1. ~Carries(pdu)
      BY <2>3 DEF Carries
    <3>2. x2.psd[0] = x.psd[0] /\ x2.out = x.out
      <4>1. x.psd \in [Prog -> Parser]
        BY <1>8 DEF ParsersRight
      <4> QED
        BY <1>7, <1>18, <1>19, <2>3, <4>1
    <3> QED
      BY <1>2, <1>17, <3>1, <3>2
  <2> QED
    BY <2>1, <2>2, <2>3
<1>24. Matches(x2.out, s2.due, before)
  BY <1>23 DEF Agrees, Matches
<1>25. x2.pdus = s2.pdus
  BY <1>2, <1>17, <1>18
<1>26. Abreast(s2, x2, f, end, before)
  BY <1>5, <1>6, <1>17, <1>18, <1>22, <1>23, <1>24, <1>25 DEF Abreast, s2
<1> QED
  BY <1>26 DEF s2, x2

-----------------------------------------------------------------------------
(* All the PDUs of a frame. *)

SentStart == [frame |-> NoPdus, at |-> psdAt, pdus |-> << >>, reach |-> TRUE, sound |-> sound, due |-> << >>]
SentRun(g, shape, n, lost, bad) ==
  /\ g[0] = SentStart
  /\ \A j \in 1..Len(shape) : g[j] = SentPdu(g[j - 1], shape[j], n[j], j \in lost, bad[j])
WalkStart(parsers) == [at |-> 0, pdus |-> << >>, psd |-> parsers, out |-> << >>]
WalkRun(w, parsers, f, end) ==
  /\ w[0] = WalkStart(parsers)
  /\ \A i \in 1..Len(f.bytes) : w[i] = TakeNext(w[i - 1], f, end, AasSent)

\* What is sent after each PDU.
LEMMA SentRuns ==
  ASSUME NEW shape, Len(shape) \in Nat, NEW n, NEW lost, NEW bad
  PROVE  \E g : SentRun(g, shape, n, lost, bad) /\ Sent(shape, n, lost, bad) = g[Len(shape)]
<1> DEFINE m == Len(shape)
           a == SentStart
           Step(x, j) == SentPdu(x, shape[j], n[j], j \in lost, bad[j])
           Goes(f, k) == f = [j \in 0..k |-> IF j = 0 THEN a ELSE Step(f[j - 1], j)]
           T == {k \in 0..m : \E f : Goes(f, k)}
           g == CHOOSE f : Goes(f, m)
<1>1. m \in Nat
  OBVIOUS
<1>2. Sent(shape, n, lost, bad) = g[m]
  BY DEF Sent, SentStart
<1> HIDE DEF m, a, Step
<1>3. 0 \in T
  <2> DEFINE f == [j \in 0..0 |-> a]
  <2>1. Goes(f, 0)
    OBVIOUS
  <2> HIDE DEF f
  <2> QED
    BY <1>1, <2>1
<1>4. ASSUME NEW k \in 0..m - 1, k \in T PROVE k + 1 \in T
  <2>1. PICK f : Goes(f, k)
    BY <1>4
  <2> DEFINE h == [j \in 0..k + 1 |-> IF j = k + 1 THEN Step(f[k], k + 1) ELSE f[j]]
             h2 == [j \in 0..k + 1 |-> IF j = 0 THEN a ELSE Step(h[j - 1], j)]
  <2>2. \A j \in 0..k : f[j] = IF j = 0 THEN a ELSE Step(f[j - 1], j)
    BY <2>1
  <2>3. ASSUME NEW j \in 0..k + 1 PROVE h[j] = h2[j]
    <3>1. CASE j = k + 1
      <4>1. j # 0 /\ j - 1 = k /\ k \in 0..k + 1 /\ k # k + 1
        BY <1>1, <3>1
      <4> QED
        BY <3>1, <4>1
    <3>2. CASE j # k + 1 /\ j # 0
      <4>1. j \in 0..k /\ j - 1 \in 0..k + 1 /\ j - 1 # k + 1
        BY <1>1, <3>2
      <4>2. h[j - 1] = f[j - 1] /\ h[j] = f[j]
        BY <3>2, <4>1
      <4> QED
        BY <2>2, <3>2, <4>1, <4>2
    <3>3. CASE j = 0
      <4>1. j \in 0..k /\ j # k + 1
        BY <1>1, <3>3
      <4> QED
        BY <2>2, <3>3, <4>1
    <3> QED
      BY <3>1, <3>2, <3>3
  <2>4. h = h2
    BY <2>3
  <2>5. Goes(h, k + 1)
    BY <2>4
  <2>6. k + 1 \in 0..m
    BY <1>1
  <2> HIDE DEF h, Goes
  <2> QED
    BY <2>5, <2>6
<1>5. m \in T
  <2> HIDE DEF T
  <2>1. 0..m \subseteq T
    BY <1>1, <1>3, <1>4, Inductive
  <2> QED
    BY <1>1, <2>1
<1>6. Goes(g, m)
  <2> HIDE DEF Goes
  <2>1. \E f : Goes(f, m)
    BY <1>5
  <2> QED
    BY <2>1
<1> HIDE DEF g
<1>7. g[0] = a /\ \A j \in 1..m : g[j] = Step(g[j - 1], j)
  BY <1>1, <1>6
<1> QED
  BY <1>2, <1>7 DEF SentRun, m, a, Step

\* What is taken after each round of process.
LEMMA WalkRuns ==
  ASSUME NEW parsers, NEW f, Len(f.bytes) \in Nat, NEW end
  PROVE  \E w : WalkRun(w, parsers, f, end) /\ Walk(parsers, f, end, AasSent) = w[Len(f.bytes)]
<1> DEFINE n == Len(f.bytes)
           a == WalkStart(parsers)
           Step(x, j) == TakeNext(x, f, end, AasSent)
           Goes(v, k) == v = [j \in 0..k |-> IF j = 0 THEN a ELSE Step(v[j - 1], j)]
           T == {k \in 0..n : \E v : Goes(v, k)}
           g == CHOOSE v : Goes(v, n)
<1>1. n \in Nat
  OBVIOUS
<1>2. Walk(parsers, f, end, AasSent) = g[n]
  BY DEF Walk, WalkStart
<1> HIDE DEF n, a, Step
<1>3. 0 \in T
  <2> DEFINE v == [j \in 0..0 |-> a]
  <2>1. Goes(v, 0)
    OBVIOUS
  <2> HIDE DEF v
  <2> QED
    BY <1>1, <2>1
<1>4. ASSUME NEW k \in 0..n - 1, k \in T PROVE k + 1 \in T
  <2>1. PICK v : Goes(v, k)
    BY <1>4
  <2> DEFINE h == [j \in 0..k + 1 |-> IF j = k + 1 THEN Step(v[k], k + 1) ELSE v[j]]
             h2 == [j \in 0..k + 1 |-> IF j = 0 THEN a ELSE Step(h[j - 1], j)]
  <2>2. \A j \in 0..k : v[j] = IF j = 0 THEN a ELSE Step(v[j - 1], j)
    BY <2>1
  <2>3. ASSUME NEW j \in 0..k + 1 PROVE h[j] = h2[j]
    <3>1. CASE j = k + 1
      <4>1. j # 0 /\ j - 1 = k /\ k \in 0..k + 1 /\ k # k + 1
        BY <1>1, <3>1
      <4> QED
        BY <3>1, <4>1
    <3>2. CASE j # k + 1 /\ j # 0
      <4>1. j \in 0..k /\ j - 1 \in 0..k + 1 /\ j - 1 # k + 1
        BY <1>1, <3>2
      <4>2. h[j - 1] = v[j - 1] /\ h[j] = v[j]
        BY <3>2, <4>1
      <4> QED
        BY <2>2, <3>2, <4>1, <4>2
    <3>3. CASE j = 0
      <4>1. j \in 0..k /\ j # k + 1
        BY <1>1, <3>3
      <4> QED
        BY <2>2, <3>3, <4>1
    <3> QED
      BY <3>1, <3>2, <3>3
  <2>4. h = h2
    BY <2>3
  <2>5. Goes(h, k + 1)
    BY <2>4
  <2>6. k + 1 \in 0..n
    BY <1>1
  <2> HIDE DEF h, Goes
  <2> QED
    BY <2>5, <2>6
<1>5. n \in T
  <2> HIDE DEF T
  <2>1. 0..n \subseteq T
    BY <1>1, <1>3, <1>4, Inductive
  <2> QED
    BY <1>1, <2>1
<1>6. Goes(g, n)
  <2> HIDE DEF Goes
  <2>1. \E v : Goes(v, n)
    BY <1>5
  <2> QED
    BY <2>1
<1> HIDE DEF g
<1>7. g[0] = a /\ \A j \in 1..n : g[j] = Step(g[j - 1], j)
  BY <1>1, <1>6
<1> QED
  BY <1>2, <1>7 DEF WalkRun, n, a, Step

ShapeRight(shape, n) ==
  /\ Len(shape) \in Nat /\ \A j \in 1..Len(shape) : WellFormed(shape[j], MaxPsd) /\ n[j] \in 0..MaxPsd

\* s2 is s with one more PDU in its frame.
OneBuilt(s, s2, pdu, k, lost, bad) ==
  /\ SentRight(s2) /\ Grown(s.frame, s2.frame)
  /\ Len(s.frame.bytes) \in Nat /\ Len(s2.frame.bytes) \in Nat /\ Len(s.frame.bytes) < Len(s2.frame.bytes)
  /\ Lies(s2.frame, Len(s.frame.bytes), pdu, Data(s, pdu, k), bad, lost)

\* A PDU that is put into a frame lies there, and disturbs none that lay there before.
LEMMA PduBuilt ==
  ASSUME NEW s, SentRight(s), NEW pdu, WellFormed(pdu, MaxPsd), NEW k \in 0..MaxPsd,
         NEW lost \in BOOLEAN, NEW bad
  PROVE  OneBuilt(s, SentPdu(s, pdu, k, lost, bad), pdu, k, lost, bad)
<1> DEFINE s2 == SentPdu(s, pdu, k, lost, bad)
           f == s.frame
           f2 == s2.frame
           psd0 == Data(s, pdu, k)
           a == s.at
<1>1. SentRight(s2) /\ SentOn(s, s2, pdu, k, lost, bad)
  BY SentPduIs
<1>2. f2 = WithPdu(f, pdu, psd0, bad, lost)
  <2> HIDE DEF s2
  <2> QED
    BY <1>1 DEF SentOn
<1>3. FrameRight(f) /\ a \in 0..TurnLen - 1
  BY DEF SentRight
<1>4. psd0 \in Seq(Byte) /\ Len(psd0) \in 0..MaxPsd
  BY <1>3, PsdItemsAre DEF Data
<1>5. MaxPsd \in Nat
  BY BoundsAssumption
<1> HIDE DEF s2, f, f2, psd0, a
<1>6. /\ FrameRight(f2) /\ Grown(f, f2) /\ Len(f2.bytes) = Len(f.bytes) + PduLen(pdu, Len(psd0))
      /\ Lies(f2, Len(f.bytes), pdu, psd0, bad, lost)
  BY <1>2, <1>3, <1>4, <1>5, PduAdded
<1>7. f.bytes \in Seq(Byte) /\ f2.bytes \in Seq(Byte)
  BY <1>3, <1>6 DEF FrameRight
<1> DEFINE o == Len(f.bytes)
           q == PduLen(pdu, Len(psd0))
           o2 == Len(f2.bytes)
<1>8. o \in Nat /\ o2 \in Nat /\ o2 = o + q
  BY <1>6, <1>7, LenProperties
<1>9. q > CodewordLen /\ CodewordLen \in Nat /\ q \in Nat
  <2>1. Len(psd0) \in Nat
    BY <1>4, LenProperties
  <2> QED
    BY <1>4, <1>5, <2>1, LocationsFit, PduIs, PduLenIs
<1> HIDE DEF o, q, o2
<1>10. o < o2
  BY <1>8, <1>9
<1> QED
  BY <1>1, <1>6, <1>8, <1>10 DEF o, o2, f, f2, psd0, s2, OneBuilt

\* After i PDUs, all of them are in the frame.
Built(g, shape, n, lost, bad, i) ==
  /\ SentRight(g[i]) /\ Len(g[i].frame.bytes) \in Nat /\ i <= Len(g[i].frame.bytes)
  /\ \A j \in 1..i : SentRight(g[j - 1])
  /\ \A j \in 1..i :
       Lies(g[i].frame, Len(g[j - 1].frame.bytes), shape[j], Data(g[j - 1], shape[j], n[j]), bad[j], j \in lost)

\* All PDUs that are put into a frame lie there, by induction over them.
LEMMA FramesBuilt ==
  ASSUME NEW shape, NEW n, ShapeRight(shape, n), NEW lost, NEW bad,
         NEW g, SentRun(g, shape, n, lost, bad), psdAt \in 0..TurnLen - 1, sound \in BOOLEAN
  PROVE  \A i \in 0..Len(shape) : Built(g, shape, n, lost, bad, i)
<1> DEFINE m == Len(shape)
           T == {i \in 0..m : Built(g, shape, n, lost, bad, i)}
<1>1. m \in Nat /\ \A j \in 1..m : WellFormed(shape[j], MaxPsd) /\ n[j] \in 0..MaxPsd
  BY DEF ShapeRight
<1>2. g[0] = SentStart /\ \A j \in 1..m : g[j] = SentPdu(g[j - 1], shape[j], n[j], j \in lost, bad[j])
  BY DEF SentRun
<1> HIDE DEF m
<1>3. 0 \in T
  <2>1. /\ g[0].frame = NoPdus /\ g[0].at = psdAt /\ g[0].reach = TRUE /\ g[0].sound = sound
        /\ g[0].due = << >>
    BY <1>2 DEF SentStart
  <2>2. FrameRight(NoPdus) /\ Len(NoPdus.bytes) = 0
    BY DEF FrameRight, NoPdus
  <2>3. SentRight(g[0])
    <3> DEFINE s == g[0]
               f == s.frame
               a == s.at
               d == s.due
    <3>1. FrameRight(f) /\ a \in 0..TurnLen - 1 /\ d \in Seq(Seq(Byte)) /\ s.reach \in BOOLEAN /\ s.sound \in BOOLEAN
      <4>1. d = << >> /\ f = NoPdus /\ a = psdAt
        BY <2>1
      <4>2. s.reach \in BOOLEAN /\ s.sound \in BOOLEAN
        BY <2>1
      <4> HIDE DEF d, f, a, s
      <4>3. d \in Seq(Seq(Byte))
        BY <4>1
      <4> QED
        BY <2>2, <4>1, <4>2, <4>3
    <3>2. SentRight(s)
      <4> HIDE DEF s, d, f, a
      <4> QED
        BY <3>1 DEF SentRight, f, a, d
    <3> QED
      BY <3>2
  <2>4. Built(g, shape, n, lost, bad, 0)
    <3>1. Len(g[0].frame.bytes) = 0
      BY <2>1, <2>2
    <3> DEFINE x == Len(g[0].frame.bytes)
    <3>2. x \in Nat /\ 0 <= x
      BY <3>1
    <3> QED
      BY <2>3, <3>2 DEF Built
  <2> QED
    BY <1>1, <2>4
<1>4. ASSUME NEW i \in 0..m - 1, i \in T PROVE i + 1 \in T
  <2> DEFINE s == g[i]
             s2 == g[i + 1]
             pdu == shape[i + 1]
             k == n[i + 1]
             l == (i + 1) \in lost
             b == bad[i + 1]
             f == s.frame
             f2 == s2.frame
  <2>1. Built(g, shape, n, lost, bad, i)
    BY <1>4
  <2>2. i \in Nat /\ i + 1 \in 1..m /\ (i + 1) - 1 = i /\ i + 1 \in 0..m
    BY <1>1
  <2>3. s2 = SentPdu(s, pdu, k, l, b) /\ WellFormed(pdu, MaxPsd) /\ k \in 0..MaxPsd
    BY <1>1, <1>2, <2>2
  <2>4. SentRight(s) /\ Len(f.bytes) \in Nat /\ i <= Len(f.bytes)
    BY <2>1 DEF Built
  <2>5. l \in BOOLEAN
    OBVIOUS
  <2> HIDE DEF s, s2, pdu, k, l, b
  <2>6. OneBuilt(s, s2, pdu, k, l, b)
    BY <2>3, <2>4, <2>5, PduBuilt
  <2>7. /\ SentRight(s2) /\ Grown(f, f2) /\ Len(f2.bytes) \in Nat /\ Len(f.bytes) < Len(f2.bytes)
        /\ Lies(f2, Len(f.bytes), pdu, Data(s, pdu, k), b, l)
    BY <2>6 DEF OneBuilt
  <2> DEFINE x == Len(f.bytes)
             x2 == Len(f2.bytes)
  <2>8. x \in Nat /\ x2 \in Nat /\ i <= x /\ x < x2
    BY <2>4, <2>7
  <2> HIDE DEF x, x2
  <2>9. i + 1 <= x2
    BY <2>2, <2>8
  <2>10. ASSUME NEW j \in 1..i + 1
         PROVE  Lies(f2, Len(g[j - 1].frame.bytes), shape[j], Data(g[j - 1], shape[j], n[j]), bad[j], j \in lost)
    <3>1. CASE j = i + 1
      BY <2>2, <2>7, <3>1 DEF s, pdu, k, l, b, f
    <3>2. CASE j # i + 1
      <4> DEFINE o == Len(g[j - 1].frame.bytes)
                 pd == shape[j]
                 t == g[j - 1]
                 psd0 == Data(t, pd, n[j])
                 bj == bad[j]
                 lj == j \in lost
      <4>1. j \in 1..i /\ j \in 1..m
        BY <1>1, <2>2, <3>2
      <4>2. Lies(f, o, pd, psd0, bj, lj)
        BY <2>1, <4>1 DEF Built, s, f
      <4>3. WellFormed(pd, MaxPsd)
        BY <1>1, <4>1
      <4>4. psd0 \in Seq(Byte) /\ Len(psd0) \in 0..MaxPsd
        <5>1. SentRight(t)
          BY <2>1, <4>1 DEF Built
        <5> DEFINE a == t.at
        <5>2. a \in 0..TurnLen - 1
          BY <5>1 DEF SentRight
        <5>3. n[j] \in 0..MaxPsd
          BY <1>1, <4>1
        <5> HIDE DEF t, pd
        <5> QED
          BY <5>2, <5>3, PsdItemsAre DEF Data
      <4>5. MaxPsd \in Nat
        BY BoundsAssumption
      <4> HIDE DEF o, pd, psd0, bj, lj, f, f2
      <4>6. Lies(f2, o, pd, psd0, bj, lj)
        BY <2>8, <4>2, <4>3, <4>4, <4>5, <2>7, StaysThere DEF x, x2
      <4> QED
        BY <4>6 DEF o, pd, psd0, bj, lj, f, f2
    <3> QED
      BY <3>1, <3>2
  <2>12. ASSUME NEW j \in 1..i + 1 PROVE SentRight(g[j - 1])
    <3>1. CASE j = i + 1
      BY <2>2, <2>4, <3>1 DEF s
    <3>2. CASE j # i + 1
      <4>1. j \in 1..i
        BY <2>2, <3>2
      <4> QED
        BY <2>1, <4>1 DEF Built
    <3> QED
      BY <3>1, <3>2
  <2>11. Built(g, shape, n, lost, bad, i + 1)
    BY <2>7, <2>8, <2>9, <2>10, <2>12 DEF Built, x2, s2, f2
  <2> QED
    BY <2>2, <2>11
<1>5. 0..m \subseteq T
  <2> HIDE DEF T
  <2> QED
    BY <1>1, <1>3, <1>4, Inductive
<1> QED
  BY <1>5 DEF m

\* The frame f begins with what s sent, and the audio ends behind it.
Begins(f, s, end) ==
  /\ f.bytes \in Seq(Byte) /\ Grown(s.frame, f) /\ f.headers = s.frame.headers
  /\ end \in Nat /\ Len(s.frame.bytes) <= end /\ end <= Len(f.bytes)

\* Each PDU is in it.
LEMMA PdusThere ==
  ASSUME NEW shape, NEW n, ShapeRight(shape, n), NEW lost, NEW bad, NEW g,
         Built(g, shape, n, lost, bad, Len(shape)), NEW f, NEW end, Begins(f, g[Len(shape)], end)
  PROVE  \A j \in 1..Len(shape) :
           InFrame(f, Len(g[j - 1].frame.bytes), shape[j], MaxPsd, Data(g[j - 1], shape[j], n[j]), bad[j],
                   j \in lost, end)
<1> SUFFICES ASSUME NEW j \in 1..Len(shape)
             PROVE  InFrame(f, Len(g[j - 1].frame.bytes), shape[j], MaxPsd, Data(g[j - 1], shape[j], n[j]),
                            bad[j], j \in lost, end)
  OBVIOUS
<1> DEFINE m == Len(shape)
           fr == g[m].frame
           t == g[j - 1]
           o == Len(t.frame.bytes)
           pd == shape[j]
           k == n[j]
           psd0 == Data(t, pd, k)
           b == bad[j]
           l == j \in lost
<1>1. m \in Nat /\ WellFormed(pd, MaxPsd) /\ k \in 0..MaxPsd
  BY DEF ShapeRight
<1>2. SentRight(t) /\ Lies(fr, o, pd, psd0, b, l) /\ Len(fr.bytes) \in Nat
  BY DEF Built
<1>3. /\ f.bytes \in Seq(Byte) /\ Grown(fr, f)
      /\ end \in Nat /\ Len(fr.bytes) <= end /\ end <= Len(f.bytes)
  BY DEF Begins
<1>4. psd0 \in Seq(Byte) /\ Len(psd0) \in 0..MaxPsd
  <2> DEFINE a == t.at
  <2>1. a \in 0..TurnLen - 1
    BY <1>2 DEF SentRight
  <2> HIDE DEF t, pd, k
  <2> QED
    BY <1>1, <2>1, PsdItemsAre DEF Data
<1>5. MaxPsd \in Nat
  BY BoundsAssumption
<1>6. Len(f.bytes) \in Nat
  BY <1>3, LenProperties
<1> HIDE DEF m, fr, o, pd, psd0, b, l
<1>7. Lies(f, o, pd, psd0, b, l)
  BY <1>1, <1>2, <1>3, <1>4, <1>5, <1>6, StaysThere
<1>8. o + PduLen(pd, Len(psd0)) <= end
  <2>1. o \in Nat /\ o + PduLen(pd, Len(psd0)) <= Len(fr.bytes)
    BY <1>2 DEF Lies
  <2>2. PduLen(pd, Len(psd0)) \in Nat
    <3>1. Len(psd0) \in Nat
      BY <1>4, LenProperties
    <3> QED
      BY <1>1, <3>1, PduLenIs
  <2> DEFINE q == PduLen(pd, Len(psd0))
             x == Len(fr.bytes)
  <2>3. o \in Nat /\ q \in Nat /\ x \in Nat /\ o + q <= x /\ x <= end /\ end \in Nat
    BY <1>2, <1>3, <2>1, <2>2
  <2> HIDE DEF q, x
  <2>4. o + q <= end
    BY <2>3
  <2> QED
    BY <2>4 DEF q
<1>9. InFrame(f, o, pd, MaxPsd, psd0, b, l, end)
  BY <1>1, <1>3, <1>4, <1>5, <1>7, <1>8 DEF InFrame
<1> QED
  BY <1>9 DEF o, pd, psd0, b, l

\* Station and receiver go on together, PDU by PDU.
LEMMA AbreastOn ==
  ASSUME NEW before \in BOOLEAN, NEW s, NEW x, NEW f, NEW end, Abreast(s, x, f, end, before),
         NEW pdu, NEW k \in 0..MaxPsd, NEW lost \in BOOLEAN, NEW bad,
         InFrame(f, Len(s.frame.bytes), pdu, MaxPsd, Data(s, pdu, k), bad, lost, end)
  PROVE  Abreast(SentPdu(s, pdu, k, lost, bad), TakeNext(x, f, end, AasSent), f, end, before)
<1>1. CASE Reaches(s, pdu, lost)
  BY <1>1, PduReached
<1>2. CASE ~Reaches(s, pdu, lost)
  BY <1>2, PduMissed
<1> QED
  BY <1>1, <1>2

\* At the beginning.
LEMMA AbreastFirst ==
  ASSUME psdAt \in 0..TurnLen - 1, sound \in BOOLEAN, NEW parsers, ParsersRight(parsers),
         InStepAt(parsers[0], sound, psdAt), NEW f, NEW end, SentRight(SentStart)
  PROVE  Abreast(SentStart, WalkStart(parsers), f, end, sound)
<1> DEFINE s == SentStart
           x == WalkStart(parsers)
<1>1. /\ s.frame = NoPdus /\ s.at = psdAt /\ s.pdus = << >> /\ s.reach = TRUE /\ s.sound = sound
      /\ s.due = << >>
  BY DEF SentStart
<1>2. x.at = 0 /\ x.pdus = << >> /\ x.psd = parsers /\ x.out = << >>
      /\ x = [at |-> x.at, pdus |-> x.pdus, psd |-> x.psd, out |-> x.out]
  BY DEF WalkStart
<1> HIDE DEF s, x
<1>3. Len(s.frame.bytes) = 0
  BY <1>1 DEF NoPdus
<1>4. x.out \in Seq(Seq(Byte))
  BY <1>2
<1>5. TakenRight(x)
  BY <1>2, <1>4 DEF TakenRight
<1>6. Matches(x.out, s.due, sound) /\ Agrees(x.out, s.due, s.sound, sound)
  BY <1>1, <1>2 DEF Matches, Agrees
<1>7. InStepAt(x.psd[0], s.sound, s.at)
  BY <1>1, <1>2
<1>8. SentRight(s)
  BY DEF s
<1>9. Abreast(s, x, f, end, sound)
  BY <1>1, <1>2, <1>3, <1>5, <1>6, <1>7, <1>8 DEF Abreast
<1> QED
  BY <1>9 DEF s, x

\* At the end.
LEMMA AbreastLast ==
  ASSUME NEW before, NEW s, NEW x, NEW f, NEW end, Abreast(s, x, f, end, before), Begins(f, s, end)
  PROVE  TakeNext(x, f, end, AasSent) = x
<1>1. CASE ~s.reach
  BY <1>1 DEF Abreast
<1>2. CASE s.reach
  <2> DEFINE fr == s.frame
             o == Len(fr.bytes)
  <2>1. x.at = o /\ FrameRight(fr) /\ f.headers = fr.headers
    BY <1>2 DEF Abreast, SentRight, Begins
  <2>2. o \in Nat
    BY <2>1, LenProperties DEF FrameRight
  <2>3. \A h \in fr.headers : h.at \in 0..o - 1
    BY <2>1 DEF FrameRight
  <2> HIDE DEF o, fr
  <2>4. \A h \in f.headers : h.at # x.at
    BY <2>1, <2>2, <2>3
  <2>5. {h \in f.headers : h.at = x.at} = {}
    BY <2>4
  <2> QED
    BY <2>5 DEF TakeNext
<1>3. s.reach \in BOOLEAN
  BY DEF Abreast, SentRight
<1> QED
  BY <1>1, <1>2, <1>3

\* What comes of the frame f, a is what process took.
Delivered(s, a, before) ==
  /\ SentRight(s) /\ TakenRight(a) /\ a.pdus = s.pdus
  /\ InStepAt(a.psd[0], s.sound, s.at) /\ Matches(a.out, s.due, before)

\* process takes a frame apart as it was put together, by induction over its PDUs: at every one the
\* station and process have come equally far.
LEMMA ShapeTaken ==
  ASSUME NEW shape, NEW n, ShapeRight(shape, n), NEW lost, NEW bad,
         psdAt \in 0..TurnLen - 1, sound \in BOOLEAN,
         NEW parsers, ParsersRight(parsers), InStepAt(parsers[0], sound, psdAt),
         NEW f, NEW end, Begins(f, Sent(shape, n, lost, bad), end)
  PROVE  Delivered(Sent(shape, n, lost, bad), Walk(parsers, f, end, AasSent), sound)
<1> DEFINE m == Len(shape)
           N == Len(f.bytes)
<1>1. m \in Nat /\ \A j \in 1..m : WellFormed(shape[j], MaxPsd) /\ n[j] \in 0..MaxPsd
  BY DEF ShapeRight
<1>2. PICK g : SentRun(g, shape, n, lost, bad) /\ Sent(shape, n, lost, bad) = g[m]
  BY <1>1, SentRuns
<1>3. N \in Nat
  BY LenProperties DEF Begins
<1>4. PICK w : WalkRun(w, parsers, f, end) /\ Walk(parsers, f, end, AasSent) = w[N]
  BY <1>3, WalkRuns
<1>5. \A i \in 0..Len(shape) : Built(g, shape, n, lost, bad, i)
  BY <1>2, FramesBuilt
<1>6. Begins(f, g[Len(shape)], end)
  BY <1>2
<1>7. Built(g, shape, n, lost, bad, Len(shape))
  BY <1>1, <1>5
<1>8. \A j \in 1..Len(shape) :
        InFrame(f, Len(g[j - 1].frame.bytes), shape[j], MaxPsd, Data(g[j - 1], shape[j], n[j]), bad[j],
                j \in lost, end)
  BY <1>6, <1>7, PdusThere
<1>9. /\ g[0] = SentStart /\ \A j \in 1..m : g[j] = SentPdu(g[j - 1], shape[j], n[j], j \in lost, bad[j])
      /\ w[0] = WalkStart(parsers) /\ \A i \in 1..N : w[i] = TakeNext(w[i - 1], f, end, AasSent)
  BY <1>2, <1>4 DEF SentRun, WalkRun
<1>10. m <= N
  <2> DEFINE x == Len(g[m].frame.bytes)
  <2>1. m <= x /\ x \in Nat
    BY <1>7 DEF Built
  <2>2. x <= end /\ end <= N /\ end \in Nat
    BY <1>6 DEF Begins
  <2> HIDE DEF x, N, m
  <2> QED
    BY <1>1, <1>3, <2>1, <2>2
<1> DEFINE T == {i \in 0..m : Abreast(g[i], w[i], f, end, sound)}
<1> HIDE DEF m, N
<1>11. 0 \in T
  <2>1. SentRight(SentStart)
    <3>1. Built(g, shape, n, lost, bad, 0)
      BY <1>1, <1>5 DEF m
    <3> QED
      BY <1>9, <3>1 DEF Built
  <2>2. Abreast(SentStart, WalkStart(parsers), f, end, sound)
    BY <2>1, AbreastFirst
  <2> QED
    BY <1>1, <1>9, <2>2
<1>12. ASSUME NEW i \in 0..m - 1, i \in T PROVE i + 1 \in T
  <2> DEFINE s == g[i]
             x == w[i]
             pd == shape[i + 1]
             k == n[i + 1]
             b == bad[i + 1]
             l == (i + 1) \in lost
  <2>1. i + 1 \in 1..m /\ i + 1 \in 1..N /\ (i + 1) - 1 = i /\ i + 1 \in 0..m
    BY <1>1, <1>3, <1>10
  <2>2. Abreast(s, x, f, end, sound)
    BY <1>12
  <2>3. InFrame(f, Len(s.frame.bytes), pd, MaxPsd, Data(s, pd, k), b, l, end)
    BY <1>8, <2>1 DEF m
  <2>4. k \in 0..MaxPsd /\ l \in BOOLEAN
    BY <1>1, <2>1
  <2>5. g[i + 1] = SentPdu(s, pd, k, l, b) /\ w[i + 1] = TakeNext(x, f, end, AasSent)
    BY <1>9, <2>1
  <2> HIDE DEF s, x, pd, k, b, l
  <2>6. Abreast(SentPdu(s, pd, k, l, b), TakeNext(x, f, end, AasSent), f, end, sound)
    BY <2>2, <2>3, <2>4, AbreastOn
  <2> QED
    BY <2>1, <2>5, <2>6
<1>13. Abreast(g[m], w[m], f, end, sound)
  <2> HIDE DEF T
  <2>1. 0..m \subseteq T
    BY <1>1, <1>11, <1>12, Inductive
  <2>2. m \in T
    BY <1>1, <2>1
  <2> QED
    BY <2>2 DEF T
<1>14. TakeNext(w[m], f, end, AasSent) = w[m]
  <2> DEFINE s == g[m]
             x == w[m]
  <2>1. Abreast(s, x, f, end, sound) /\ Begins(f, s, end)
    BY <1>6, <1>13 DEF m
  <2> HIDE DEF s, x
  <2>2. TakeNext(x, f, end, AasSent) = x
    BY <2>1, AbreastLast
  <2> QED
    BY <2>2 DEF x
<1> DEFINE U == {i \in 0..N : i >= m => w[i] = w[m]}
<1>15. 0 \in U
  BY <1>1, <1>3
<1>16. ASSUME NEW i \in 0..N - 1, i \in U PROVE i + 1 \in U
  <2>1. i + 1 \in 0..N /\ i + 1 \in 1..N /\ (i + 1) - 1 = i
    BY <1>3
  <2>2. CASE i + 1 <= m
    BY <1>1, <2>1, <2>2
  <2>3. CASE i >= m
    <3>1. w[i] = w[m]
      BY <1>16, <2>3
    <3>2. w[i + 1] = TakeNext(w[i], f, end, AasSent)
      BY <1>9, <2>1
    <3> QED
      BY <1>14, <2>1, <3>1, <3>2
  <2> QED
    BY <1>1, <1>3, <2>2, <2>3
<1>17. w[N] = w[m]
  <2> HIDE DEF U
  <2>1. 0..N \subseteq U
    BY <1>3, <1>15, <1>16, Inductive
  <2>2. N \in U
    BY <1>3, <2>1
  <2> QED
    BY <1>10, <2>2 DEF U
<1>18. Delivered(g[m], w[m], sound)
  BY <1>13 DEF Abreast, Delivered
<1> QED
  BY <1>2, <1>4, <1>17, <1>18 DEF m, N

\* Nothing of a frame that is lost reaches a parser, which stays in step.
LEMMA ShapeLost ==
  ASSUME NEW shape, NEW n, ShapeRight(shape, n), NEW bad, psdAt \in 0..TurnLen - 1, sound \in BOOLEAN,
         NEW p, InStepAt(p, sound, psdAt)
  PROVE  LET s == Sent(shape, n, 1..Len(shape), bad) IN SentRight(s) /\ InStepAt(p, s.sound, s.at)
<1> DEFINE m == Len(shape)
           lost == 1..m
<1>1. m \in Nat /\ \A j \in 1..m : WellFormed(shape[j], MaxPsd) /\ n[j] \in 0..MaxPsd
  BY DEF ShapeRight
<1> HIDE DEF lost
<1>2. PICK g : SentRun(g, shape, n, lost, bad) /\ Sent(shape, n, lost, bad) = g[m]
  BY <1>1, SentRuns
<1>3. \A i \in 0..Len(shape) : Built(g, shape, n, lost, bad, i)
  BY <1>2, FramesBuilt
<1>4. g[0] = SentStart /\ \A j \in 1..m : g[j] = SentPdu(g[j - 1], shape[j], n[j], j \in lost, bad[j])
  BY <1>2 DEF SentRun
<1> DEFINE T == {i \in 0..m : InStepAt(p, g[i].sound, g[i].at)}
<1>5. \A i \in 0..m : SentRight(g[i])
  BY <1>3 DEF Built
<1> HIDE DEF m
<1>6. 0 \in T
  <2>1. g[0].sound = sound /\ g[0].at = psdAt
    BY <1>4 DEF SentStart
  <2> QED
    BY <1>1, <2>1
<1>7. ASSUME NEW i \in 0..m - 1, i \in T PROVE i + 1 \in T
  <2> DEFINE s == g[i]
             pd == shape[i + 1]
             k == n[i + 1]
             b == bad[i + 1]
             l == (i + 1) \in lost
  <2>1. i + 1 \in 1..m /\ (i + 1) - 1 = i /\ i + 1 \in 0..m /\ i \in 0..m
    BY <1>1
  <2>2. SentRight(s) /\ InStepAt(p, s.sound, s.at)
    BY <1>5, <1>7, <2>1
  <2>3. k \in 0..MaxPsd /\ l \in BOOLEAN /\ WellFormed(pd, MaxPsd)
    BY <1>1, <2>1
  <2>4. g[i + 1] = SentPdu(s, pd, k, l, b)
    BY <1>4, <2>1
  <2>5. l
    BY <2>1 DEF lost
  <2> HIDE DEF s, pd, k, b, l
  <2>6. ~Reaches(s, pd, l)
    BY <2>5 DEF Reaches
  <2>7. Passed(s, SentPdu(s, pd, k, l, b), p)
    BY <2>2, <2>3, <2>6, NotReached
  <2>8. InStepAt(p, g[i + 1].sound, g[i + 1].at)
    BY <2>4, <2>7 DEF Passed
  <2> QED
    BY <2>1, <2>8
<1>8. m \in T
  <2> HIDE DEF T
  <2>1. 0..m \subseteq T
    BY <1>1, <1>6, <1>7, Inductive
  <2> QED
    BY <1>1, <2>1
<1>9. SentRight(g[m]) /\ InStepAt(p, g[m].sound, g[m].at)
  BY <1>1, <1>5, <1>8
<1> QED
  BY <1>2, <1>9 DEF lost, m

-----------------------------------------------------------------------------
(* Fixed data. *)

\* All there is of the message in the CCC.
CccAll == CccBytes \cup {Flag}

\* The configuration message on the air consists of bytes.
LEMMA CccBytesAre == CccBytes \in SUBSET Byte /\ CccAll \in SUBSET Byte
<1> DEFINE s == Framed(CccMessage)
<1>1. s \in Seq(Byte)
  BY CccAssumption, FramedIs
<1> HIDE DEF s
<1>2. \A i \in 1..Len(s) : s[i] \in Byte
  BY <1>1, ElementOfSeq
<1>3. CccBytes \in SUBSET Byte
  <2> SUFFICES ASSUME NEW b \in CccBytes PROVE b \in Byte
    OBVIOUS
  <2>1. PICK i \in 1..Len(s) : b = s[i]
    BY DEF CccBytes, s
  <2> QED
    BY <1>2, <2>1
<1>4. Flag \in Byte
  BY DEF Flag, Byte
<1> QED
  BY <1>3, <1>4 DEF CccAll

\* The bytes of the CCC, for ever, are of that.
LEMMA CccStreamIs ==
  /\ CccStream \in Seq(Item) /\ Len(CccStream) \in Nat \ {0}
  /\ \A j \in 1..Len(CccStream) : CccStream[j].b \in CccAll
<1> DEFINE bytes == Framed(CccMessage)
           e == Whole(CccMessage)
           n == Len(bytes)
           s == [k \in 1..n |-> [b |-> bytes[k], ends |-> << >>]]
           t == [b |-> Flag, ends |-> CccMessage]
           q == s \o <<t>>
           seqs == Turns(<<e>>)
<1>1. CccMessage \in Seq(Byte) /\ bytes \in Seq(Byte)
  BY CccAssumption, FramedIs
<1>2. e.bytes = bytes /\ e.msg = CccMessage /\ Items(e) = q
  BY DEF Items, Whole
<1>3. seqs = [i \in 1..Len(<<e>>) |-> Items(<<e>>[i])]
  BY DEF Turns
<1>4. CccStream = Concat(seqs)
  BY DEF CccStream, Stream
<1> HIDE DEF e, seqs
<1>5. n \in Nat /\ \A k \in 1..n : bytes[k] \in CccBytes /\ bytes[k] \in Byte
  <2>1. n \in Nat
    BY <1>1, LenProperties
  <2>2. \A k \in 1..n : bytes[k] \in CccBytes
    BY DEF CccBytes
  <2> HIDE DEF bytes
  <2> QED
    BY <2>1, <2>2, CccBytesAre
<1> HIDE DEF bytes
<1>6. t \in Item /\ t.b \in CccAll
  BY <1>1 DEF Item, Byte, Flag, CccAll
<1>7. s \in Seq(Item) /\ Len(s) = n /\ \A k \in 1..n : s[k].b \in CccAll
  <2>1. \A k \in 1..n : [b |-> bytes[k], ends |-> << >>] \in Item
    BY <1>5 DEF Item
  <2>2. \A k \in 1..n : s[k] = [b |-> bytes[k], ends |-> << >>]
    OBVIOUS
  <2>3. \A k \in 1..n : s[k].b \in CccAll
    BY <1>5, <2>2 DEF CccAll
  <2> HIDE DEF n
  <2> QED
    BY <1>5, <2>1, <2>3
<1> HIDE DEF t, s
<1>8. q \in Seq(Item) /\ Len(q) = n + 1 /\ \A k \in 1..n + 1 : q[k].b \in CccAll
  <2>1. <<t>> \in Seq(Item) /\ Len(<<t>>) = 1 /\ <<t>>[1] = t
    BY <1>6
  <2>2. q \in Seq(Item) /\ Len(q) = Len(s) + Len(<<t>>)
    BY <1>7, <2>1
  <2>3. \A k \in 1..Len(s) + Len(<<t>>) : q[k] = IF k <= Len(s) THEN s[k] ELSE <<t>>[k - Len(s)]
    BY <1>7, <2>1
  <2>4. ASSUME NEW k \in 1..n + 1 PROVE q[k].b \in CccAll
    <3>1. CASE k <= n
      <4>1. k \in 1..n /\ k \in 1..Len(s) + Len(<<t>>)
        BY <1>5, <1>7, <2>1, <3>1
      <4>2. q[k] = s[k]
        BY <1>7, <2>3, <3>1, <4>1
      <4> QED
        BY <1>7, <4>1, <4>2
    <3>2. CASE ~(k <= n)
      <4>1. k = n + 1 /\ k \in 1..Len(s) + Len(<<t>>) /\ k - Len(s) = 1
        BY <1>5, <1>7, <2>1, <3>2
      <4>2. q[k] = t
        BY <1>7, <2>1, <2>3, <3>2, <4>1
      <4> QED
        BY <1>6, <4>2
    <3> QED
      BY <3>1, <3>2
  <2> QED
    BY <1>7, <2>1, <2>2, <2>4
<1> HIDE DEF q, n
<1>9. seqs \in Seq(Seq(Item)) /\ Len(seqs) = 1 /\ seqs[1] = q
  <2>1. Len(<<e>>) = 1 /\ <<e>>[1] = e
    OBVIOUS
  <2>2. seqs = [i \in 1..1 |-> Items(<<e>>[i])]
    BY <1>3, <2>1
  <2>3. \A i \in 1..1 : Items(<<e>>[i]) = q
    BY <1>2, <2>1 DEF e
  <2>4. seqs = [i \in 1..1 |-> q]
    BY <2>2, <2>3
  <2> QED
    BY <1>8, <2>4
<1>10. CccStream \in Seq(Item) /\ Len(CccStream) \in Nat
  BY <1>4, <1>9, ConcatIs, LenProperties
<1>11. Len(CccStream) # 0
  <2>1. Starts(seqs, 1) \in Nat /\ Starts(seqs, 1) + Len(seqs[1]) <= Len(Concat(seqs))
    <3>1. 1 \in 1..Len(seqs)
      BY <1>9
    <3> QED
      BY <1>9, <3>1, ConcatAt
  <2> DEFINE x == Starts(seqs, 1)
             y == Len(seqs[1])
             z == Len(CccStream)
  <2>2. x \in Nat /\ y = n + 1 /\ x + y <= z
    BY <1>4, <1>8, <1>9, <2>1
  <2> HIDE DEF x, y, z
  <2>3. z # 0
    BY <1>5, <1>10, <2>2 DEF z
  <2> QED
    BY <2>3 DEF z
<1>12. ASSUME NEW p \in 1..Len(Concat(seqs)) PROVE Concat(seqs)[p].b \in CccAll
  <2>1. PICK j \in 1..Len(seqs) : \E k \in 1..Len(seqs[j]) : p = Starts(seqs, j) + k
    BY <1>9, ConcatPlace
  <2>2. PICK k \in 1..Len(seqs[j]) : p = Starts(seqs, j) + k
    BY <2>1
  <2>3. Concat(seqs)[Starts(seqs, j) + k] = seqs[j][k]
    BY <1>9, <2>1, <2>2, ConcatAt
  <2>4. seqs[j] = q /\ k \in 1..n + 1
    <3>1. j = 1
      BY <1>9
    <3> QED
      BY <1>8, <1>9, <3>1, <2>2
  <2> QED
    BY <1>8, <2>2, <2>3, <2>4
<1> QED
  BY <1>4, <1>10, <1>11, <1>12

\* What a frame holds of it.
LEMMA CccItemsAre ==
  ASSUME cccAt \in 0..Len(CccStream) - 1
  PROVE  /\ BytesOf(CccItems) \in Seq(Byte) /\ Len(BytesOf(CccItems)) = Width /\ Width \in Nat
         /\ \A j \in 1..Width : BytesOf(CccItems)[j] \in CccAll
<1> DEFINE s == CccItems
           m == Len(CccStream)
<1>1. m \in Nat \ {0} /\ CccStream \in Seq(Item) /\ cccAt \in Int
  BY CccStreamIs
<1>2. Width \in Nat
  BY BoundsAssumption
<1>3. s = [j \in 1..Width |-> CccStream[((cccAt + j - 1) % m) + 1]]
  BY DEF CccItems, Turn
<1> HIDE DEF s
<1>4. ASSUME NEW j \in 1..Width
      PROVE  ((cccAt + j - 1) % m) + 1 \in 1..Len(CccStream)
  <2>1. cccAt + j - 1 \in Int
    BY <1>1, <1>2
  <2>2. (cccAt + j - 1) % m \in 0..m - 1
    <3> HIDE DEF m
    <3> QED
      BY <1>1, <2>1, Division
  <2> DEFINE x == (cccAt + j - 1) % m
  <2>3. x \in 0..m - 1
    BY <2>2
  <2> HIDE DEF x, m
  <2>4. x + 1 \in 1..m
    BY <1>1, <2>3
  <2> QED
    BY <2>4 DEF x, m
<1> HIDE DEF m
<1>5. \A j \in 1..Width : CccStream[((cccAt + j - 1) % m) + 1] \in Item
                         /\ CccStream[((cccAt + j - 1) % m) + 1].b \in CccAll
  BY <1>1, <1>4, CccStreamIs, ElementOfSeq
<1>6. s \in Seq(Item) /\ Len(s) = Width /\ \A j \in 1..Width : s[j].b \in CccAll
  <2> DEFINE C(j) == CccStream[((cccAt + j - 1) % m) + 1]
  <2>1. s = [j \in 1..Width |-> C(j)] /\ \A j \in 1..Width : C(j) \in Item /\ C(j).b \in CccAll
    BY <1>3, <1>5
  <2> HIDE DEF C
  <2>2. s \in [1..Width -> Item] /\ \A j \in 1..Width : s[j] = C(j)
    BY <2>1
  <2>3. s \in Seq(Item) /\ Len(s) = Width
    BY <1>2, <2>2
  <2> QED
    BY <2>1, <2>2, <2>3
<1>7. /\ BytesOf(s) \in Seq(Byte) /\ Len(BytesOf(s)) = Len(s)
      /\ \A j \in 1..Len(s) : BytesOf(s)[j] = s[j].b
  BY <1>6, BytesOfIs
<1> QED
  BY <1>2, <1>6, <1>7 DEF s

\* A width is believed only if it is the right one, and the parser of the CCC has nothing else in it.
FixedRight(r) ==
  /\ r \in FixedState /\ Len(r.ccc.buf) <= CccSize /\ (r.count = 2 => r.width = Width)
  /\ \A i \in 1..Len(r.ccc.buf) : r.ccc.buf[i] \in CccBytes

\* A byte that tells a width, and not a wrong one for the third time.
Telling(r, sync) ==
  /\ sync \in Byte /\ SyncWidth(sync) \in 0..30
  /\ ~(r.count = 1 /\ SyncWidth(sync) = r.width /\ r.width # Width)

\* The width is believed only if it is right.
LEMMA SyncedRight ==
  ASSUME NEW r, FixedRight(r), NEW sync, Telling(r, sync)
  PROVE  FixedRight(Synced(r, sync)) /\ Synced(r, sync).ccc = r.ccc
<1> DEFINE w == SyncWidth(sync)
           c == r.ccc
           n == IF w > 0 /\ w = r.width THEN r.count + 1 ELSE 0
           x == Synced(r, sync)
<1>1. /\ r = [width |-> r.width, count |-> r.count, ccc |-> c]
      /\ r.width \in 0..30 /\ r.count \in 0..2 /\ c \in Parser /\ Len(c.buf) <= CccSize
      /\ (r.count = 2 => r.width = Width) /\ \A i \in 1..Len(c.buf) : c.buf[i] \in CccBytes
  BY DEF FixedRight, FixedState
<1>2. CASE r.count = 2
  BY <1>2 DEF Synced
<1>3. CASE r.count # 2
  <2>1. x = [r EXCEPT !.count = IF w > 0 /\ w = r.width THEN @ + 1 ELSE 0, !.width = w]
    BY <1>3 DEF Synced
  <2>2. w \in 0..30 /\ ~(r.count = 1 /\ w = r.width /\ r.width # Width)
    BY DEF Telling
  <2> HIDE DEF x, w, c
  <2>3. n \in 0..2 /\ (n = 2 => w = Width)
    BY <1>1, <1>3, <2>2
  <2>4. x = [width |-> w, count |-> n, ccc |-> c]
    <3> DEFINE rw == r.width
               rc == r.count
    <3>1. r = [width |-> rw, count |-> rc, ccc |-> c]
      BY <1>1
    <3>2. x = [r EXCEPT !.count = n, !.width = w]
      BY <2>1
    <3> HIDE DEF rw, rc, n
    <3> QED
      BY <3>1, <3>2
  <2> HIDE DEF n
  <2>5. x \in FixedState /\ x.ccc = c /\ x.count = n /\ x.width = w
    BY <1>1, <2>2, <2>3, <2>4 DEF FixedState
  <2>6. FixedRight(x)
    BY <1>1, <2>3, <2>5 DEF FixedRight
  <2> QED
    BY <2>5, <2>6 DEF x, c
<1> QED
  BY <1>2, <1>3

\* Fixed data behind the audio: where that ends, and nothing is handed on.
FixedTaken(t, audio, bytes) ==
  /\ FixedRight(t.rx) /\ t.out = << >>
  /\ bytes \in Seq(Byte) /\ t.audioEnd \in Nat /\ Len(audio) <= t.audioEnd /\ t.audioEnd <= Len(bytes)
  /\ Len(audio) <= Len(bytes) /\ \A k \in 1..Len(audio) : bytes[k] = audio[k]

\* Fixed data ends in the sync byte, and before it in as many bytes of the configuration as it is wide.
LEMMA FixedIs ==
  ASSUME cccAt \in 0..Len(CccStream) - 1, NEW audio \in Seq(Byte), NEW sync \in Byte
  PROVE  LET bytes == audio \o FixedOf(sync)
             n == Len(audio) + FixedLen IN
         /\ bytes \in Seq(Byte) /\ Len(bytes) = n + Width + 1 /\ n \in Nat /\ Len(audio) \in Nat
         /\ \A k \in 1..Len(audio) : bytes[k] = audio[k]
         /\ \A j \in 1..Width : bytes[n + j] \in CccAll
         /\ bytes[n + Width + 1] = sync
<1> DEFINE z == [i \in 1..FixedLen |-> 0]
           b == BytesOf(CccItems)
           zb == z \o b
           f == zb \o <<sync>>
           bytes == audio \o f
           a == Len(audio)
<1>1. FixedLen \in Nat /\ Width \in Nat
  BY BoundsAssumption
<1>2. z \in Seq(Byte) /\ Len(z) = FixedLen
  BY <1>1 DEF Byte
<1>3. b \in Seq(Byte) /\ Len(b) = Width /\ \A j \in 1..Width : b[j] \in CccAll
  BY CccItemsAre
<1>4. FixedOf(sync) = f
  BY DEF FixedOf
<1> HIDE DEF z, b
<1>5. zb \in Seq(Byte) /\ Len(zb) = FixedLen + Width /\ \A j \in 1..Width : zb[FixedLen + j] = b[j]
  <2>1. zb \in Seq(Byte) /\ Len(zb) = FixedLen + Width
    BY <1>2, <1>3
  <2>2. ASSUME NEW j \in 1..Width PROVE zb[FixedLen + j] = b[j]
    <3>1. FixedLen + j \in 1..Len(z) + Len(b) /\ ~(FixedLen + j <= Len(z)) /\ FixedLen + j - Len(z) = j
      BY <1>1, <1>2, <1>3
    <3> QED
      BY <1>2, <1>3, <3>1
  <2> QED
    BY <2>1, <2>2
<1> HIDE DEF zb
<1>6. f \in Seq(Byte) /\ Len(f) = FixedLen + Width + 1 /\ f[FixedLen + Width + 1] = sync
      /\ \A j \in 1..Width : f[FixedLen + j] = b[j]
  <2>1. f \in Seq(Byte) /\ Len(f) = FixedLen + Width + 1
    BY <1>1, <1>5
  <2>2. f[FixedLen + Width + 1] = sync
    <3> DEFINE l == FixedLen + Width
    <3>1. Len(zb) = l /\ l \in Nat
      BY <1>1, <1>5
    <3> HIDE DEF l
    <3>2. (zb \o <<sync>>)[l + 1] = sync
      BY <1>5, <3>1
    <3> QED
      BY <3>2 DEF l
  <2>3. ASSUME NEW j \in 1..Width PROVE f[FixedLen + j] = b[j]
    <3>1. FixedLen + j \in 1..Len(zb)
      BY <1>1, <1>5
    <3>2. f[FixedLen + j] = zb[FixedLen + j]
      BY <1>5, <3>1
    <3> QED
      BY <1>5, <3>2
  <2> QED
    BY <2>1, <2>2, <2>3
<1> HIDE DEF f
<1>7. a \in Nat
  BY LenProperties
<1>8. bytes \in Seq(Byte) /\ Len(bytes) = a + Len(f)
  BY <1>6
<1>9. \A k \in 1..a : bytes[k] = audio[k]
  BY <1>6, <1>7
<1>10. ASSUME NEW k \in 1..Len(f) PROVE bytes[a + k] = f[k]
  <2>1. Len(f) \in Nat
    BY <1>6, LenProperties
  <2>2. a + k \in 1..Len(audio) + Len(f) /\ ~(a + k <= Len(audio)) /\ a + k - Len(audio) = k
    BY <1>7, <2>1
  <2> QED
    BY <1>6, <2>2
<1> HIDE DEF bytes
<1> DEFINE n == a + FixedLen
<1>11. n \in Nat /\ Len(bytes) = n + Width + 1
  <2> HIDE DEF a
  <2> QED
    BY <1>1, <1>6, <1>7, <1>8
<1>12. ASSUME NEW j \in 1..Width PROVE bytes[n + j] \in CccAll
  <2>1. FixedLen + j \in 1..Len(f)
    BY <1>1, <1>6
  <2>2. bytes[a + (FixedLen + j)] = b[j]
    BY <1>6, <1>10, <2>1
  <2>3. a + (FixedLen + j) = n + j
    <3> HIDE DEF a
    <3> QED
      BY <1>1, <1>7
  <2> QED
    BY <1>3, <2>2, <2>3
<1>13. bytes[n + Width + 1] = sync
  <2>1. FixedLen + Width + 1 \in 1..Len(f)
    BY <1>1, <1>6
  <2>2. bytes[a + (FixedLen + Width + 1)] = sync
    BY <1>6, <1>10, <2>1
  <2>3. a + (FixedLen + Width + 1) = n + Width + 1
    <3> HIDE DEF a
    <3> QED
      BY <1>1, <1>7
  <2> QED
    BY <2>2, <2>3
<1> HIDE DEF n
<1> QED
  BY <1>4, <1>7, <1>8, <1>9, <1>11, <1>12, <1>13 DEF bytes, n, a

\* processFixedData leaves the audio alone, believes no width but the right one and hands nothing on,
\* whatever the sync byte is that it was sent or damaged to.
LEMMA FixedRead ==
  ASSUME NEW r, FixedRight(r), cccAt \in 0..Len(CccStream) - 1, NEW audio \in Seq(Byte),
         NEW sync, Telling(r, sync)
  PROVE  FixedTaken(ReadFixed(r, audio \o FixedOf(sync), AasSent), audio, audio \o FixedOf(sync))
<1> DEFINE bytes == audio \o FixedOf(sync)
           a == Len(audio)
           n == a + FixedLen
           last == Len(bytes) - 1
           x == Synced(r, bytes[last + 1])
           p == last - x.width
           c == x.ccc
           acc == [on |-> x.ccc.on, buf |-> x.ccc.buf, out |-> << >>]
           chunk == SubSeq(bytes, p + 1, last)
           acc2 == Parsed(acc, chunk, CccSize, AasSent)
           t == ReadFixed(r, bytes, AasSent)
<1>1. t = IF x.count < 2 THEN [rx |-> x, audioEnd |-> last, out |-> << >>]
          ELSE [rx |-> [x EXCEPT !.ccc = ParserOf(acc2)], audioEnd |-> p, out |-> acc2.out]
  BY DEF ReadFixed
<1>2. sync \in Byte
  BY DEF Telling
<1>3. /\ bytes \in Seq(Byte) /\ Len(bytes) = n + Width + 1 /\ n \in Nat /\ a \in Nat
      /\ \A k \in 1..a : bytes[k] = audio[k]
      /\ \A j \in 1..Width : bytes[n + j] \in CccAll
      /\ bytes[n + Width + 1] = sync
  BY <1>2, FixedIs
<1>4. Width \in Nat /\ FixedLen \in Nat /\ Width \in 1..30
  BY BoundsAssumption
<1> HIDE DEF bytes
<1>5. last = n + Width /\ last + 1 = n + Width + 1 /\ a <= n /\ last \in Nat
  <2>1. n = a + FixedLen
    OBVIOUS
  <2> HIDE DEF a, n
  <2> QED
    BY <1>3, <1>4, <2>1
<1> HIDE DEF last, n
<1>6. bytes[last + 1] = sync
  BY <1>3, <1>5
<1>7. FixedRight(x)
  BY <1>6, SyncedRight
<1> HIDE DEF x
<1>8. /\ x = [width |-> x.width, count |-> x.count, ccc |-> c]
      /\ x.width \in 0..30 /\ x.count \in 0..2 /\ c \in Parser /\ Len(c.buf) <= CccSize
      /\ (x.count = 2 => x.width = Width) /\ \A i \in 1..Len(c.buf) : c.buf[i] \in CccBytes
  BY <1>7 DEF FixedRight, FixedState
<1>9. Len(bytes) \in Nat /\ a <= Len(bytes) /\ last <= Len(bytes) /\ a <= last
  <2> HIDE DEF a
  <2> QED
    BY <1>3, <1>4, <1>5
<1>10. CASE x.count < 2
  <2>1. t.rx = x /\ t.audioEnd = last /\ t.out = << >>
    BY <1>1, <1>10
  <2> HIDE DEF t
  <2>2. FixedTaken(t, audio, bytes)
    BY <1>3, <1>5, <1>7, <1>9, <2>1 DEF FixedTaken, a
  <2> QED
    BY <2>2 DEF t, bytes
<1>11. CASE x.count = 2
  <2>1. t = [rx |-> [x EXCEPT !.ccc = ParserOf(acc2)], audioEnd |-> p, out |-> acc2.out]
    BY <1>1, <1>11
  <2>2. p = n /\ x.width = Width
    BY <1>3, <1>4, <1>5, <1>8, <1>11
  <2> HIDE DEF p
  <2>3. chunk \in Seq(Byte) /\ Len(chunk) = Width /\ \A j \in 1..Width : chunk[j] = bytes[n + j]
    <3>1. chunk = SubSeq(bytes, n + 1, n + Width)
      BY <1>5, <2>2
    <3>2. n + Width <= Len(bytes)
      BY <1>3, <1>4
    <3> HIDE DEF chunk
    <3> QED
      BY <1>3, <1>4, <3>1, <3>2
  <2> HIDE DEF chunk
  <2>4. acc \in Parsing(CccSize) /\ acc.out = << >> /\ acc.buf = c.buf
    <3>1. c.on \in BOOLEAN /\ c.buf \in Seq(Byte)
      BY <1>8 DEF Parser
    <3>2. acc = [on |-> c.on, buf |-> c.buf, out |-> << >>]
      OBVIOUS
    <3> HIDE DEF acc, c
    <3>3. acc \in [on: BOOLEAN, buf: Seq(Byte), out: Seq(Seq(Byte))] /\ acc.buf = c.buf /\ acc.out = << >>
      BY <3>1, <3>2
    <3>4. Len(acc.buf) <= CccSize
      BY <1>8, <3>3
    <3> QED
      BY <3>3, <3>4 DEF Parsing
  <2> HIDE DEF acc
  <2>5. acc2.out = << >> /\ \A i \in 1..Len(acc2.buf) : acc2.buf[i] \in CccBytes
    <3>1. CccSize \in Nat /\ CccBytes \in SUBSET Byte
      BY CccSizeAssumption, CccBytesAre
    <3>2. \A i \in 1..Len(acc.buf) : acc.buf[i] \in CccBytes
      BY <1>8, <2>4
    <3>3. \A j \in 1..Len(chunk) : chunk[j] \in CccBytes \cup {Flag}
      BY <1>3, <2>3 DEF CccAll
    <3>4. \A m \in AasSent : m # << >> /\ m[1] = Protocol =>
            \E i \in 1..Len(m) : m[i] \notin CccBytes \cup {WithBit5(b) : b \in CccBytes}
      BY CccAssumption
    <3> QED
      BY <2>3, <2>4, <3>1, <3>2, <3>3, <3>4, ParsedNothing
  <2>6. acc2 \in Parsing(CccSize)
    BY <2>3, <2>4, CccSizeAssumption, ParsedIs
  <2> HIDE DEF acc2, c
  <2> DEFINE q == ParserOf(acc2)
  <2>7. q \in Parser /\ q.buf = acc2.buf /\ Len(q.buf) <= CccSize
    BY <2>6 DEF ParserOf, Parser, Parsing
  <2> HIDE DEF q
  <2> DEFINE y == [x EXCEPT !.ccc = q]
  <2>8. y = [width |-> x.width, count |-> x.count, ccc |-> q]
    BY <1>8
  <2>9. y \in FixedState /\ y.ccc = q /\ y.count = x.count /\ y.width = x.width
    BY <1>8, <2>7, <2>8 DEF FixedState
  <2>10. FixedRight(y)
    <3> HIDE DEF y
    <3> QED
      BY <1>8, <2>5, <2>7, <2>9 DEF FixedRight
  <2>11. t.rx = y /\ t.audioEnd = n /\ t.out = << >>
    <3>1. t = [rx |-> y, audioEnd |-> p, out |-> acc2.out]
      BY <2>1 DEF q
    <3> HIDE DEF t, y
    <3> QED
      BY <2>2, <2>5, <3>1
  <2> HIDE DEF t, y
  <2>12. n <= Len(bytes) /\ a <= n
    <3> HIDE DEF a
    <3> QED
      BY <1>3, <1>4, <1>5
  <2>13. FixedTaken(t, audio, bytes)
    BY <1>3, <1>9, <2>10, <2>11, <2>12 DEF FixedTaken, a
  <2> QED
    BY <2>13 DEF t, bytes
<1> QED
  BY <1>8, <1>10, <1>11

-----------------------------------------------------------------------------
(* The invariant. *)

IInv ==
  /\ kind \in Kind /\ psdAt \in 0..TurnLen - 1 /\ cccAt \in 0..Len(CccStream) - 1
  /\ ParsersRight(psd) /\ FixedRight(rx)
  /\ InStepAt(psd[0], sound, psdAt)
  /\ pdus = "asSent" /\ told \in {"whole", "cut"}
  /\ sound \in BOOLEAN /\ trouble \in 0..MaxTrouble

\* It is more than what the runs check.
LEMMA Enough == IInv => TypeOK /\ PdusAsSent /\ FramesHanded
<1> SUFFICES ASSUME IInv PROVE TypeOK /\ PdusAsSent /\ FramesHanded
  OBVIOUS
<1>1. \A p \in Prog : Len(psd[p].buf) <= AasSize
  BY DEF IInv, ParsersRight
<1>2. TypeOK
  BY <1>1 DEF IInv, TypeOK, ParsersRight, FixedRight, TurnLen
<1> QED
  BY <1>2 DEF IInv, PdusAsSent, FramesHanded

\* What is sent.
LEMMA SentIs ==
  ASSUME NEW shape, NEW n, ShapeRight(shape, n), NEW lost, NEW bad, psdAt \in 0..TurnLen - 1, sound \in BOOLEAN
  PROVE  LET s == Sent(shape, n, lost, bad) IN
         /\ SentRight(s)
         /\ s.frame = [bytes |-> s.frame.bytes, headers |-> s.frame.headers, packets |-> s.frame.packets]
         /\ Len(shape) = 0 => s = SentStart
<1> DEFINE m == Len(shape)
<1>1. m \in Nat /\ \A j \in 1..m : WellFormed(shape[j], MaxPsd) /\ n[j] \in 0..MaxPsd
  BY DEF ShapeRight
<1>2. PICK g : SentRun(g, shape, n, lost, bad) /\ Sent(shape, n, lost, bad) = g[m]
  BY <1>1, SentRuns
<1>3. \A i \in 0..Len(shape) : Built(g, shape, n, lost, bad, i)
  BY <1>2, FramesBuilt
<1>4. SentRight(g[m])
  BY <1>1, <1>3 DEF Built
<1>5. g[0] = SentStart /\ \A j \in 1..m : g[j] = SentPdu(g[j - 1], shape[j], n[j], j \in lost, bad[j])
  BY <1>2 DEF SentRun
<1> HIDE DEF m
<1>6. g[m].frame = [bytes |-> g[m].frame.bytes, headers |-> g[m].frame.headers, packets |-> g[m].frame.packets]
  <2>1. CASE m = 0
    BY <1>5, <2>1 DEF SentStart, NoPdus
  <2>2. CASE m # 0
    <3> DEFINE s == g[m - 1]
               pd == shape[m]
               k == n[m]
               b == bad[m]
               l == m \in lost
               f == g[m].frame
    <3>1. m \in 1..m /\ m - 1 \in 0..m
      BY <1>1, <2>2
    <3>2. g[m] = SentPdu(s, pd, k, l, b) /\ WellFormed(pd, MaxPsd) /\ k \in 0..MaxPsd
      BY <1>1, <1>5, <3>1
    <3>3. SentRight(s)
      BY <1>3, <3>1 DEF Built, m
    <3>4. l \in BOOLEAN
      OBVIOUS
    <3> HIDE DEF s, pd, k, b, l
    <3>5. SentOn(s, SentPdu(s, pd, k, l, b), pd, k, l, b)
      BY <3>2, <3>3, <3>4, SentPduIs
    <3>6. f = WithPdu(s.frame, pd, Data(s, pd, k), b, l)
      BY <3>2, <3>5 DEF SentOn
    <3> HIDE DEF f
    <3>7. f = [bytes |-> f.bytes, headers |-> f.headers, packets |-> f.packets]
      BY <3>6 DEF WithPdu
    <3> QED
      BY <3>7 DEF f
  <2> QED
    BY <2>1, <2>2
<1>7. m = 0 => g[m] = SentStart
  BY <1>5
<1> QED
  BY <1>2, <1>4, <1>6, <1>7 DEF m

\* The audio begins the frame, and the receiver knows where it ends.
LEMMA AudioFirst ==
  ASSUME IInv, NEW s, SentRight(s), HasAudio(kind), NEW sync, HasFixed(kind) => Telling(rx, sync),
         s.frame = [bytes |-> s.frame.bytes, headers |-> s.frame.headers, packets |-> s.frame.packets]
  PROVE  LET f == FrameOf(s, sync)
             t == ProcessFixed(f) IN
         Begins(f, s, t.audioEnd) /\ FixedRight(t.rx) /\ t.out = << >>
<1> DEFINE fr == s.frame
           f == FrameOf(s, sync)
           t == ProcessFixed(f)
           a == fr.bytes
<1>1. a \in Seq(Byte) /\ Len(a) \in Nat /\ \A h \in fr.headers : h.at \in 0..Len(a) - 1
  <2>1. FrameRight(fr)
    BY DEF SentRight
  <2> QED
    BY <2>1, LenProperties DEF FrameRight
<1>2. FixedRight(rx) /\ cccAt \in 0..Len(CccStream) - 1
  BY DEF IInv
<1>3. CASE ~HasFixed(kind)
  <2>1. f = fr
    BY <1>3 DEF FrameOf
  <2>2. t = [rx |-> rx, audioEnd |-> Len(f.bytes), out |-> << >>]
    BY <1>3 DEF ProcessFixed
  <2> HIDE DEF f, t
  <2>3. t.rx = rx /\ t.audioEnd = Len(a) /\ t.out = << >>
    BY <2>1, <2>2
  <2>4. Grown(fr, fr)
    <3> DEFINE x == Len(a)
    <3>1. x \in Nat /\ x <= x
      BY <1>1
    <3> QED
      BY <3>1 DEF Grown
  <2>5. Len(a) <= Len(a)
    <3> DEFINE x == Len(a)
    <3>1. x \in Nat
      BY <1>1
    <3> HIDE DEF x
    <3>2. x <= x
      BY <3>1
    <3> QED
      BY <3>2 DEF x
  <2>6. Begins(f, s, t.audioEnd)
    BY <1>1, <2>1, <2>3, <2>4, <2>5 DEF Begins
  <2> QED
    BY <1>2, <2>3, <2>6 DEF f, t
<1>4. CASE HasFixed(kind)
  <2> DEFINE b == a \o FixedOf(sync)
  <2>1. f = [fr EXCEPT !.bytes = @ \o FixedOf(sync)]
    BY <1>4 DEF FrameOf
  <2>2. f = [bytes |-> b, headers |-> fr.headers, packets |-> fr.packets]
    <3> DEFINE h == fr.headers
               p == fr.packets
               x == FixedOf(sync)
    <3>1. fr = [bytes |-> a, headers |-> h, packets |-> p]
      OBVIOUS
    <3>2. f = [fr EXCEPT !.bytes = fr.bytes \o x]
      BY <2>1
    <3> HIDE DEF fr, a, h, p, x, f
    <3>3. fr.bytes = a
      BY <3>1
    <3>4. f = [bytes |-> a \o x, headers |-> h, packets |-> p]
      BY <3>1, <3>2, <3>3
    <3> QED
      BY <3>4 DEF x, h, p
  <2>3. t = ReadFixed(rx, f.bytes, AasSent)
    BY <1>4 DEF ProcessFixed
  <2>4. FixedTaken(ReadFixed(rx, a \o FixedOf(sync), AasSent), a, a \o FixedOf(sync))
    <3> HIDE DEF a
    <3> QED
      BY <1>1, <1>2, <1>4, FixedRead
  <2> HIDE DEF f
  <2>5. f.bytes = b /\ f.headers = fr.headers /\ f.packets = fr.packets
    BY <2>2
  <2>6. FixedTaken(t, a, b)
    BY <2>3, <2>4, <2>5
  <2> HIDE DEF t, b
  <2>7. /\ FixedRight(t.rx) /\ t.out = << >>
        /\ b \in Seq(Byte) /\ t.audioEnd \in Nat /\ Len(a) <= t.audioEnd /\ t.audioEnd <= Len(b)
        /\ Len(a) <= Len(b) /\ \A k \in 1..Len(a) : b[k] = a[k]
    BY <2>6 DEF FixedTaken
  <2>8. Grown(fr, f)
    BY <2>5, <2>7 DEF Grown
  <2>9. Begins(f, s, t.audioEnd)
    BY <2>5, <2>7, <2>8 DEF Begins
  <2> QED
    BY <2>7, <2>9 DEF f, t
<1> QED
  BY <1>3, <1>4

\* Without audio there are just the fixed data.
LEMMA FixedAlone ==
  ASSUME IInv, NEW s, ~HasAudio(kind), NEW sync, Telling(rx, sync)
  PROVE  LET t == ProcessFixed(FrameOf(s, sync)) IN FixedRight(t.rx) /\ t.out = << >>
<1> DEFINE f == FrameOf(s, sync)
           t == ProcessFixed(f)
           z == [i \in 1..32 |-> 0]
           b == z \o FixedOf(sync)
<1>1. HasFixed(kind)
  BY DEF IInv, Kind, HasAudio, HasFixed
<1>2. f = [Filler EXCEPT !.bytes = @ \o FixedOf(sync)]
  BY <1>1 DEF FrameOf
<1>3. f.bytes = b
  <2> DEFINE x == FixedOf(sync)
  <2>1. Filler = [bytes |-> z, headers |-> {}, packets |-> {}]
    <3> DEFINE empty == NoPdus
    <3>1. Filler = [empty EXCEPT !.bytes = z]
      BY DEF Filler
    <3>2. empty = [bytes |-> << >>, headers |-> {}, packets |-> {}]
      BY DEF NoPdus
    <3> HIDE DEF empty, z
    <3> QED
      BY <3>1, <3>2
  <2>2. f = [Filler EXCEPT !.bytes = Filler.bytes \o x]
    BY <1>2
  <2> HIDE DEF x, z, f
  <2>3. Filler.bytes = z
    BY <2>1
  <2>4. f = [bytes |-> z \o x, headers |-> {}, packets |-> {}]
    BY <2>1, <2>2, <2>3
  <2> QED
    BY <2>4 DEF x
<1>4. t = ReadFixed(rx, f.bytes, AasSent)
  BY <1>1 DEF ProcessFixed
<1>5. z \in Seq(Byte)
  BY DEF Byte
<1>6. FixedRight(rx) /\ cccAt \in 0..Len(CccStream) - 1
  BY DEF IInv
<1> HIDE DEF f, t, z
<1>7. FixedTaken(ReadFixed(rx, b, AasSent), z, b)
  BY <1>5, <1>6, FixedRead
<1>8. FixedRight(t.rx) /\ t.out = << >>
  BY <1>3, <1>4, <1>7 DEF FixedTaken
<1> QED
  BY <1>8 DEF t, f

\* A frame, however damaged, as it is received.
LEMMA AllReceived ==
  ASSUME IInv, NEW shape, NEW n, ShapeRight(shape, n), NEW lost, NEW bad, NEW sync,
         HasFixed(kind) => Telling(rx, sync), ~HasAudio(kind) => Len(shape) = 0
  PROVE  LET s == Sent(shape, n, lost, bad)
             f == FrameOf(s, sync)
             t == ProcessFixed(f) IN
         FixedRight(t.rx) /\ t.out = << >> /\ Delivered(s, ProcessAudio(f, t.audioEnd), sound)
<1> DEFINE s == Sent(shape, n, lost, bad)
           f == FrameOf(s, sync)
           t == ProcessFixed(f)
           a == ProcessAudio(f, t.audioEnd)
<1>1. /\ psdAt \in 0..TurnLen - 1 /\ sound \in BOOLEAN /\ ParsersRight(psd) /\ InStepAt(psd[0], sound, psdAt)
      /\ kind \in Kind
  BY DEF IInv
<1>2. /\ SentRight(s)
      /\ s.frame = [bytes |-> s.frame.bytes, headers |-> s.frame.headers, packets |-> s.frame.packets]
      /\ Len(shape) = 0 => s = SentStart
  BY <1>1, SentIs
<1>3. CASE HasAudio(kind)
  <2> HIDE DEF s
  <2>1. Begins(f, s, t.audioEnd) /\ FixedRight(t.rx) /\ t.out = << >>
    BY <1>2, <1>3, AudioFirst
  <2>2. a = Walk(psd, f, t.audioEnd, AasSent)
    BY <1>3 DEF ProcessAudio
  <2> DEFINE e == t.audioEnd
  <2>3. Begins(f, Sent(shape, n, lost, bad), e)
    BY <2>1 DEF s
  <2> HIDE DEF f, e
  <2>4. Delivered(Sent(shape, n, lost, bad), Walk(psd, f, e, AasSent), sound)
    BY <1>1, <2>3, ShapeTaken
  <2> QED
    BY <2>1, <2>2, <2>4 DEF f, e, s
<1>4. CASE ~HasAudio(kind)
  <2> HIDE DEF s
  <2>1. HasFixed(kind)
    BY <1>1, <1>4 DEF Kind, HasAudio, HasFixed
  <2>2. FixedRight(t.rx) /\ t.out = << >>
    BY <1>4, <2>1, FixedAlone
  <2>3. s = SentStart
    BY <1>2, <1>4
  <2>4. a = [at |-> 0, pdus |-> << >>, psd |-> psd, out |-> << >>]
    BY <1>4 DEF ProcessAudio
  <2> HIDE DEF a
  <2>5. /\ a.pdus = << >> /\ a.psd = psd /\ a.out = << >>
        /\ a = [at |-> a.at, pdus |-> a.pdus, psd |-> a.psd, out |-> a.out]
    BY <2>4
  <2>6. s.pdus = << >> /\ s.due = << >> /\ s.sound = sound /\ s.at = psdAt
    BY <2>3 DEF SentStart
  <2>7. a.out \in Seq(Seq(Byte))
    BY <2>5
  <2>8. Delivered(s, a, sound)
    BY <1>1, <1>2, <2>5, <2>6, <2>7 DEF Delivered, TakenRight, Matches
  <2> QED
    BY <2>2, <2>8 DEF a, s
<1> QED
  BY <1>3, <1>4

\* Every frame of a shape may be taken apart.
LEMMA ShapesRight ==
  ASSUME IInv, NEW shape \in ShapesNow, NEW n \in Sizes(shape)
  PROVE  ShapeRight(shape, n) /\ (~HasAudio(kind) => Len(shape) = 0)
<1>1. \A j \in 1..Len(shape) : n[j] \in 0..MaxPsd
  BY DEF Sizes
<1>2. CASE HasAudio(kind)
  <2>1. kind \in Kind /\ shape \in Shapes[kind]
    BY <1>2 DEF IInv, ShapesNow
  <2>2. shape \in Seq(Pdus) /\ \A j \in 1..Len(shape) : WellFormed(shape[j], MaxPsd)
    BY <1>2, <2>1, ShapesAssumption
  <2>3. Len(shape) \in Nat
    BY <2>2, LenProperties
  <2> QED
    BY <1>1, <1>2, <2>2, <2>3 DEF ShapeRight
<1>3. CASE ~HasAudio(kind)
  <2>1. shape = << >>
    BY <1>3 DEF ShapesNow
  <2>2. Len(shape) = 0
    BY <2>1
  <2> QED
    BY <2>2 DEF ShapeRight
<1> QED
  BY <1>2, <1>3

\* What Receive does.
LEMMA ReceiveIs ==
  ASSUME NEW s, NEW sync, Receive(s, sync)
  PROVE  LET f == FrameOf(s, sync)
             t == ProcessFixed(f)
             a == ProcessAudio(f, t.audioEnd) IN
         /\ rx' = t.rx /\ psd' = a.psd
         /\ pdus' = IF a.pdus = s.pdus THEN "asSent" ELSE "otherwise"
         /\ told' = Told(t.out \o a.out, s.due)
  BY DEF Receive

\* One frame received leaves the invariant intact, whatever of the frame is lost or damaged.
LEMMA Received ==
  ASSUME IInv, NEW shape, NEW n, ShapeRight(shape, n), NEW lost, NEW bad, NEW sync,
         HasFixed(kind) => Telling(rx, sync), ~HasAudio(kind) => Len(shape) = 0,
         Receive(Sent(shape, n, lost, bad), sync), SentFrame(Sent(shape, n, lost, bad)),
         trouble' \in 0..MaxTrouble
  PROVE  IInv'
<1> DEFINE s == Sent(shape, n, lost, bad)
           f == FrameOf(s, sync)
           t == ProcessFixed(f)
           a == ProcessAudio(f, t.audioEnd)
<1>1. FixedRight(t.rx) /\ t.out = << >> /\ Delivered(s, a, sound)
  BY AllReceived
<1>2. /\ rx' = t.rx /\ psd' = a.psd
      /\ pdus' = IF a.pdus = s.pdus THEN "asSent" ELSE "otherwise"
      /\ told' = Told(t.out \o a.out, s.due)
  BY ReceiveIs
<1>3. /\ psdAt' = s.at /\ sound' = s.sound /\ kind' = kind
      /\ cccAt' = IF HasFixed(kind) THEN (cccAt + Width) % Len(CccStream) ELSE cccAt
  BY DEF SentFrame
<1> HIDE DEF s, t, a
<1>4. /\ SentRight(s) /\ TakenRight(a) /\ a.pdus = s.pdus
      /\ InStepAt(a.psd[0], s.sound, s.at) /\ Matches(a.out, s.due, sound)
  BY <1>1 DEF Delivered
<1>5. cccAt' \in 0..Len(CccStream) - 1
  <2> DEFINE m == Len(CccStream)
  <2>1. m \in Nat \ {0} /\ cccAt \in 0..m - 1 /\ Width \in Nat
    BY CccStreamIs, BoundsAssumption DEF IInv
  <2>2. cccAt' = cccAt \/ cccAt' = (cccAt + Width) % m
    BY <1>3
  <2> HIDE DEF m
  <2>3. cccAt + Width \in Int
    BY <2>1
  <2>4. (cccAt + Width) % m \in 0..m - 1
    BY <2>1, <2>3, Division
  <2> QED
    BY <2>1, <2>2, <2>4 DEF m
<1>6. told' \in {"whole", "cut"}
  <2>1. a.out \in Seq(Seq(Byte))
    BY <1>4 DEF TakenRight
  <2> DEFINE x == a.out
  <2>2. t.out \o x = x
    <3> HIDE DEF x
    <3>1. << >> \o x = x
      BY <2>1 DEF x
    <3> QED
      BY <1>1, <3>1
  <2>3. told' = Told(x, s.due)
    BY <1>2, <2>2
  <2>4. x = s.due \/ (~sound /\ x # << >> /\ Tail(x) = s.due)
    BY <1>4 DEF Matches
  <2> HIDE DEF x
  <2> QED
    BY <2>3, <2>4 DEF Told
<1>7. psdAt' \in 0..TurnLen - 1 /\ sound' \in BOOLEAN
  BY <1>3, <1>4 DEF SentRight
<1>8. ParsersRight(psd') /\ InStepAt(psd'[0], sound', psdAt')
  BY <1>2, <1>3, <1>4 DEF TakenRight
<1>9. kind' \in Kind /\ FixedRight(rx') /\ pdus' = "asSent"
  BY <1>1, <1>2, <1>3, <1>4 DEF IInv
<1> QED
  BY <1>5, <1>6, <1>7, <1>8, <1>9 DEF IInv

\* The byte that tells the width, when it is right.
LEMMA RightSync == FixedRight(rx) => Telling(rx, SyncByte(Width))
<1>1. Width \in 1..30 /\ SyncWidth(SyncByte(Width)) = Width
  BY BoundsAssumption
<1>2. SyncByte(Width) \in Byte
  BY <1>1 DEF SyncByte, Byte
<1> HIDE DEF SyncByte
<1> QED
  BY <1>1, <1>2 DEF Telling

\* Nothing is in a parser, nor known of the width, at first.
LEMMA NothingYet == ParsersRight([p \in Prog |-> NoParser]) /\ FixedRight(NoFixed)
<1>1. NoParser \in Parser /\ NoParser.buf = << >> /\ Len(NoParser.buf) = 0
  BY DEF NoParser, Parser
<1> DEFINE ps == [p \in Prog |-> NoParser]
<1> HIDE DEF ps
<1>2. ps \in [Prog -> Parser] /\ \A p \in Prog : ps[p] = NoParser
  BY <1>1 DEF ps
<1>3. ParsersRight(ps)
  <2>1. 0 <= AasSize
    BY AasSizeAssumption
  <2> QED
    BY <1>1, <1>2, <2>1 DEF ParsersRight
<1>4. FixedRight(NoFixed)
  <2> DEFINE c == NoParser
  <2>1. NoFixed = [width |-> 0, count |-> 0, ccc |-> c]
    BY DEF NoFixed
  <2>2. c \in Parser /\ c.buf = << >> /\ Len(c.buf) = 0 /\ 0 <= CccSize
    BY <1>1, CccSizeAssumption
  <2> HIDE DEF c
  <2>3. NoFixed \in FixedState /\ NoFixed.ccc = c /\ NoFixed.count = 0
    BY <2>1, <2>2 DEF FixedState
  <2> QED
    BY <2>2, <2>3 DEF FixedRight
<1> QED
  BY <1>3, <1>4 DEF ps

\* A parser is in step as long as nothing was heard.
LEMMA Deaf == ASSUME NEW p, NEW at PROVE InStepAt(p, FALSE, at)
  BY DEF InStepAt

\* The invariant holds as the receiver is made.
LEMMA InitRight == Init => IInv
<1> SUFFICES ASSUME Init PROVE IInv
  OBVIOUS
<1>1. kind \in Kind /\ psdAt = 0 /\ sound = FALSE /\ trouble = 0 /\ pdus = "asSent" /\ told = "whole"
      /\ psd = [p \in Prog |-> NoParser] /\ rx = NoFixed
  BY DEF Init
<1>2. cccAt \in 0..Len(CccStream) - 1
  <2>1. 0 \in 0..Len(CccStream) - 1
    <3> DEFINE m == Len(CccStream)
    <3>1. m \in Nat \ {0}
      BY CccStreamIs
    <3> HIDE DEF m
    <3>2. 0 \in 0..m - 1
      BY <3>1
    <3> QED
      BY <3>2 DEF m
  <2> QED
    BY <2>1 DEF Init
<1>3. psdAt \in 0..TurnLen - 1
  BY <1>1, FirstPlace
<1>4. ParsersRight(psd) /\ FixedRight(rx)
  BY <1>1, NothingYet
<1>5. InStepAt(psd[0], sound, psdAt)
  BY <1>1, Deaf
<1>6. trouble \in 0..MaxTrouble
  BY <1>1, BoundsAssumption
<1> QED
  BY <1>1, <1>2, <1>3, <1>4, <1>5, <1>6 DEF IInv

\* Every step leaves the invariant intact: a sound frame, one with a damaged PDU or sync byte, a lost
\* frame and a reset of the receiver.
LEMMA NextRight == IInv /\ [Next]_vars => IInv'
<1> SUFFICES ASSUME IInv, [Next]_vars PROVE IInv'
  OBVIOUS
<1>1. FixedRight(rx) /\ MaxTrouble \in Nat /\ trouble \in 0..MaxTrouble
  BY BoundsAssumption DEF IInv
<1>2. Trouble => trouble' \in 0..MaxTrouble
  BY <1>1 DEF Trouble
<1>3. CASE Frame
  <2>0. PICK shape \in ShapesNow : \E n \in Sizes(shape) :
          \E sent \in {Sent(shape, n, {}, Undamaged(shape))} :
            Receive(sent, SyncByte(Width)) /\ SentFrame(sent) /\ UNCHANGED trouble
    BY <1>3 DEF Frame
  <2>1. PICK n \in Sizes(shape) :
          \E sent \in {Sent(shape, n, {}, Undamaged(shape))} :
            Receive(sent, SyncByte(Width)) /\ SentFrame(sent) /\ UNCHANGED trouble
    BY <2>0
  <2>2. Receive(Sent(shape, n, {}, Undamaged(shape)), SyncByte(Width))
        /\ SentFrame(Sent(shape, n, {}, Undamaged(shape))) /\ trouble' \in 0..MaxTrouble
    BY <1>1, <2>1
  <2>3. ShapeRight(shape, n) /\ (~HasAudio(kind) => Len(shape) = 0)
    BY ShapesRight
  <2> QED
    BY <1>1, <2>2, <2>3, RightSync, Received
<1>4. CASE PduDamaged
  <2>0. PICK shape \in ShapesNow : \E n \in Sizes(shape), j \in 1..Len(shape) :
          \E sent \in {Sent(shape, n, {j}, Undamaged(shape))}
                        \cup {Sent(shape, n, {}, [Undamaged(shape) EXCEPT ![j] = {i}])
                                : i \in 1..Len(shape[j].packets)} :
            Receive(sent, SyncByte(Width)) /\ SentFrame(sent) /\ Trouble
    BY <1>4 DEF PduDamaged
  <2>1. PICK n \in Sizes(shape), j \in 1..Len(shape) :
          \E sent \in {Sent(shape, n, {j}, Undamaged(shape))}
                        \cup {Sent(shape, n, {}, [Undamaged(shape) EXCEPT ![j] = {i}])
                                : i \in 1..Len(shape[j].packets)} :
            Receive(sent, SyncByte(Width)) /\ SentFrame(sent) /\ Trouble
    BY <2>0
  <2>2. PICK lost, bad : Receive(Sent(shape, n, lost, bad), SyncByte(Width))
                         /\ SentFrame(Sent(shape, n, lost, bad)) /\ trouble' \in 0..MaxTrouble
    BY <1>2, <2>1
  <2>3. ShapeRight(shape, n) /\ (~HasAudio(kind) => Len(shape) = 0)
    BY ShapesRight
  <2> QED
    BY <1>1, <2>2, <2>3, RightSync, Received
<1>5. CASE SyncDamaged
  <2>0. PICK shape \in ShapesNow : \E n \in Sizes(shape), b \in {SyncByte(8), 1} :
          \E sent \in {Sent(shape, n, {}, Undamaged(shape))} :
            /\ ~(rx.count = 1 /\ SyncWidth(b) = rx.width /\ rx.width # Width)
            /\ Receive(sent, b) /\ SentFrame(sent)
    BY <1>5 DEF SyncDamaged
  <2>1. PICK n \in Sizes(shape), b \in {SyncByte(8), 1} :
          \E sent \in {Sent(shape, n, {}, Undamaged(shape))} :
            /\ ~(rx.count = 1 /\ SyncWidth(b) = rx.width /\ rx.width # Width)
            /\ Receive(sent, b) /\ SentFrame(sent)
    BY <2>0
  <2>2. trouble' \in 0..MaxTrouble
    BY <1>2, <1>5 DEF SyncDamaged
  <2>3. ShapeRight(shape, n) /\ (~HasAudio(kind) => Len(shape) = 0)
    BY ShapesRight
  <2>4. b \in Byte /\ SyncWidth(b) \in 0..30
    <3>1. CASE b = 1
      BY <3>1 DEF Byte, SyncWidth
    <3>2. CASE b = SyncByte(8)
      <4>1. b = 68
        BY <3>2 DEF SyncByte
      <4> QED
        BY <4>1 DEF Byte, SyncWidth
    <3> QED
      BY <3>1, <3>2
  <2>5. Telling(rx, b)
    BY <2>1, <2>4 DEF Telling
  <2>6. Receive(Sent(shape, n, {}, Undamaged(shape)), b) /\ SentFrame(Sent(shape, n, {}, Undamaged(shape)))
    BY <2>1
  <2> QED
    BY <2>2, <2>3, <2>5, <2>6, Received
<1>6. CASE FrameLost
  <2>0. PICK shape \in ShapesNow : \E n \in Sizes(shape) :
          \E sent \in {Sent(shape, n, 1..Len(shape), Undamaged(shape))} :
            SentFrame(sent) /\ NoOutput /\ Trouble /\ UNCHANGED <<psd, rx>>
    BY <1>6 DEF FrameLost
  <2>1. PICK n \in Sizes(shape) :
          \E sent \in {Sent(shape, n, 1..Len(shape), Undamaged(shape))} :
            SentFrame(sent) /\ NoOutput /\ Trouble /\ UNCHANGED <<psd, rx>>
    BY <2>0
  <2> DEFINE s == Sent(shape, n, 1..Len(shape), Undamaged(shape))
             q == psd[0]
  <2>2. /\ psdAt' = s.at /\ sound' = s.sound /\ kind' = kind
        /\ cccAt' = IF HasFixed(kind) THEN (cccAt + Width) % Len(CccStream) ELSE cccAt
        /\ psd' = psd /\ rx' = rx /\ pdus' = "asSent" /\ told' = "whole" /\ trouble' \in 0..MaxTrouble
    BY <1>2, <2>1 DEF SentFrame, NoOutput
  <2>3. ShapeRight(shape, n)
    BY ShapesRight
  <2>4. /\ psdAt \in 0..TurnLen - 1 /\ sound \in BOOLEAN /\ InStepAt(q, sound, psdAt)
        /\ kind \in Kind /\ cccAt \in 0..Len(CccStream) - 1 /\ ParsersRight(psd)
    BY DEF IInv
  <2> HIDE DEF q
  <2>5. SentRight(s) /\ InStepAt(q, s.sound, s.at)
    BY <2>3, <2>4, ShapeLost
  <2> HIDE DEF s
  <2>6. psdAt' \in 0..TurnLen - 1 /\ sound' \in BOOLEAN /\ InStepAt(psd'[0], sound', psdAt')
    BY <2>2, <2>5 DEF SentRight, q
  <2>7. cccAt' \in 0..Len(CccStream) - 1
    <3> DEFINE m == Len(CccStream)
    <3>1. m \in Nat \ {0} /\ cccAt \in 0..m - 1 /\ Width \in Nat
      BY <2>4, CccStreamIs, BoundsAssumption
    <3>2. cccAt' = cccAt \/ cccAt' = (cccAt + Width) % m
      BY <2>2
    <3> HIDE DEF m
    <3>3. cccAt + Width \in Int
      BY <3>1
    <3>4. (cccAt + Width) % m \in 0..m - 1
      BY <3>1, <3>3, Division
    <3> QED
      BY <3>1, <3>2, <3>4 DEF m
  <2> QED
    BY <1>1, <2>2, <2>4, <2>6, <2>7 DEF IInv
<1>7. CASE Reset
  <2>1. /\ psd' = [p \in Prog |-> NoParser] /\ rx' = NoFixed /\ sound' = FALSE
        /\ pdus' = "asSent" /\ told' = "whole" /\ Trouble
        /\ kind' = kind /\ psdAt' = psdAt /\ cccAt' = cccAt
    BY <1>7 DEF Reset, ResetFixed, NoOutput, station
  <2>2. ParsersRight(psd') /\ FixedRight(rx')
    BY <2>1, NothingYet
  <2>3. InStepAt(psd'[0], sound', psdAt')
    BY <2>1, Deaf
  <2>4. kind \in Kind /\ psdAt \in 0..TurnLen - 1 /\ cccAt \in 0..Len(CccStream) - 1
    BY DEF IInv
  <2> QED
    BY <1>2, <2>1, <2>2, <2>3, <2>4 DEF IInv
<1>8. CASE UNCHANGED vars
  <2>1. /\ kind' = kind /\ psdAt' = psdAt /\ cccAt' = cccAt /\ psd' = psd /\ rx' = rx
        /\ pdus' = pdus /\ told' = told /\ sound' = sound /\ trouble' = trouble
    BY <1>8 DEF vars, station, outputs
  <2> QED
    BY <2>1 DEF IInv
<1> QED
  BY <1>3, <1>4, <1>5, <1>6, <1>7, <1>8 DEF Next

\* The invariant always holds.
LEMMA AlwaysRight == Spec => []IInv
  BY InitRight, NextRight, PTL DEF Spec

\* The state of the channel is what its type says, whatever the station sends and whatever of it
\* is damaged or lost, for buffers, locations and widths of any size.
THEOREM TypeCorrect == Spec => []TypeOK
  BY AlwaysRight, Enough, PTL

\* Every PDU up to one that is damaged or unknown is taken apart as it was put together.
THEOREM PdusTakenApart == Spec => []PdusAsSent
  BY AlwaysRight, Enough, PTL

\* Every message that was received whole is handed on once and in its turn, and nothing else is.
THEOREM MessagesHanded == Spec => []FramesHanded
  BY AlwaysRight, Enough, PTL

-----------------------------------------------------------------------------
(* The PCI. *)

\* The powers of two.
LEMMA Powers ==
  \E g \in [0..23 -> Nat] :
     g[0] = 1 /\ (\A j \in 1..23 : g[j] = 2 * g[j - 1]) /\ \A j \in 0..23 : Power[j] = g[j]
<1> DEFINE F == [x \in (1..23) \X Nat |-> 2 * x[2]]
           Goes(f) == f = [k \in 0..23 |-> IF k = 0 THEN 1 ELSE 2 * f[k - 1]]
<1>1. F \in [(1..23) \X Nat -> Nat]
  OBVIOUS
<1>2. PICK f \in [0..23 -> Nat] : Recurs(f, 23, 1, F)
  <2> HIDE DEF F
  <2> QED
    BY <1>1, Recursion
<1>3. ASSUME NEW i \in 1..23 PROVE f[i] = 2 * f[i - 1]
  <2>1. i - 1 \in 0..23 /\ f[i - 1] \in Nat
    OBVIOUS
  <2> QED
    BY <1>2, <2>1 DEF Recurs
<1>4. Goes(f)
  BY <1>2, <1>3 DEF Recurs
<1>5. Power = CHOOSE h : Goes(h)
  BY DEF Power
<1>6. Goes(Power)
  BY <1>4, <1>5
<1>7. Power[0] = 1 /\ \A j \in 1..23 : Power[j] = 2 * Power[j - 1]
  BY <1>6
<1> DEFINE T == {j \in 0..23 : Power[j] = f[j]}
<1>8. 0..23 \subseteq T
  <2>1. 0 \in T
    BY <1>2, <1>7 DEF Recurs
  <2>2. ASSUME NEW j \in 0..23 - 1, j \in T PROVE j + 1 \in T
    <3>1. j + 1 \in 1..23 /\ (j + 1) - 1 = j /\ j + 1 \in 0..23
      OBVIOUS
    <3> QED
      BY <1>3, <1>7, <2>2, <3>1
  <2> HIDE DEF T
  <2> QED
    BY <2>1, <2>2, Inductive
<1> QED
  BY <1>2, <1>3, <1>8 DEF Recurs

\* Up to 2^23.
LEMMA PowersAre ==
  /\ Power[0] = 1
  /\ Power[1] = 2
  /\ Power[2] = 4
  /\ Power[3] = 8
  /\ Power[4] = 16
  /\ Power[5] = 32
  /\ Power[6] = 64
  /\ Power[7] = 128
  /\ Power[8] = 256
  /\ Power[9] = 512
  /\ Power[10] = 1024
  /\ Power[11] = 2048
  /\ Power[12] = 4096
  /\ Power[13] = 8192
  /\ Power[14] = 16384
  /\ Power[15] = 32768
  /\ Power[16] = 65536
  /\ Power[17] = 131072
  /\ Power[18] = 262144
  /\ Power[19] = 524288
  /\ Power[20] = 1048576
  /\ Power[21] = 2097152
  /\ Power[22] = 4194304
  /\ Power[23] = 8388608
<1>1. PICK g \in [0..23 -> Nat] :
         g[0] = 1 /\ (\A j \in 1..23 : g[j] = 2 * g[j - 1]) /\ \A j \in 0..23 : Power[j] = g[j]
  BY Powers
<1>2. g[0] = 1
  BY <1>1
<1>3. g[1] = 2
  BY <1>1, <1>2
<1>4. g[2] = 4
  BY <1>1, <1>3
<1>5. g[3] = 8
  BY <1>1, <1>4
<1>6. g[4] = 16
  BY <1>1, <1>5
<1>7. g[5] = 32
  BY <1>1, <1>6
<1>8. g[6] = 64
  BY <1>1, <1>7
<1>9. g[7] = 128
  BY <1>1, <1>8
<1>10. g[8] = 256
  BY <1>1, <1>9
<1>11. g[9] = 512
  BY <1>1, <1>10
<1>12. g[10] = 1024
  BY <1>1, <1>11
<1>13. g[11] = 2048
  BY <1>1, <1>12
<1>14. g[12] = 4096
  BY <1>1, <1>13
<1>15. g[13] = 8192
  BY <1>1, <1>14
<1>16. g[14] = 16384
  BY <1>1, <1>15
<1>17. g[15] = 32768
  BY <1>1, <1>16
<1>18. g[16] = 65536
  BY <1>1, <1>17
<1>19. g[17] = 131072
  BY <1>1, <1>18
<1>20. g[18] = 262144
  BY <1>1, <1>19
<1>21. g[19] = 524288
  BY <1>1, <1>20
<1>22. g[20] = 1048576
  BY <1>1, <1>21
<1>23. g[21] = 2097152
  BY <1>1, <1>22
<1>24. g[22] = 4194304
  BY <1>1, <1>23
<1>25. g[23] = 8388608
  BY <1>1, <1>24
<1> QED
  BY <1>1, <1>2, <1>3, <1>4, <1>5, <1>6, <1>7, <1>8, <1>9, <1>10, <1>11, <1>12, <1>13, <1>14, <1>15,
     <1>16, <1>17, <1>18, <1>19, <1>20, <1>21, <1>22, <1>23, <1>24, <1>25

\* The bits of the words.
LEMMA Word1 == BitsOf(3725523) =
  {0, 1, 4, 6, 7, 11, 12, 14, 15, 19, 20, 21}
<1> DEFINE s == {0, 1, 4, 6, 7, 11, 12, 14, 15, 19, 20, 21}
<1>1. ASSUME NEW k \in 0..23 PROVE ((3725523 \div Power[k]) % 2 = 1) <=> k \in s
  BY PowersAre
<1> QED
  BY <1>1 DEF BitsOf

\* The bits of the second PCI word.
LEMMA Word2 == BitsOf(13514292) =
  {2, 4, 5, 9, 10, 12, 13, 17, 18, 19, 22, 23}
<1> DEFINE s == {2, 4, 5, 9, 10, 12, 13, 17, 18, 19, 22, 23}
<1>1. ASSUME NEW k \in 0..23 PROVE ((13514292 \div Power[k]) % 2 = 1) <=> k \in s
  BY PowersAre
<1> QED
  BY <1>1 DEF BitsOf

\* The bits of the third PCI word.
LEMMA Word3 == BitsOf(14902092) =
  {2, 3, 6, 8, 9, 13, 14, 16, 17, 21, 22, 23}
<1> DEFINE s == {2, 3, 6, 8, 9, 13, 14, 16, 17, 21, 22, 23}
<1>1. ASSUME NEW k \in 0..23 PROVE ((14902092 \div Power[k]) % 2 = 1) <=> k \in s
  BY PowersAre
<1> QED
  BY <1>1 DEF BitsOf

\* The bits of the fourth PCI word.
LEMMA Word4 == BitsOf(9276723) =
  {0, 1, 4, 5, 8, 10, 11, 15, 16, 18, 19, 23}
<1> DEFINE s == {0, 1, 4, 5, 8, 10, 11, 15, 16, 18, 19, 23}
<1>1. ASSUME NEW k \in 0..23 PROVE ((9276723 \div Power[k]) % 2 = 1) <=> k \in s
  BY PowersAre
<1> QED
  BY <1>1 DEF BitsOf

\* The bits of the fifth PCI word.
LEMMA Word5 == BitsOf(3552462) =
  {1, 2, 3, 6, 7, 10, 12, 13, 17, 18, 20, 21}
<1> DEFINE s == {1, 2, 3, 6, 7, 10, 12, 13, 17, 18, 20, 21}
<1>1. ASSUME NEW k \in 0..23 PROVE ((3552462 \div Power[k]) % 2 = 1) <=> k \in s
  BY PowersAre
<1> QED
  BY <1>1 DEF BitsOf

\* The bits of the sixth PCI word.
LEMMA Word6 == BitsOf(9253773) =
  {0, 2, 3, 7, 8, 9, 12, 13, 16, 18, 19, 23}
<1> DEFINE s == {0, 2, 3, 7, 8, 9, 12, 13, 16, 18, 19, 23}
<1>1. ASSUME NEW k \in 0..23 PROVE ((9253773 \div Power[k]) % 2 = 1) <=> k \in s
  BY PowersAre
<1> QED
  BY <1>1 DEF BitsOf

\* The bits of the seventh PCI word.
LEMMA Word7 == BitsOf(14209848) =
  {3, 4, 5, 8, 9, 12, 14, 15, 19, 20, 22, 23}
<1> DEFINE s == {3, 4, 5, 8, 9, 12, 14, 15, 19, 20, 22, 23}
<1>1. ASSUME NEW k \in 0..23 PROVE ((14209848 \div Power[k]) % 2 = 1) <=> k \in s
  BY PowersAre
<1> QED
  BY <1>1 DEF BitsOf

\* The bits of the eighth PCI word.
LEMMA Word8 == BitsOf(6507747) =
  {0, 1, 5, 6, 7, 10, 11, 14, 16, 17, 21, 22}
<1> DEFINE s == {0, 1, 5, 6, 7, 10, 11, 14, 16, 17, 21, 22}
<1>1. ASSUME NEW k \in 0..23 PROVE ((6507747 \div Power[k]) % 2 = 1) <=> k \in s
  BY PowersAre
<1> QED
  BY <1>1 DEF BitsOf

Increasing(a, b, c, d, e, f, g, h, i) ==
  /\ {a, b, c, d, e, f, g, h, i} \subseteq Nat
  /\ a < b /\ b < c /\ c < d /\ d < e /\ e < f /\ f < g /\ g < h /\ h < i

\* Nine numbers.
LEMMA Nine ==
  ASSUME NEW a, NEW b, NEW c, NEW d, NEW e, NEW f, NEW g, NEW h, NEW i, Increasing(a, b, c, d, e, f, g, h, i)
  PROVE  IsFiniteSet({a, b, c, d, e, f, g, h, i}) /\ Cardinality({a, b, c, d, e, f, g, h, i}) = 9
<1> USE DEF Increasing
<1>0. IsFiniteSet({}) /\ Cardinality({}) = 0
  BY FS_EmptySet
<1>1. IsFiniteSet({a}) /\ Cardinality({a}) = 1
  <2> DEFINE s == {}
  <2>1. a \notin s /\ {a} = s \cup {a}
    OBVIOUS
  <2>2. IsFiniteSet(s) /\ Cardinality(s) = 0
    BY <1>0
  <2> HIDE DEF s
  <2>3. IsFiniteSet(s \cup {a}) /\ Cardinality(s \cup {a}) = Cardinality(s) + 1
    BY <2>1, <2>2, FS_AddElement
  <2> QED
    BY <2>1, <2>2, <2>3
<1>2. IsFiniteSet({a, b}) /\ Cardinality({a, b}) = 2
  <2> DEFINE s == {a}
  <2>1. b \notin s /\ {a, b} = s \cup {b}
    OBVIOUS
  <2>2. IsFiniteSet(s) /\ Cardinality(s) = 1
    BY <1>1
  <2> HIDE DEF s
  <2>3. IsFiniteSet(s \cup {b}) /\ Cardinality(s \cup {b}) = Cardinality(s) + 1
    BY <2>1, <2>2, FS_AddElement
  <2> QED
    BY <2>1, <2>2, <2>3
<1>3. IsFiniteSet({a, b, c}) /\ Cardinality({a, b, c}) = 3
  <2> DEFINE s == {a, b}
  <2>1. c \notin s /\ {a, b, c} = s \cup {c}
    OBVIOUS
  <2>2. IsFiniteSet(s) /\ Cardinality(s) = 2
    BY <1>2
  <2> HIDE DEF s
  <2>3. IsFiniteSet(s \cup {c}) /\ Cardinality(s \cup {c}) = Cardinality(s) + 1
    BY <2>1, <2>2, FS_AddElement
  <2> QED
    BY <2>1, <2>2, <2>3
<1>4. IsFiniteSet({a, b, c, d}) /\ Cardinality({a, b, c, d}) = 4
  <2> DEFINE s == {a, b, c}
  <2>1. d \notin s /\ {a, b, c, d} = s \cup {d}
    OBVIOUS
  <2>2. IsFiniteSet(s) /\ Cardinality(s) = 3
    BY <1>3
  <2> HIDE DEF s
  <2>3. IsFiniteSet(s \cup {d}) /\ Cardinality(s \cup {d}) = Cardinality(s) + 1
    BY <2>1, <2>2, FS_AddElement
  <2> QED
    BY <2>1, <2>2, <2>3
<1>5. IsFiniteSet({a, b, c, d, e}) /\ Cardinality({a, b, c, d, e}) = 5
  <2> DEFINE s == {a, b, c, d}
  <2>1. e \notin s /\ {a, b, c, d, e} = s \cup {e}
    OBVIOUS
  <2>2. IsFiniteSet(s) /\ Cardinality(s) = 4
    BY <1>4
  <2> HIDE DEF s
  <2>3. IsFiniteSet(s \cup {e}) /\ Cardinality(s \cup {e}) = Cardinality(s) + 1
    BY <2>1, <2>2, FS_AddElement
  <2> QED
    BY <2>1, <2>2, <2>3
<1>6. IsFiniteSet({a, b, c, d, e, f}) /\ Cardinality({a, b, c, d, e, f}) = 6
  <2> DEFINE s == {a, b, c, d, e}
  <2>1. f \notin s /\ {a, b, c, d, e, f} = s \cup {f}
    OBVIOUS
  <2>2. IsFiniteSet(s) /\ Cardinality(s) = 5
    BY <1>5
  <2> HIDE DEF s
  <2>3. IsFiniteSet(s \cup {f}) /\ Cardinality(s \cup {f}) = Cardinality(s) + 1
    BY <2>1, <2>2, FS_AddElement
  <2> QED
    BY <2>1, <2>2, <2>3
<1>7. IsFiniteSet({a, b, c, d, e, f, g}) /\ Cardinality({a, b, c, d, e, f, g}) = 7
  <2> DEFINE s == {a, b, c, d, e, f}
  <2>1. g \notin s /\ {a, b, c, d, e, f, g} = s \cup {g}
    OBVIOUS
  <2>2. IsFiniteSet(s) /\ Cardinality(s) = 6
    BY <1>6
  <2> HIDE DEF s
  <2>3. IsFiniteSet(s \cup {g}) /\ Cardinality(s \cup {g}) = Cardinality(s) + 1
    BY <2>1, <2>2, FS_AddElement
  <2> QED
    BY <2>1, <2>2, <2>3
<1>8. IsFiniteSet({a, b, c, d, e, f, g, h}) /\ Cardinality({a, b, c, d, e, f, g, h}) = 8
  <2> DEFINE s == {a, b, c, d, e, f, g}
  <2>1. h \notin s /\ {a, b, c, d, e, f, g, h} = s \cup {h}
    OBVIOUS
  <2>2. IsFiniteSet(s) /\ Cardinality(s) = 7
    BY <1>7
  <2> HIDE DEF s
  <2>3. IsFiniteSet(s \cup {h}) /\ Cardinality(s \cup {h}) = Cardinality(s) + 1
    BY <2>1, <2>2, FS_AddElement
  <2> QED
    BY <2>1, <2>2, <2>3
<1>9. IsFiniteSet({a, b, c, d, e, f, g, h, i}) /\ Cardinality({a, b, c, d, e, f, g, h, i}) = 9
  <2> DEFINE s == {a, b, c, d, e, f, g, h}
  <2>1. i \notin s /\ {a, b, c, d, e, f, g, h, i} = s \cup {i}
    OBVIOUS
  <2>2. IsFiniteSet(s) /\ Cardinality(s) = 8
    BY <1>8
  <2> HIDE DEF s
  <2>3. IsFiniteSet(s \cup {i}) /\ Cardinality(s \cup {i}) = Cardinality(s) + 1
    BY <2>1, <2>2, FS_AddElement
  <2> QED
    BY <2>1, <2>2, <2>3
<1> QED
  BY <1>9

\* Two words with nine bits that differ, of those that the shortest header has.
Far(i, j) ==
  \E V : V \subseteq Differ(Possibilities[i], Possibilities[j]) \cap 2..23 /\ IsFiniteSet(V) /\ Cardinality(V) = 9

\* That two words differ does not depend on which is named first.
LEMMA FarBack == ASSUME NEW i, NEW j, Far(i, j) PROVE Far(j, i)
<1>1. Differ(Possibilities[i], Possibilities[j]) = Differ(Possibilities[j], Possibilities[i])
  BY DEF Differ
<1> QED
  BY <1>1 DEF Far

\* The words by their numbers.
LEMMA WordsAre ==
  /\ DOMAIN Possibilities = 1..8 /\ \A i \in 1..8 : Possibilities[i] \subseteq 0..23
  /\ Possibilities[1] = {0, 1, 4, 6, 7, 11, 12, 14, 15, 19, 20, 21}
  /\ Possibilities[2] = {2, 4, 5, 9, 10, 12, 13, 17, 18, 19, 22, 23}
  /\ Possibilities[3] = {2, 3, 6, 8, 9, 13, 14, 16, 17, 21, 22, 23}
  /\ Possibilities[4] = {0, 1, 4, 5, 8, 10, 11, 15, 16, 18, 19, 23}
  /\ Possibilities[5] = {1, 2, 3, 6, 7, 10, 12, 13, 17, 18, 20, 21}
  /\ Possibilities[6] = {0, 2, 3, 7, 8, 9, 12, 13, 16, 18, 19, 23}
  /\ Possibilities[7] = {3, 4, 5, 8, 9, 12, 14, 15, 19, 20, 22, 23}
  /\ Possibilities[8] = {0, 1, 5, 6, 7, 10, 11, 14, 16, 17, 21, 22}
<1>1. DOMAIN Possibilities = 1..8
  BY DEF Possibilities
<1>2. Possibilities[1] = {0, 1, 4, 6, 7, 11, 12, 14, 15, 19, 20, 21}
  BY Word1 DEF Possibilities
<1>3. Possibilities[2] = {2, 4, 5, 9, 10, 12, 13, 17, 18, 19, 22, 23}
  BY Word2 DEF Possibilities
<1>4. Possibilities[3] = {2, 3, 6, 8, 9, 13, 14, 16, 17, 21, 22, 23}
  BY Word3 DEF Possibilities
<1>5. Possibilities[4] = {0, 1, 4, 5, 8, 10, 11, 15, 16, 18, 19, 23}
  BY Word4 DEF Possibilities
<1>6. Possibilities[5] = {1, 2, 3, 6, 7, 10, 12, 13, 17, 18, 20, 21}
  BY Word5 DEF Possibilities
<1>7. Possibilities[6] = {0, 2, 3, 7, 8, 9, 12, 13, 16, 18, 19, 23}
  BY Word6 DEF Possibilities
<1>8. Possibilities[7] = {3, 4, 5, 8, 9, 12, 14, 15, 19, 20, 22, 23}
  BY Word7 DEF Possibilities
<1>9. Possibilities[8] = {0, 1, 5, 6, 7, 10, 11, 14, 16, 17, 21, 22}
  BY Word8 DEF Possibilities
<1>10. ASSUME NEW i \in 1..8 PROVE Possibilities[i] \subseteq 0..23
  <2>1. \A n : BitsOf(n) \subseteq 0..23
    BY DEF BitsOf
  <2>2. i = 1 \/ i = 2 \/ i = 3 \/ i = 4 \/ i = 5 \/ i = 6 \/ i = 7 \/ i = 8
    OBVIOUS
  <2> QED
    BY <2>1, <2>2 DEF Possibilities
<1> QED
  BY <1>1, <1>2, <1>3, <1>4, <1>5, <1>6, <1>7, <1>8, <1>9, <1>10

\* Words of frames that hold different things are far apart.
LEMMA PairsFar ==
  /\ Far(1, 3)
  /\ Far(1, 4)
  /\ Far(1, 5)
  /\ Far(1, 6)
  /\ Far(1, 7)
  /\ Far(1, 8)
  /\ Far(2, 3)
  /\ Far(2, 4)
  /\ Far(2, 5)
  /\ Far(2, 6)
  /\ Far(2, 7)
  /\ Far(2, 8)
  /\ Far(3, 5)
  /\ Far(3, 6)
  /\ Far(3, 7)
  /\ Far(3, 8)
  /\ Far(4, 5)
  /\ Far(4, 6)
  /\ Far(4, 7)
  /\ Far(4, 8)
  /\ Far(5, 6)
  /\ Far(5, 7)
  /\ Far(5, 8)
<1>1. Far(1, 3)
  <2> DEFINE V == {2, 3, 4, 7, 8, 9, 11, 12, 13}
  <2>1. V \subseteq Differ(Possibilities[1], Possibilities[3]) \cap 2..23
    BY WordsAre DEF Differ
  <2>2. IsFiniteSet(V) /\ Cardinality(V) = 9
    <3>1. Increasing(2, 3, 4, 7, 8, 9, 11, 12, 13)
      BY DEF Increasing
    <3> QED
      BY <3>1, Nine
  <2> HIDE DEF V
  <2> QED
    BY <2>1, <2>2 DEF Far
<1>2. Far(1, 4)
  <2> DEFINE V == {5, 6, 7, 8, 10, 12, 14, 16, 18}
  <2>1. V \subseteq Differ(Possibilities[1], Possibilities[4]) \cap 2..23
    BY WordsAre DEF Differ
  <2>2. IsFiniteSet(V) /\ Cardinality(V) = 9
    <3>1. Increasing(5, 6, 7, 8, 10, 12, 14, 16, 18)
      BY DEF Increasing
    <3> QED
      BY <3>1, Nine
  <2> HIDE DEF V
  <2> QED
    BY <2>1, <2>2 DEF Far
<1>3. Far(1, 5)
  <2> DEFINE V == {2, 3, 4, 10, 11, 13, 14, 15, 17}
  <2>1. V \subseteq Differ(Possibilities[1], Possibilities[5]) \cap 2..23
    BY WordsAre DEF Differ
  <2>2. IsFiniteSet(V) /\ Cardinality(V) = 9
    <3>1. Increasing(2, 3, 4, 10, 11, 13, 14, 15, 17)
      BY DEF Increasing
    <3> QED
      BY <3>1, Nine
  <2> HIDE DEF V
  <2> QED
    BY <2>1, <2>2 DEF Far
<1>4. Far(1, 6)
  <2> DEFINE V == {2, 3, 4, 6, 8, 9, 11, 13, 14}
  <2>1. V \subseteq Differ(Possibilities[1], Possibilities[6]) \cap 2..23
    BY WordsAre DEF Differ
  <2>2. IsFiniteSet(V) /\ Cardinality(V) = 9
    <3>1. Increasing(2, 3, 4, 6, 8, 9, 11, 13, 14)
      BY DEF Increasing
    <3> QED
      BY <3>1, Nine
  <2> HIDE DEF V
  <2> QED
    BY <2>1, <2>2 DEF Far
<1>5. Far(1, 7)
  <2> DEFINE V == {3, 5, 6, 7, 8, 9, 11, 21, 22}
  <2>1. V \subseteq Differ(Possibilities[1], Possibilities[7]) \cap 2..23
    BY WordsAre DEF Differ
  <2>2. IsFiniteSet(V) /\ Cardinality(V) = 9
    <3>1. Increasing(3, 5, 6, 7, 8, 9, 11, 21, 22)
      BY DEF Increasing
    <3> QED
      BY <3>1, Nine
  <2> HIDE DEF V
  <2> QED
    BY <2>1, <2>2 DEF Far
<1>6. Far(1, 8)
  <2> DEFINE V == {4, 5, 10, 12, 15, 16, 17, 19, 20}
  <2>1. V \subseteq Differ(Possibilities[1], Possibilities[8]) \cap 2..23
    BY WordsAre DEF Differ
  <2>2. IsFiniteSet(V) /\ Cardinality(V) = 9
    <3>1. Increasing(4, 5, 10, 12, 15, 16, 17, 19, 20)
      BY DEF Increasing
    <3> QED
      BY <3>1, Nine
  <2> HIDE DEF V
  <2> QED
    BY <2>1, <2>2 DEF Far
<1>7. Far(2, 3)
  <2> DEFINE V == {3, 4, 5, 6, 8, 10, 12, 14, 16}
  <2>1. V \subseteq Differ(Possibilities[2], Possibilities[3]) \cap 2..23
    BY WordsAre DEF Differ
  <2>2. IsFiniteSet(V) /\ Cardinality(V) = 9
    <3>1. Increasing(3, 4, 5, 6, 8, 10, 12, 14, 16)
      BY DEF Increasing
    <3> QED
      BY <3>1, Nine
  <2> HIDE DEF V
  <2> QED
    BY <2>1, <2>2 DEF Far
<1>8. Far(2, 4)
  <2> DEFINE V == {2, 8, 9, 11, 12, 13, 15, 16, 17}
  <2>1. V \subseteq Differ(Possibilities[2], Possibilities[4]) \cap 2..23
    BY WordsAre DEF Differ
  <2>2. IsFiniteSet(V) /\ Cardinality(V) = 9
    <3>1. Increasing(2, 8, 9, 11, 12, 13, 15, 16, 17)
      BY DEF Increasing
    <3> QED
      BY <3>1, Nine
  <2> HIDE DEF V
  <2> QED
    BY <2>1, <2>2 DEF Far
<1>9. Far(2, 5)
  <2> DEFINE V == {3, 4, 5, 6, 7, 9, 19, 20, 21}
  <2>1. V \subseteq Differ(Possibilities[2], Possibilities[5]) \cap 2..23
    BY WordsAre DEF Differ
  <2>2. IsFiniteSet(V) /\ Cardinality(V) = 9
    <3>1. Increasing(3, 4, 5, 6, 7, 9, 19, 20, 21)
      BY DEF Increasing
    <3> QED
      BY <3>1, Nine
  <2> HIDE DEF V
  <2> QED
    BY <2>1, <2>2 DEF Far
<1>10. Far(2, 6)
  <2> DEFINE V == {3, 4, 5, 7, 8, 10, 16, 17, 22}
  <2>1. V \subseteq Differ(Possibilities[2], Possibilities[6]) \cap 2..23
    BY WordsAre DEF Differ
  <2>2. IsFiniteSet(V) /\ Cardinality(V) = 9
    <3>1. Increasing(3, 4, 5, 7, 8, 10, 16, 17, 22)
      BY DEF Increasing
    <3> QED
      BY <3>1, Nine
  <2> HIDE DEF V
  <2> QED
    BY <2>1, <2>2 DEF Far
<1>11. Far(2, 7)
  <2> DEFINE V == {2, 3, 8, 10, 13, 14, 15, 17, 18}
  <2>1. V \subseteq Differ(Possibilities[2], Possibilities[7]) \cap 2..23
    BY WordsAre DEF Differ
  <2>2. IsFiniteSet(V) /\ Cardinality(V) = 9
    <3>1. Increasing(2, 3, 8, 10, 13, 14, 15, 17, 18)
      BY DEF Increasing
    <3> QED
      BY <3>1, Nine
  <2> HIDE DEF V
  <2> QED
    BY <2>1, <2>2 DEF Far
<1>12. Far(2, 8)
  <2> DEFINE V == {2, 4, 6, 7, 9, 11, 12, 13, 14}
  <2>1. V \subseteq Differ(Possibilities[2], Possibilities[8]) \cap 2..23
    BY WordsAre DEF Differ
  <2>2. IsFiniteSet(V) /\ Cardinality(V) = 9
    <3>1. Increasing(2, 4, 6, 7, 9, 11, 12, 13, 14)
      BY DEF Increasing
    <3> QED
      BY <3>1, Nine
  <2> HIDE DEF V
  <2> QED
    BY <2>1, <2>2 DEF Far
<1>13. Far(3, 5)
  <2> DEFINE V == {7, 8, 9, 10, 12, 14, 16, 18, 20}
  <2>1. V \subseteq Differ(Possibilities[3], Possibilities[5]) \cap 2..23
    BY WordsAre DEF Differ
  <2>2. IsFiniteSet(V) /\ Cardinality(V) = 9
    <3>1. Increasing(7, 8, 9, 10, 12, 14, 16, 18, 20)
      BY DEF Increasing
    <3> QED
      BY <3>1, Nine
  <2> HIDE DEF V
  <2> QED
    BY <2>1, <2>2 DEF Far
<1>14. Far(3, 6)
  <2> DEFINE V == {6, 7, 12, 14, 17, 18, 19, 21, 22}
  <2>1. V \subseteq Differ(Possibilities[3], Possibilities[6]) \cap 2..23
    BY WordsAre DEF Differ
  <2>2. IsFiniteSet(V) /\ Cardinality(V) = 9
    <3>1. Increasing(6, 7, 12, 14, 17, 18, 19, 21, 22)
      BY DEF Increasing
    <3> QED
      BY <3>1, Nine
  <2> HIDE DEF V
  <2> QED
    BY <2>1, <2>2 DEF Far
<1>15. Far(3, 7)
  <2> DEFINE V == {2, 4, 5, 6, 12, 13, 15, 16, 17}
  <2>1. V \subseteq Differ(Possibilities[3], Possibilities[7]) \cap 2..23
    BY WordsAre DEF Differ
  <2>2. IsFiniteSet(V) /\ Cardinality(V) = 9
    <3>1. Increasing(2, 4, 5, 6, 12, 13, 15, 16, 17)
      BY DEF Increasing
    <3> QED
      BY <3>1, Nine
  <2> HIDE DEF V
  <2> QED
    BY <2>1, <2>2 DEF Far
<1>16. Far(3, 8)
  <2> DEFINE V == {2, 3, 5, 7, 8, 9, 10, 11, 13}
  <2>1. V \subseteq Differ(Possibilities[3], Possibilities[8]) \cap 2..23
    BY WordsAre DEF Differ
  <2>2. IsFiniteSet(V) /\ Cardinality(V) = 9
    <3>1. Increasing(2, 3, 5, 7, 8, 9, 10, 11, 13)
      BY DEF Increasing
    <3> QED
      BY <3>1, Nine
  <2> HIDE DEF V
  <2> QED
    BY <2>1, <2>2 DEF Far
<1>17. Far(4, 5)
  <2> DEFINE V == {2, 3, 4, 5, 6, 7, 8, 11, 12}
  <2>1. V \subseteq Differ(Possibilities[4], Possibilities[5]) \cap 2..23
    BY WordsAre DEF Differ
  <2>2. IsFiniteSet(V) /\ Cardinality(V) = 9
    <3>1. Increasing(2, 3, 4, 5, 6, 7, 8, 11, 12)
      BY DEF Increasing
    <3> QED
      BY <3>1, Nine
  <2> HIDE DEF V
  <2> QED
    BY <2>1, <2>2 DEF Far
<1>18. Far(4, 6)
  <2> DEFINE V == {2, 3, 4, 5, 7, 9, 10, 11, 12}
  <2>1. V \subseteq Differ(Possibilities[4], Possibilities[6]) \cap 2..23
    BY WordsAre DEF Differ
  <2>2. IsFiniteSet(V) /\ Cardinality(V) = 9
    <3>1. Increasing(2, 3, 4, 5, 7, 9, 10, 11, 12)
      BY DEF Increasing
    <3> QED
      BY <3>1, Nine
  <2> HIDE DEF V
  <2> QED
    BY <2>1, <2>2 DEF Far
<1>19. Far(4, 7)
  <2> DEFINE V == {3, 9, 10, 11, 12, 14, 16, 18, 20}
  <2>1. V \subseteq Differ(Possibilities[4], Possibilities[7]) \cap 2..23
    BY WordsAre DEF Differ
  <2>2. IsFiniteSet(V) /\ Cardinality(V) = 9
    <3>1. Increasing(3, 9, 10, 11, 12, 14, 16, 18, 20)
      BY DEF Increasing
    <3> QED
      BY <3>1, Nine
  <2> HIDE DEF V
  <2> QED
    BY <2>1, <2>2 DEF Far
<1>20. Far(4, 8)
  <2> DEFINE V == {4, 6, 7, 8, 14, 15, 17, 18, 19}
  <2>1. V \subseteq Differ(Possibilities[4], Possibilities[8]) \cap 2..23
    BY WordsAre DEF Differ
  <2>2. IsFiniteSet(V) /\ Cardinality(V) = 9
    <3>1. Increasing(4, 6, 7, 8, 14, 15, 17, 18, 19)
      BY DEF Increasing
    <3> QED
      BY <3>1, Nine
  <2> HIDE DEF V
  <2> QED
    BY <2>1, <2>2 DEF Far
<1>21. Far(5, 6)
  <2> DEFINE V == {6, 8, 9, 10, 16, 17, 19, 20, 21}
  <2>1. V \subseteq Differ(Possibilities[5], Possibilities[6]) \cap 2..23
    BY WordsAre DEF Differ
  <2>2. IsFiniteSet(V) /\ Cardinality(V) = 9
    <3>1. Increasing(6, 8, 9, 10, 16, 17, 19, 20, 21)
      BY DEF Increasing
    <3> QED
      BY <3>1, Nine
  <2> HIDE DEF V
  <2> QED
    BY <2>1, <2>2 DEF Far
<1>22. Far(5, 7)
  <2> DEFINE V == {2, 4, 5, 6, 7, 8, 9, 10, 13}
  <2>1. V \subseteq Differ(Possibilities[5], Possibilities[7]) \cap 2..23
    BY WordsAre DEF Differ
  <2>2. IsFiniteSet(V) /\ Cardinality(V) = 9
    <3>1. Increasing(2, 4, 5, 6, 7, 8, 9, 10, 13)
      BY DEF Increasing
    <3> QED
      BY <3>1, Nine
  <2> HIDE DEF V
  <2> QED
    BY <2>1, <2>2 DEF Far
<1>23. Far(5, 8)
  <2> DEFINE V == {2, 3, 5, 11, 12, 13, 14, 16, 18}
  <2>1. V \subseteq Differ(Possibilities[5], Possibilities[8]) \cap 2..23
    BY WordsAre DEF Differ
  <2>2. IsFiniteSet(V) /\ Cardinality(V) = 9
    <3>1. Increasing(2, 3, 5, 11, 12, 13, 14, 16, 18)
      BY DEF Increasing
    <3> QED
      BY <3>1, Nine
  <2> HIDE DEF V
  <2> QED
    BY <2>1, <2>2 DEF Far
<1> QED
  BY <1>1, <1>2, <1>3, <1>4, <1>5, <1>6, <1>7, <1>8, <1>9, <1>10, <1>11, <1>12, <1>13, <1>14, <1>15,
     <1>16, <1>17, <1>18, <1>19, <1>20, <1>21, <1>22, <1>23

\* A word for a kind of frame and a word for another kind differ in nine bits of the shortest header.
LEMMA WordsFar ==
  ASSUME NEW i \in 1..5, NEW j \in 1..8, Holds(i) # Holds(j)
  PROVE  Far(i, j)
<1>1. Holds(1) = Holds(2) /\ Holds(3) = Holds(4) /\ Holds(6) = Holds(7) /\ Holds(7) = Holds(8)
  BY DEF Holds
<1>2. (i = 1 \/ i = 2 \/ i = 3 \/ i = 4 \/ i = 5)
      /\ (j = 1 \/ j = 2 \/ j = 3 \/ j = 4 \/ j = 5 \/ j = 6 \/ j = 7 \/ j = 8)
  OBVIOUS
<1> QED
  BY <1>1, <1>2, PairsFar, FarBack

\* Every bit of the header is found, in frames of all lengths.
LEMMA AllFound ==
  ASSUME NEW l \in Layouts
  PROVE  PciLen(l) \in {22, 24} /\ Found(l) = (24 - PciLen(l))..23
<1> DEFINE n == PciLen(l)
           s == l.start
           o == l.offset
           m == l.len
<1>1. n \in {22, 24} /\ s \in Nat /\ o \in Nat /\ m \in Nat /\ s + (n - 1) * o < m
  <2>1. n = IF m = 3750 THEN 22 ELSE 24
    BY DEF PciLen
  <2>2. \/ (m = 146176 /\ s = 116176 /\ o = 1248) \/ (m = 4608 /\ s = 120 /\ o = 184)
        \/ (m = 2304 /\ s = 120 /\ o = 88) \/ (m = 3750 /\ s = 120 /\ o = 160)
        \/ (m = 24000 /\ s = 120 /\ o = 992) \/ (m = 30000 /\ s = 120 /\ o = 1240)
    BY DEF Layouts
  <2> HIDE DEF n, s, o, m
  <2> QED
    BY <2>1, <2>2
<1>2. ASSUME NEW k \in 0..n - 1 PROVE s + k * o < m
  <2> HIDE DEF n, s, o, m
  <2>1. k <= n - 1 /\ k \in Nat /\ n - 1 \in Nat
    BY <1>1
  <2>2. k * o <= (n - 1) * o
    BY <1>1, <2>1
  <2>3. k * o \in Nat /\ (n - 1) * o \in Nat
    BY <1>1, <2>1
  <2> QED
    BY <1>1, <2>2, <2>3
<1>3. Found(l) = {23 - h : h \in 0..n - 1}
  <2>1. {k \in 0..n - 1 : s + k * o < m} = 0..n - 1
    BY <1>2
  <2> QED
    BY <2>1 DEF Found
<1> HIDE DEF n
<1>4. {23 - h : h \in 0..n - 1} = (24 - n)..23
  <2>1. ASSUME NEW x \in (24 - n)..23 PROVE \E h \in 0..n - 1 : x = 23 - h
    <3>1. 23 - x \in 0..n - 1 /\ x = 23 - (23 - x)
      BY <1>1
    <3> QED
      BY <3>1
  <2>2. ASSUME NEW h \in 0..n - 1 PROVE 23 - h \in (24 - n)..23
    BY <1>1
  <2> QED
    BY <2>1, <2>2
<1> QED
  BY <1>1, <1>3, <1>4 DEF n

\* Four bits at most.
LEMMA FourBits ==
  ASSUME NEW a, NEW b, NEW c, NEW d
  PROVE  IsFiniteSet({a, b, c, d}) /\ Cardinality({a, b, c, d}) \in 0..4
<1>0. IsFiniteSet({}) /\ Cardinality({}) = 0
  BY FS_EmptySet
<1>1. ASSUME NEW s, IsFiniteSet(s), NEW x, NEW n \in Nat, Cardinality(s) <= n
      PROVE  IsFiniteSet(s \cup {x}) /\ Cardinality(s \cup {x}) <= n + 1
  <2>1. Cardinality(s) \in Nat
    BY <1>1, FS_CardinalityType
  <2>2. IsFiniteSet(s \cup {x}) /\ (Cardinality(s \cup {x}) = Cardinality(s) \/ Cardinality(s \cup {x}) = Cardinality(s) + 1)
    BY <1>1, FS_AddElement
  <2> QED
    BY <1>1, <2>1, <2>2
<1>2. IsFiniteSet({a}) /\ Cardinality({a}) <= 1
  BY FS_Singleton
<1>3. {a, b} = {a} \cup {b} /\ {a, b, c} = {a, b} \cup {c} /\ {a, b, c, d} = {a, b, c} \cup {d}
  OBVIOUS
<1>4. IsFiniteSet({a} \cup {b}) /\ Cardinality({a} \cup {b}) <= 1 + 1
  BY <1>1, <1>2
<1>5. IsFiniteSet({a, b}) /\ Cardinality({a, b}) <= 2
  BY <1>3, <1>4
<1>6. IsFiniteSet({a, b} \cup {c}) /\ Cardinality({a, b} \cup {c}) <= 2 + 1
  BY <1>1, <1>5
<1>7. IsFiniteSet({a, b, c}) /\ Cardinality({a, b, c}) <= 3
  BY <1>3, <1>6
<1>8. IsFiniteSet({a, b, c} \cup {d}) /\ Cardinality({a, b, c} \cup {d}) <= 3 + 1
  BY <1>1, <1>7
<1>9. IsFiniteSet({a, b, c, d}) /\ Cardinality({a, b, c, d}) <= 4
  BY <1>3, <1>8
<1> QED
  BY <1>9, FS_CardinalityType

\* A word with up to four of its bits damaged is still nearest to those that say the same.
LEMMA ReadRight ==
  ASSUME NEW i \in 1..5, NEW n \in {22, 24}, NEW D, D \subseteq (24 - n)..23,
         IsFiniteSet(D), Cardinality(D) \in 0..4
  PROVE  Read(i, (24 - n)..23, n, D) = Holds(i)
<1> DEFINE found == (24 - n)..23
           P(j) == Possibilities[j]
           header == Differ(P(i) \cap found, D)
           Off4(j) == {k \in Differ(header, P(j)) : k >= 24 - n}
           near == {j \in DOMAIN Possibilities : Cardinality(Off4(j)) <= MaxErrors}
<1>1. DOMAIN Possibilities = 1..8 /\ \A j \in 1..8 : P(j) \subseteq 0..23
  BY WordsAre
<1>2. i \in 1..8 /\ found \subseteq 0..23
  OBVIOUS
<1>3. \A k \in found : k >= 24 - n /\ k \in 0..23
  OBVIOUS
<1>4. \A k \in 0..23 : k >= 24 - n => k \in found
  OBVIOUS
<1>5. Read(i, found, n, D) = Holds(IF near = {} THEN 0 ELSE CHOOSE j \in near : \A l \in near : j <= l)
  BY DEF Read, FuzzyPCI
<1> HIDE DEF found, P
<1>6. Off4(i) = D
  <2>1. ASSUME NEW k \in Off4(i) PROVE k \in D
    <3>1. D \subseteq found
      BY DEF found
    <3>2. k \in P(i) \/ k \in D
      BY DEF Differ
    <3>3. k \in 0..23
      BY <1>1, <1>2, <3>1, <3>2
    <3> QED
      BY <1>4, <3>3 DEF Differ
  <2>2. ASSUME NEW k \in D PROVE k \in Off4(i)
    <3>1. k \in found
      BY DEF found
    <3>2. k \in Differ(header, P(i))
      BY <3>1 DEF Differ
    <3> QED
      BY <1>3, <3>1, <3>2
  <2> QED
    BY <2>1, <2>2
<1>7. i \in near
  BY <1>1, <1>2, <1>6 DEF MaxErrors
<1>8. ASSUME NEW j \in near PROVE Holds(j) = Holds(i)
  <2> SUFFICES ASSUME Holds(i) # Holds(j) PROVE FALSE
    OBVIOUS
  <2>1. j \in 1..8 /\ Cardinality(Off4(j)) <= 4
    BY <1>1 DEF MaxErrors
  <2>2. Far(i, j)
    BY <2>1, WordsFar
  <2>3. PICK V : V \subseteq Differ(P(i), P(j)) \cap 2..23 /\ IsFiniteSet(V) /\ Cardinality(V) = 9
    BY <2>2 DEF Far, P
  <2>4. V \subseteq D \cup Off4(j)
    <3> SUFFICES ASSUME NEW k \in V, k \notin D PROVE k \in Off4(j)
      OBVIOUS
    <3>1. k \in found /\ k >= 24 - n
      <4>1. k \in 2..23
        BY <2>3
      <4> QED
        BY <4>1 DEF found
    <3>2. k \in Differ(P(i), P(j))
      BY <2>3
    <3>3. k \in Differ(header, P(j))
      BY <3>1, <3>2 DEF Differ
    <3> QED
      BY <3>1, <3>3
  <2>5. Off4(j) \subseteq 0..23
    <3>1. D \subseteq 0..23
      BY <1>2 DEF found
    <3> QED
      BY <1>1, <1>2, <2>1, <3>1 DEF Differ
  <2>6. IsFiniteSet(Off4(j))
    <3> DEFINE E == Off4(j)
    <3>1. E \subseteq 0..23
      BY <2>5
    <3>2. IsFiniteSet(0..23)
      <4>1. 0 \in Int /\ 23 \in Int
        OBVIOUS
      <4> QED
        BY <4>1, FS_Interval
    <3> HIDE DEF E
    <3>3. IsFiniteSet(E)
      BY <3>1, <3>2, FS_Subset
    <3> QED
      BY <3>3 DEF E
  <2> DEFINE E == Off4(j)
  <2> HIDE DEF E, header
  <2>7. IsFiniteSet(E) /\ Cardinality(E) <= 4 /\ V \subseteq D \cup E
    BY <2>1, <2>4, <2>6 DEF E
  <2>8. IsFiniteSet(D \cup E) /\ Cardinality(D \cup E) = Cardinality(D) + Cardinality(E) - Cardinality(D \cap E)
    BY <2>7, FS_Union
  <2>9. Cardinality(V) <= Cardinality(D \cup E)
    BY <2>7, <2>8, FS_Subset
  <2>10. Cardinality(D \cap E) \in Nat /\ Cardinality(E) \in Nat
    <3>1. IsFiniteSet(D \cap E)
      <4>1. D \cap E \subseteq D
        OBVIOUS
      <4> QED
        BY <4>1, FS_Subset
    <3> QED
      BY <2>7, <3>1, FS_CardinalityType
  <2> QED
    BY <2>3, <2>7, <2>8, <2>9, <2>10
<1>9. near \subseteq Nat
  BY <1>1
<1> HIDE DEF near
<1>10. \E j \in near : \A l \in near : j <= l
  <2>1. near # {}
    BY <1>7
  <2> QED
    BY <1>9, <2>1, Least
<1> DEFINE first == CHOOSE j \in near : \A l \in near : j <= l
<1>11. first \in near
  BY <1>10
<1> HIDE DEF first
<1>12. Holds(first) = Holds(i)
  BY <1>8, <1>11
<1>13. near # {}
  BY <1>7
<1> QED
  BY <1>5, <1>12, <1>13 DEF first, found

\* So no frame is misread.
LEMMA NoneMisread == ASSUME NEW i \in 1..5 PROVE i \notin Misread
<1> SUFFICES ASSUME i \in Misread PROVE FALSE
  OBVIOUS
<1>1. PICK m \in {[found |-> Found(l), len |-> PciLen(l)] : l \in Layouts} :
        \E a \in m.found : \E b \in m.found \cap a..23 :
        \E c \in m.found \cap b..23 : \E d \in m.found \cap c..23 :
          Read(i, m.found, m.len, {a, b, c, d}) # Holds(i)
  BY DEF Misread
<1>2. PICK l \in Layouts : m = [found |-> Found(l), len |-> PciLen(l)]
  OBVIOUS
<1> DEFINE n == PciLen(l)
           R == (24 - n)..23
<1>3. n \in {22, 24} /\ m.found = R /\ m.len = n
  BY <1>2, AllFound
<1> HIDE DEF n
<1>4. PICK a, b, c, d : {a, b, c, d} \subseteq R /\ Read(i, R, n, {a, b, c, d}) # Holds(i)
  <2>2. PICK a \in m.found, b \in m.found, c \in m.found, d \in m.found : Read(i, m.found, m.len, {a, b, c, d}) # Holds(i)
    BY <1>1
  <2> HIDE DEF R
  <2>3. {a, b, c, d} \subseteq R /\ Read(i, R, n, {a, b, c, d}) # Holds(i)
    BY <1>3, <2>2
  <2> QED
    BY <2>3
<1> DEFINE D == {a, b, c, d}
<1>5. D \subseteq R /\ IsFiniteSet(D) /\ Cardinality(D) \in 0..4
  BY <1>4, FourBits
<1> HIDE DEF D
<1>6. Read(i, R, n, D) = Holds(i)
  BY <1>3, <1>5, ReadRight
<1> QED
  BY <1>4, <1>6 DEF D

\* The words of the kinds of frames are read as their kind, with up to four bits of them damaged.
LEMMA KindsAreRead == Kind \subseteq KindsRead
<1>1. DOMAIN Possibilities = 1..8
  BY WordsAre
<1>2. Holds(1) = "audio" /\ Holds(3) = "audioFixed" /\ Holds(5) = "fixed"
  BY DEF Holds
<1>3. \A i \in 1..5 : i \notin Misread
  BY NoneMisread
<1>4. Misread \subseteq 1..8
  BY <1>1 DEF Misread
<1>5. \A i \in 6..8 : Holds(i) = "nothing"
  BY DEF Holds
<1>6. \A i \in Misread : Holds(i) = "nothing"
  <2>1. \A i \in Misread : i \in 6..8
    BY <1>3, <1>4
  <2> QED
    BY <1>5, <2>1
<1>7. Kind = {"audio", "audioFixed", "fixed"}
  BY DEF Kind
<1>8. \A k \in Kind : k # "nothing" /\ \E i \in DOMAIN Possibilities : k = Holds(i)
  BY <1>1, <1>2, <1>7
<1> QED
  BY <1>6, <1>8 DEF KindsRead

\* A frame is taken for what it is, with up to four bits of its PCI damaged.
THEOREM KindsTaken == Spec => []PciRead
<1>1. IInv => PciRead
  BY KindsAreRead DEF IInv, PciRead
<1> QED
  BY <1>1, AlwaysRight, PTL
=================================================================================
