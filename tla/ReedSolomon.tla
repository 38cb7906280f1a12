------------------------------ MODULE ReedSolomon ------------------------------
(***************************************************************************)
(* The Reed-Solomon decoder (rs.go) and its use on the headers of audio    *)
(* PDUs (frame.go fixHeader), over a field and for a code of any size.     *)
(* Elements of the field are numbers whose bits are their coefficients;    *)
(* the code's index forms are a matter of speed and are not kept.          *)
(***************************************************************************)
EXTENDS Integers, Sequences, FiniteSets, Bitwise, SequencesExt

CONSTANTS
  Bits,    \* bits of a symbol (8)
  Poly,    \* the field's polynomial (0x11d)
  Roots,   \* parity symbols (8), roots alpha^1 and on
  HeaderLen   \* symbols of a header, the rest being zero (96)

NN == 2^Bits - 1
Symbol == 0..NN
Place == 0..NN - 1
Words == [Place -> Symbol]

-----------------------------------------------------------------------------
(* The field. *)

Doubled(x) == IF 2 * x > NN THEN (2 * x) ^^ Poly ELSE 2 * x

alphaTo[i \in Place] == IF i = 0 THEN 1 ELSE Doubled(alphaTo[i - 1])

Alpha(i) == alphaTo[i % NN]

indexOf == [x \in Symbol \ {0} |-> CHOOSE i \in Place : alphaTo[i] = x]

sum == [x \in Symbol, y \in Symbol |-> x ^^ y]

Times(x, y) == IF x = 0 \/ y = 0 THEN 0 ELSE Alpha(indexOf[x] + indexOf[y])
Over(x, y)  == IF x = 0 THEN 0 ELSE Alpha(indexOf[x] - indexOf[y])

\* The sum of a function's values.
Sum(f) == FoldFunction(LAMBDA x, y : sum[x, y], 0, f)

\* Polynomials of degree Roots at most, coefficients from the constant up.
Degrees == 0..Roots
At(p, x) == Sum([i \in Degrees |-> Times(p[i], Alpha(i * x))])
TimesX(p) == [i \in Degrees |-> IF i = 0 THEN 0 ELSE p[i - 1]]

-----------------------------------------------------------------------------
(* decodeRs, without erasures. *)

Syndrome(data, i) ==
  FoldLeft(LAMBDA s, j : sum[data[j], Times(s, Alpha(1 + i))], data[0], [k \in 1..NN - 1 |-> k])

Syndromes(data) == [i \in 0..Roots - 1 |-> Syndrome(data, i)]

\* Step r of Berlekamp-Massey.
OneEarly(m, r) == 2 * m.el < r - 1  \* mutant
Longer(m, r) == 2 * m.el <= r - 1

Step(s, m, r) ==
  LET discr == Sum([i \in 0..r - 1 |-> Times(m.lambda[i], s[r - i - 1])])
      xb == TimesX(m.b) IN
  IF discr = 0 THEN [m EXCEPT !.b = xb]
  ELSE [lambda |-> [i \in Degrees |-> sum[m.lambda[i], Times(discr, xb[i])]],
        el |-> IF Longer(m, r) THEN r - m.el ELSE m.el,
        b |-> IF Longer(m, r) THEN [i \in Degrees |-> Over(m.lambda[i], discr)] ELSE xb]

Lambda(s) ==
  LET one == [i \in Degrees |-> IF i = 0 THEN 1 ELSE 0] IN
  FoldLeft(LAMBDA m, r : Step(s, m, r), [lambda |-> one, b |-> one, el |-> 0],
           [r \in 1..Roots |-> r]).lambda

Degree(p) == CHOOSE d \in Degrees : (p[d] # 0 \/ d = 0) /\ \A i \in d + 1..Roots : p[i] = 0

\* The Chien search: root i belongs to place i - 1.
RootsOf(p) == {i \in 1..NN : At(p, i) = 0}

Omega(s, lambda) ==
  [i \in Degrees |-> IF i = Roots THEN 0 ELSE Sum([j \in 0..i |-> Times(s[i - j], lambda[j])])]

\* The value of lambda's formal derivative.
Derivative(lambda, x) ==
  Sum([i \in {i \in 0..Roots - 1 : i % 2 = 0} |-> Times(lambda[i + 1], Alpha(i * x))])

Failed(data) == [count |-> -1, data |-> data]

EnoughRoots(lambda, roots) == Cardinality(roots) = Degree(lambda)

Decode(data) ==
  LET s == Syndromes(data)
      lambda == Lambda(s)
      roots == RootsOf(lambda)
      omega == Omega(s, lambda) IN
  IF \A i \in DOMAIN s : s[i] = 0 THEN [count |-> 0, data |-> data]
  ELSE IF ~EnoughRoots(lambda, roots) \/ \E x \in roots : Derivative(lambda, x) = 0
  THEN Failed(data)
  ELSE [count |-> Cardinality(roots),
        data |-> [p \in Place |->
                    IF p + 1 \in roots
                    THEN sum[data[p], Over(At(omega, p + 1), Derivative(lambda, p + 1))]
                    ELSE data[p]]]

-----------------------------------------------------------------------------
(* fixHeader: headers are sent backwards, and what comes before them is zero. *)

Padded(buf) == [p \in Place |-> IF p < NN - HeaderLen THEN 0 ELSE buf[NN - p]]

StaysZero(data) == \A p \in 0..NN - HeaderLen - 1 : data[p] = 0

FixHeader(buf) ==
  LET d == Decode(Padded(buf)) IN
  IF d.count = -1 \/ ~StaysZero(d.data) THEN [ok |-> FALSE, buf |-> buf]
  ELSE [ok |-> TRUE, buf |-> [i \in 1..HeaderLen |-> d.data[NN - i]]]

-----------------------------------------------------------------------------
(* The definition of the code, against which all this is compared. *)

IsCodeword(data) == \A i \in 0..Roots - 1 : Syndrome(data, i) = 0

\* All words that differ from w in n places at most.
Near(w, n) ==
  UNION {{[i \in DOMAIN w |-> IF i \in places THEN e[i] ELSE w[i]] : e \in [places -> Symbol]} :
         places \in {ps \in SUBSET DOMAIN w : Cardinality(ps) <= n}}

Zero == [i \in 1..HeaderLen |-> 0]

\* The parity symbols of the header whose next symbol is 1, the others zero.
Parity == CHOOSE p \in [1..Roots -> Symbol] : IsCodeword(Padded(p @@ [Zero EXCEPT ![Roots + 1] = 1]))

\* Those of the given symbols m for which fixHeader puts m times that header right, whichever
\* of its symbols are damaged, up to half as many as there are parity symbols.
Repaired(symbols) ==
  LET one == Parity @@ [Zero EXCEPT ![Roots + 1] = 1] IN
  {m \in symbols :
     LET sent == [i \in 1..HeaderLen |-> Times(m, one[i])] IN
     \A buf \in Near(sent, Roots \div 2) : FixHeader(buf) = [ok |-> TRUE, buf |-> sent]}
=============================================================================
