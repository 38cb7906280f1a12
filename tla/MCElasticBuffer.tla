---------------------------- MODULE MCElasticBuffer ----------------------------
(***************************************************************************)
(* The elastic buffer, and the code that protects the headers by which the *)
(* packets find their slots: a code of 4 parity symbols over GF(8), of     *)
(* which a header is the last 5 of 7 symbols.                              *)
(***************************************************************************)
EXTENDS ElasticBuffer

RS == INSTANCE ReedSolomon WITH Bits <- 3, Poly <- 11, Roots <- 4, HeaderLen <- 5

Repaired == RS!Repaired(0..Seqs - 1)

\* The header of a PDU, its pduSeq the first symbol after the parity symbols, survives damage
\* to any half as many symbols as it has parity symbols: fixHeader (frame.go:170) puts it
\* right, so that only PDUs damaged worse than that are PduLost.
HeadersRepaired == pduSeq \in Repaired
=============================================================================
