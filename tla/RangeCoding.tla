------------------------------- MODULE RangeCoding -------------------------------
(******************************************************************************)
(* The arithmetic both directions of AV1's symbol coder share                  *)
(* (gamut-bitstream/src/symbol.rs): probabilities on a scale of Top, interval   *)
(* boundaries, renormalisation and the adaptation of a CDF.                     *)
(*                                                                            *)
(* A CDF of N symbols is a sequence of N cumulative values, the last of them Top.*)
(******************************************************************************)
EXTENDS Integers, Sequences

Top == 32768      \* CDF_PROB_TOP
MinProb == 4      \* EC_MIN_PROB

\* The convention the encoder asserts: up to 16 symbols, cumulative, closed by Top.  No
\* entry is zero: a first symbol of no probability would have no interval.
IsCdf(f) ==
    /\ f \in Seq(1 .. Top) /\ Len(f) \in 2 .. 16 /\ f[Len(f)] = Top
    /\ \A i \in 1 .. Len(f) - 1 : f[i] <= f[i + 1]

\* ec_partition: where probability f cuts a range r.
Partition(r, f) == ((r \div 256) * (f \div 64)) \div 2

\* Left shifts that bring a range of at most 16 bits back to exactly 16.
Shifts(r) == CHOOSE d \in 0 .. 15 : r * 2 ^ d \in Top .. 2 * Top - 1

Halvings(n) == IF n >= 4 THEN 2 ELSE IF n >= 2 THEN 1 ELSE 0
Rate(n, count) == 3 + (IF count > 15 THEN 1 ELSE 0) + (IF count > 31 THEN 1 ELSE 0) + Halvings(n)

\* A context: its CDF and the number of symbols it has adapted to, at most 32.
Context(cdf) == [cdf |-> cdf, count |-> 0]

\* update_cdf: entries below the coded symbol s move towards 0, the others
\* towards Top; the last one never moves.
Adapted(c, s) ==
    LET n == Len(c.cdf)
        step(v) == v \div 2 ^ Rate(n, c.count)
    IN  [cdf |-> [i \in 1 .. n |-> IF i = n THEN c.cdf[i]
                                   ELSE IF i < s THEN c.cdf[i] - step(c.cdf[i])
                                   ELSE c.cdf[i] + step(Top - c.cdf[i])],
         count |-> IF c.count < 32 THEN c.count + 1 ELSE c.count]
==================================================================================
