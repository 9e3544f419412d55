--------------------------------- MODULE Sums ---------------------------------
(***************************************************************************)
(* Sums that ledgers are measured by, as recursive functions: TLC computes *)
(* them, and SumsProofs has their laws.                                    *)
(***************************************************************************)
EXTENDS Integers, FiniteSets, SequencesExt

\* f[1] + ... + f[k]
SumTo(f, k) ==
    LET sum[i \in 0 .. k] == IF i = 0 THEN 0 ELSE sum[i - 1] + f[i]
    IN  sum[k]

\* The sum of f[x] for all x of the finite set S.
SumOver(S, f) ==
    LET order == SetToSeq(S)
    IN  SumTo([i \in 1 .. Cardinality(S) |-> f[order[i]]], Cardinality(S))
=============================================================================
