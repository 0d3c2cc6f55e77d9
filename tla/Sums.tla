---------------------------------- MODULE Sums ----------------------------------
(***************************************************************************)
(* Sums of any length and powers, as recursive functions: the folds of the *)
(* library and ^ compute the same, and cannot be reasoned about.           *)
(***************************************************************************)
EXTENDS Naturals

\* The sum of v[1] to v[n].
SumTo(v, n) == LET sum[k \in 0..n] == IF k = 0 THEN 0 ELSE sum[k - 1] + v[k] IN sum[n]

\* b to the n.
Power(b, n) == LET power[k \in Nat] == IF k = 0 THEN 1 ELSE b * power[k - 1] IN power[n]

=============================================================================
