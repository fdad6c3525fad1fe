-------------------------------- MODULE Sums --------------------------------
(* The sum of a function, such as the balances of all accounts. *)
EXTENDS Integers, FiniteSetsExt

SumOver(f, S) == MapThenSumSet(LAMBDA x : f[x], S)
=============================================================================
