--------------------------------- MODULE Sums ---------------------------------
(* The sum of an integer function over a finite set, for the counters that  *)
(* several goroutines hold a share of.                                      *)
EXTENDS Integers, FiniteSetsExt

SumOver(f, S) == MapThenSumSet(LAMBDA x : f[x], S)
=============================================================================
