--------------------------------- MODULE Sums ---------------------------------
(***************************************************************************)
(* The sum of a table of n rows, as aggregates in the database and loops   *)
(* over query results compute it.                                          *)
(***************************************************************************)
EXTENDS Integers

PartialSums(row, n) ==
    LET sum[i \in 0..n] == IF i = 0 THEN 0 ELSE sum[i-1] + row[i]
    IN  sum

SumOf(row, n) == PartialSums(row, n)[n]
=============================================================================
