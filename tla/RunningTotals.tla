--------------------------- MODULE RunningTotals ---------------------------
(***************************************************************************)
(* A finite sum stated by its running totals: a function whose value at i  *)
(* is what the items 1 .. i amount to.  Stated so, a sum needs no          *)
(* recursion, and a change of one item shifts the totals from it on.       *)
(***************************************************************************)
EXTENDS Integers

\* f[1] + ... + f[n] = total, for natural numbers f[i].
AddsUp(n, f, total) ==
  \E sum \in [0 .. n -> 0 .. total] :
    /\ sum[0] = 0
    /\ sum[n] = total
    /\ \A i \in 1 .. n : sum[i] = sum[i - 1] + f[i]
=============================================================================
