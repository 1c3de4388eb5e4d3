------------------------ MODULE RunningTotalsProofs ------------------------
(***************************************************************************)
(* Lemmas about sums stated by their running totals.                       *)
(***************************************************************************)
EXTENDS RunningTotals, TLAPS

\* sum is the running total of f, and grows with its index.
Totals(n, sum, f, total) ==
  /\ sum \in [0 .. n -> 0 .. total]
  /\ sum[0] = 0
  /\ sum[n] = total
  /\ \A i \in 1 .. n : sum[i] = sum[i - 1] + f[i]
  /\ \A i, j \in 0 .. n : i <= j => sum[i] <= sum[j]

LEMMA TotalsAddUp ==
  ASSUME NEW n, NEW sum, NEW f, NEW total, Totals(n, sum, f, total)
  PROVE  AddsUp(n, f, total)
BY DEF Totals, AddsUp

\* Nothing adds up to nothing.
LEMMA ZeroTotals ==
  ASSUME NEW n \in Nat
  PROVE  \E sum : Totals(n, sum, [i \in 1 .. n |-> 0], 0)
<1> DEFINE sum == [i \in 0 .. n |-> 0]
<1>1. Totals(n, sum, [i \in 1 .. n |-> 0], 0)
  BY DEF Totals
<1>2. QED BY <1>1

LEMMA Shifted ==
  ASSUME NEW i \in Nat, NEW p \in Nat, NEW q \in Nat, NEW j \in Nat, NEW x \in Nat, NEW v \in Nat,
         i <= p, q = p + x, q <= j
  PROVE  i <= j - x + v
OBVIOUS

\* The total covers each summand, and replacing one summand moves the total by
\* the difference.  (The checked += and -= of a Solidity counter.)
LEMMA TotalsUpdate ==
  ASSUME NEW n \in Nat, NEW f \in [1 .. n -> Nat], NEW total \in Nat, NEW sum,
         Totals(n, sum, f, total), NEW b \in 1 .. n, NEW v \in Nat
  PROVE  /\ f[b] <= total
         /\ total - f[b] + v \in Nat
         /\ \E s : Totals(n, s, [f EXCEPT ![b] = v], total - f[b] + v)
<1> DEFINE t == total - f[b] + v
           s == [i \in 0 .. n |-> IF i < b THEN sum[i] ELSE sum[i] - f[b] + v]
<1>1. /\ b - 1 \in 0 .. n /\ b \in 0 .. n
      /\ n \in 0 .. n /\ 0 \in 0 .. n
  OBVIOUS
<1>2. \A i \in 0 .. n : sum[i] \in Nat /\ sum[i] <= total
  BY DEF Totals
<1>3. sum[b] = sum[b - 1] + f[b]
  BY DEF Totals
<1>4. f[b] \in Nat /\ f[b] <= total /\ t \in Nat
  BY <1>1, <1>2, <1>3
<1>5. \A i \in 0 .. n : i >= b => sum[i] >= sum[b]
  BY <1>1 DEF Totals
<1>6. \A i \in 0 .. n : i < b => sum[i] <= sum[b - 1]
  BY <1>1 DEF Totals
<1>7. sum[b] <= total
  BY <1>1, <1>2
<1>8. s \in [0 .. n -> 0 .. t]
  <2>1. ASSUME NEW i \in 0 .. n PROVE s[i] \in 0 .. t
    <3>1. CASE i < b
      BY <3>1, <1>1, <1>2, <1>3, <1>4, <1>6, <1>7
    <3>2. CASE ~ (i < b)
      BY <3>2, <1>1, <1>2, <1>3, <1>4, <1>5
    <3>3. QED BY <3>1, <3>2
  <2>2. QED BY <2>1
<1>9. s[0] = 0 /\ s[n] = t
  BY <1>1, <1>2 DEF Totals
<1>10. ASSUME NEW c \in 1 .. n PROVE s[c] = s[c - 1] + [f EXCEPT ![b] = v][c]
  <2>1. /\ sum[c] = sum[c - 1] + f[c] /\ f[c] \in Nat
        /\ c \in 0 .. n /\ c - 1 \in 0 .. n
    BY DEF Totals
  <2>2. sum[c] \in Nat /\ sum[c - 1] \in Nat
    BY <2>1, <1>2
  <2>3. CASE c = b
    BY <2>1, <2>2, <2>3, <1>1, <1>4
  <2>4. CASE c < b
    BY <2>1, <2>2, <2>4, <1>1, <1>4
  <2>5. CASE c > b
    <3>1. ~ (c < b) /\ ~ (c - 1 < b) /\ c # b
      BY <2>5, <1>1
    <3>2. s[c] = sum[c] - f[b] + v /\ s[c - 1] = sum[c - 1] - f[b] + v
      BY <3>1, <2>1
    <3>3. QED BY <3>1, <3>2, <2>1, <2>2, <1>4
  <2>6. QED BY <2>3, <2>4, <2>5, <1>1
<1>11. ASSUME NEW i \in 0 .. n, NEW j \in 0 .. n, i <= j
       PROVE  s[i] <= s[j]
  <2>1. sum[i] <= sum[j] /\ sum[i] \in Nat /\ sum[j] \in Nat
    BY <1>11, <1>2 DEF Totals
  <2>2. CASE i < b /\ j < b
    BY <2>1, <2>2
  <2>3. CASE i < b /\ ~ (j < b)
    <3>1. sum[i] <= sum[b - 1] /\ sum[b] <= sum[j] /\ sum[b - 1] \in Nat /\ sum[b] \in Nat
      BY <2>3, <1>1, <1>2, <1>5, <1>6
    <3>2. s[i] = sum[i] /\ s[j] = sum[j] - f[b] + v
      BY <2>3
    <3>3. f[b] \in Nat
      BY <1>4
    <3>4. sum[i] <= sum[j] - f[b] + v
      BY <2>1, <3>1, <3>3, <1>3, Shifted
    <3>5. QED BY <3>2, <3>4
  <2>4. CASE ~ (i < b)
    <3>1. ~ (j < b)
      BY <2>4, <1>11, <1>1
    <3>2. s[i] = sum[i] - f[b] + v /\ s[j] = sum[j] - f[b] + v
      BY <2>4, <3>1
    <3>3. QED BY <2>1, <3>2, <1>4
  <2>5. QED BY <2>2, <2>3, <2>4
<1>12. Totals(n, s, [f EXCEPT ![b] = v], t)
  BY <1>8, <1>9, <1>10, <1>11 DEF Totals
<1>13. QED BY <1>4, <1>12
=============================================================================
