-------------------------- MODULE ReassemblyProofs --------------------------
(***************************************************************************)
(* Fragmentation and reassembly, proved for every sample size, every        *)
(* channel limit and every order, loss and overlap of fragments: the        *)
(* interval list of a partial is exact, and a sample is delivered whole,    *)
(* and as soon as it is.                                                    *)
(***************************************************************************)
EXTENDS Reassembly, DataLemmas, SequenceTheorems

-----------------------------------------------------------------------------
(* Interval lists *)

\* The bytes of an interval.
Span(iv) == Bytes(iv[1], iv[2])

\* No interval is empty, and none overlaps or touches the next.
Sorted(ivs) ==
  /\ \A i \in 1 .. Len(ivs) : ivs[i][1] < ivs[i][2]
  /\ \A i, j \in 1 .. Len(ivs) : i < j => ivs[i][2] < ivs[j][1]

\* Byte x lies in one of the first k intervals.
CoveredBy(ivs, k, x) == \E i \in 1 .. k : x \in Span(ivs[i])
Covers(ivs, x) == CoveredBy(ivs, Len(ivs), x)

\* Intervals of a sample of n bytes.
Intervals(n) == (0 .. n) \X (0 .. n)

\* The two ends of an interval.
LEMMA IntervalFields ==
  ASSUME NEW n \in Nat, NEW iv \in Intervals(n)
  PROVE  iv[1] \in Nat /\ iv[2] \in Nat /\ iv[1] <= n /\ iv[2] <= n
BY DEF Intervals

\* [lo, hi) is the union of [p, q) and [r, t).
Joint(lo, hi, p, q, r, t, n) ==
  /\ lo \in Nat /\ hi \in Nat /\ hi <= n /\ lo <= n /\ lo < hi
  /\ lo = p \/ lo = r
  /\ \A x \in Int : x \in lo .. (hi - 1) <=> x \in p .. (q - 1) \/ x \in r .. (t - 1)

\* Four numbers in order.
LEMMA ChainLess ==
  ASSUME NEW x \in Nat, NEW y \in Nat, NEW z \in Nat, NEW u \in Nat, x < y, y < z, z < u
  PROVE  x < u
OBVIOUS

\* Two intervals that overlap or touch make up one.
LEMMA JointSpan ==
  ASSUME NEW p \in Nat, NEW q \in Nat, NEW r \in Nat, NEW t \in Nat, NEW n \in Nat,
         p < q, r < t, p <= t, r <= q, q <= n, t <= n,
         NEW lo, NEW hi, lo = Lesser(p, r), hi = Greater(q, t)
  PROVE  Joint(lo, hi, p, q, r, t, n)
<1>1. /\ lo \in Nat /\ hi \in Nat /\ hi <= n /\ lo <= n /\ lo < hi
      /\ lo = p \/ lo = r
  BY DEF Lesser, Greater
<1>2. ASSUME NEW x \in Int
      PROVE  x \in lo .. (hi - 1) <=> x \in p .. (q - 1) \/ x \in r .. (t - 1)
  <2>1. x \in lo .. (hi - 1) <=> lo <= x /\ x < hi
    BY <1>1
  <2>2. x \in p .. (q - 1) <=> p <= x /\ x < q
    OBVIOUS
  <2>3. x \in r .. (t - 1) <=> r <= x /\ x < t
    OBVIOUS
  <2>4. lo <= x /\ x < hi <=> (p <= x /\ x < q) \/ (r <= x /\ x < t)
    BY DEF Lesser, Greater
  <2> QED
    BY <2>1, <2>2, <2>3, <2>4
<1> QED
  BY <1>1, <1>2 DEF Joint

\* new is the list ivs with iv at its end.
Longer(new, ivs, iv, n) ==
  /\ new \in Seq(Intervals(n))
  /\ Sorted(new)
  /\ \A x : Covers(new, x) <=> Covers(ivs, x) \/ x \in Span(iv)
  /\ Len(new) = Len(ivs) + 1
  /\ \A k \in 1 .. (Len(ivs) + 1) : new[k] = IF k = Len(ivs) + 1 THEN iv ELSE ivs[k]

\* An interval above a list goes to its end.
LEMMA AppendAbove ==
  ASSUME NEW n \in Nat, NEW ivs \in Seq(Intervals(n)), NEW iv \in Intervals(n),
         Sorted(ivs), iv[1] < iv[2], \A k \in 1 .. Len(ivs) : ivs[k][2] < iv[1]
  PROVE  Longer(Append(ivs, iv), ivs, iv, n)
<1>. PICK m \in Nat : m = Len(ivs)
  BY LenProperties
<1>. PICK new : new = Append(ivs, iv)
  OBVIOUS
<1>1. /\ new \in Seq(Intervals(n)) /\ Len(new) = m + 1
      /\ \A k \in 1 .. m : new[k] = ivs[k]
      /\ new[m + 1] = iv
  BY AppendProperties
<1>2. \A k \in 1 .. (m + 1) : k # m + 1 => k \in 1 .. m
  OBVIOUS
<1>3. \A k \in 1 .. (m + 1) : new[k] = IF k = m + 1 THEN iv ELSE ivs[k]
  BY <1>1, <1>2
<1>4. Sorted(new)
  <2>1. ASSUME NEW i \in 1 .. (m + 1) PROVE new[i][1] < new[i][2]
    BY <1>2, <1>3 DEF Sorted
  <2>2. ASSUME NEW i \in 1 .. (m + 1), NEW j \in 1 .. (m + 1), i < j
        PROVE  new[i][2] < new[j][1]
    <3>1. i \in 1 .. m /\ new[i] = ivs[i]
      BY <1>3, <2>2
    <3>2. CASE j = m + 1
      BY <1>3, <3>1, <3>2
    <3>3. CASE j # m + 1
      <4>1. j \in 1 .. m /\ new[j] = ivs[j]
        BY <1>2, <1>3, <3>3
      <4> QED
        BY <2>2, <3>1, <4>1 DEF Sorted
    <3> QED
      BY <3>2, <3>3
  <2> QED
    BY <1>1, <2>1, <2>2 DEF Sorted
<1>5. ASSUME NEW x PROVE Covers(new, x) <=> Covers(ivs, x) \/ x \in Span(iv)
  <2>1. m + 1 \in 1 .. (m + 1) /\ \A k \in 1 .. m : k \in 1 .. (m + 1)
    OBVIOUS
  <2>2. Covers(new, x) <=> \E k \in 1 .. (m + 1) : x \in Span(new[k])
    BY <1>1 DEF Covers, CoveredBy
  <2>3. Covers(ivs, x) <=> \E k \in 1 .. m : x \in Span(ivs[k])
    BY DEF Covers, CoveredBy
  <2> HIDE DEF Span
  <2> QED
    BY <1>1, <1>2, <2>1, <2>2, <2>3
<1> QED
  BY <1>1, <1>3, <1>4, <1>5 DEF Longer

-----------------------------------------------------------------------------
(* add_fragment() *)

\* What the loop carries along.
Carried(n) == [merged : Seq(Intervals(n)), cur : Intervals(n)]

\* The loop invariant after k intervals: what was merged lies below the current
\* interval and below all that is to come, and together they hold the bytes of
\* the first k intervals and of the fragment [b, e).
LoopInv(acc, ivs, k, b, e) ==
  /\ Sorted(acc.merged)
  /\ acc.cur[1] < acc.cur[2]
  /\ \A i \in 1 .. Len(acc.merged) :
       /\ acc.merged[i][2] < acc.cur[1]
       /\ \A j \in (k + 1) .. Len(ivs) : acc.merged[i][2] < ivs[j][1]
  /\ \A x \in Int :
       Covers(acc.merged, x) \/ x \in Span(acc.cur)
         <=> CoveredBy(ivs, k, x) \/ x \in Bytes(b, e)

\* An interval below the current one, one above it, and one that overlaps or
\* touches it each keep the loop invariant.
LEMMA AbsorbKeeps ==
  ASSUME NEW n \in Nat, NEW ivs \in Seq(Intervals(n)), Sorted(ivs),
         NEW k \in Nat, k + 1 <= Len(ivs), NEW b, NEW e,
         NEW acc \in Carried(n), LoopInv(acc, ivs, k, b, e)
  PROVE  /\ Absorb(acc, ivs[k + 1]) \in Carried(n)
         /\ LoopInv(Absorb(acc, ivs[k + 1]), ivs, k + 1, b, e)
<1>. PICK len \in Nat : len = Len(ivs)
  BY LenProperties
<1>. PICK iv, old, cur, new : /\ iv = ivs[k + 1] /\ old = acc.merged /\ cur = acc.cur
                              /\ new = Absorb(acc, iv)
  OBVIOUS
<1>1. /\ k + 1 \in 1 .. len
      /\ iv \in Intervals(n)
      /\ old \in Seq(Intervals(n)) /\ cur \in Intervals(n)
      /\ acc = [merged |-> old, cur |-> cur]
  <2>1. k + 1 \in 1 .. len
    OBVIOUS
  <2>2. iv \in Intervals(n)
    BY <2>1, LenProperties
  <2> QED
    BY <2>1, <2>2 DEF Carried
<1>2. /\ iv[1] \in Nat /\ iv[2] \in Nat /\ iv[1] <= n /\ iv[2] <= n
      /\ cur[1] \in Nat /\ cur[2] \in Nat /\ cur[1] <= n /\ cur[2] <= n
  BY <1>1, IntervalFields
<1>3. /\ iv[1] < iv[2]
      /\ \A j \in (k + 2) .. len : iv[2] < ivs[j][1]
  <2>1. \A j \in (k + 2) .. len : j \in 1 .. len /\ k + 1 < j
    OBVIOUS
  <2> QED
    BY <1>1, <2>1 DEF Sorted
<1>4. /\ Sorted(old) /\ cur[1] < cur[2]
      /\ \A i \in 1 .. Len(old) :
           /\ old[i][2] < cur[1]
           /\ \A j \in (k + 1) .. len : old[i][2] < ivs[j][1]
      /\ \A x \in Int :
           Covers(old, x) \/ x \in Span(cur) <=> CoveredBy(ivs, k, x) \/ x \in Bytes(b, e)
  BY DEF LoopInv
<1>5. /\ \A i \in 1 .. Len(old) : old[i][2] < iv[1]
      /\ \A i \in 1 .. Len(old) : \A j \in (k + 2) .. len : old[i][2] < ivs[j][1]
  <2>1. k + 1 \in (k + 1) .. len /\ \A j \in (k + 2) .. len : j \in (k + 1) .. len
    OBVIOUS
  <2> QED
    BY <1>4, <2>1
<1>6. \A x : CoveredBy(ivs, k + 1, x) <=> CoveredBy(ivs, k, x) \/ x \in Span(iv)
  <2>1. k + 1 \in 1 .. (k + 1) /\ \A i \in 1 .. (k + 1) : i \in 1 .. k \/ i = k + 1
    OBVIOUS
  <2>2. \A i \in 1 .. k : i \in 1 .. (k + 1)
    OBVIOUS
  <2> QED
    BY <2>1, <2>2 DEF CoveredBy
<1>7. (k + 1) + 1 = k + 2
  OBVIOUS
<1> DEFINE Kept(merged, now) ==
             /\ merged \in Seq(Intervals(n)) /\ now \in Intervals(n)
             /\ Sorted(merged) /\ now[1] < now[2]
             /\ \A i \in 1 .. Len(merged) :
                  /\ merged[i][2] < now[1]
                  /\ \A j \in (k + 2) .. len : merged[i][2] < ivs[j][1]
             /\ \A x \in Int :
                  Covers(merged, x) \/ x \in Span(now)
                    <=> Covers(old, x) \/ x \in Span(cur) \/ x \in Span(iv)
<1>8. ASSUME NEW merged, NEW now, Kept(merged, now),
             new = [merged |-> merged, cur |-> now]
      PROVE  new \in Carried(n) /\ LoopInv(new, ivs, k + 1, b, e)
  <2>1. new.merged = merged /\ new.cur = now
    BY <1>8
  <2>2. new \in Carried(n)
    BY <1>8 DEF Carried
  <2>3. \A x \in Int :
          Covers(merged, x) \/ x \in Span(now)
            <=> CoveredBy(ivs, k + 1, x) \/ x \in Bytes(b, e)
    BY <1>4, <1>6, <1>8
  <2>4. /\ Sorted(merged) /\ now[1] < now[2]
        /\ \A i \in 1 .. Len(merged) :
             /\ merged[i][2] < now[1]
             /\ \A j \in (k + 1 + 1) .. len : merged[i][2] < ivs[j][1]
    BY <1>7, <1>8
  <2> QED
    BY <2>1, <2>2, <2>3, <2>4 DEF LoopInv
<1>9. CASE iv[2] < cur[1]
  <2>. PICK merged : merged = Append(old, iv)
    OBVIOUS
  <2>1. new = [merged |-> merged, cur |-> cur]
    <3>1. ~(iv[2] >= cur[1])
      BY <1>2, <1>9
    <3>2. new = [acc EXCEPT !.merged = Append(@, iv)]
      BY <1>9, <3>1 DEF Absorb
    <3> QED
      BY <1>1, <3>2
  <2>2. /\ merged \in Seq(Intervals(n)) /\ Sorted(merged)
        /\ \A x : Covers(merged, x) <=> Covers(old, x) \/ x \in Span(iv)
        /\ Len(merged) = Len(old) + 1
        /\ \A i \in 1 .. (Len(old) + 1) :
             merged[i] = IF i = Len(old) + 1 THEN iv ELSE old[i]
    <3>1. Longer(Append(old, iv), old, iv, n)
      BY <1>1, <1>3, <1>4, <1>5, AppendAbove, Zenon
    <3> QED
      BY <3>1, Zenon DEF Longer
  <2>3. ASSUME NEW i \in 1 .. Len(merged)
        PROVE  /\ merged[i][2] < cur[1]
               /\ \A j \in (k + 2) .. len : merged[i][2] < ivs[j][1]
    <3>0. Len(old) \in Nat
      BY <1>1, LenProperties
    <3>1. CASE i = Len(old) + 1
      BY <1>3, <1>9, <2>2, <3>1
    <3>2. CASE i # Len(old) + 1
      <4>1. i \in 1 .. Len(old) /\ merged[i] = old[i]
        BY <2>2, <3>0, <3>2
      <4> QED
        BY <1>4, <1>5, <4>1
    <3> QED
      BY <3>1, <3>2
  <2>4. Kept(merged, cur)
    BY <1>1, <1>4, <2>2, <2>3
  <2> HIDE DEF Kept
  <2> QED
    BY <1>8, <2>1, <2>4
<1>10. CASE iv[2] >= cur[1] /\ iv[1] > cur[2]
  <2>. PICK merged : merged = Append(old, cur)
    OBVIOUS
  <2>1. new = [merged |-> merged, cur |-> iv]
    <3>1. ~(iv[2] < cur[1])
      BY <1>2, <1>10
    <3> QED
      BY <1>10, <3>1 DEF Absorb
  <2>2. /\ merged \in Seq(Intervals(n)) /\ Sorted(merged)
        /\ \A x : Covers(merged, x) <=> Covers(old, x) \/ x \in Span(cur)
        /\ Len(merged) = Len(old) + 1
        /\ \A i \in 1 .. (Len(old) + 1) :
             merged[i] = IF i = Len(old) + 1 THEN cur ELSE old[i]
    <3>1. Longer(Append(old, cur), old, cur, n)
      BY <1>1, <1>4, AppendAbove, Zenon
    <3> QED
      BY <3>1, Zenon DEF Longer
  <2>3. \A j \in (k + 2) .. len : cur[2] < ivs[j][1]
    <3>1. ASSUME NEW j \in (k + 2) .. len PROVE cur[2] < ivs[j][1]
      <4>1. ivs[j] \in Intervals(n)
        BY LenProperties
      <4>2. ivs[j][1] \in Nat
        BY <4>1, IntervalFields
      <4>3. iv[2] < ivs[j][1]
        BY <1>3
      <4>4. cur[2] < iv[1] /\ iv[1] < iv[2]
        BY <1>2, <1>3, <1>10
      <4> QED
        BY <1>2, <4>2, <4>3, <4>4, ChainLess, Zenon
    <3> QED
      BY <3>1
  <2>4. ASSUME NEW i \in 1 .. Len(merged)
        PROVE  /\ merged[i][2] < iv[1]
               /\ \A j \in (k + 2) .. len : merged[i][2] < ivs[j][1]
    <3>0. Len(old) \in Nat
      BY <1>1, LenProperties
    <3>1. CASE i = Len(old) + 1
      BY <1>2, <1>10, <2>2, <2>3, <3>1
    <3>2. CASE i # Len(old) + 1
      <4>1. i \in 1 .. Len(old) /\ merged[i] = old[i]
        BY <2>2, <3>0, <3>2
      <4> QED
        BY <1>5, <4>1
    <3> QED
      BY <3>1, <3>2
  <2>5. Kept(merged, iv)
    BY <1>1, <1>3, <2>2, <2>4
  <2> HIDE DEF Kept
  <2> QED
    BY <1>8, <2>1, <2>5
<1>11. CASE ~(iv[2] < cur[1]) /\ ~(iv[2] >= cur[1] /\ iv[1] > cur[2])
  <2>. PICK lo, hi : lo = Lesser(cur[1], iv[1]) /\ hi = Greater(cur[2], iv[2])
    OBVIOUS
  <2>1. /\ lo \in Nat /\ hi \in Nat /\ hi <= n /\ lo <= n /\ lo < hi
        /\ lo = cur[1] \/ lo = iv[1]
        /\ \A x \in Int : x \in lo .. (hi - 1)
                            <=> x \in cur[1] .. (cur[2] - 1) \/ x \in iv[1] .. (iv[2] - 1)
    <3>. PICK p \in Nat, q \in Nat, r \in Nat, t \in Nat :
           p = cur[1] /\ q = cur[2] /\ r = iv[1] /\ t = iv[2]
      BY <1>2
    <3>1. p < q /\ r < t /\ p <= t /\ r <= q /\ q <= n /\ t <= n
      BY <1>2, <1>3, <1>4, <1>11
    <3>2. lo = Lesser(p, r) /\ hi = Greater(q, t)
      BY Zenon
    <3>3. Joint(lo, hi, p, q, r, t, n)
      BY <3>1, <3>2, JointSpan, Zenon
    <3> QED
      BY <3>3, Zenon DEF Joint
  <2>. PICK joint : joint = <<lo, hi>>
    OBVIOUS
  <2>2. joint \in Intervals(n) /\ joint[1] = lo /\ joint[2] = hi
    BY <2>1 DEF Intervals
  <2>3. \A x \in Int : x \in Span(joint) <=> x \in Span(cur) \/ x \in Span(iv)
    BY <2>1, <2>2 DEF Span, Bytes
  <2>4. new = [merged |-> old, cur |-> joint]
    <3>1. new = [acc EXCEPT !.cur = <<Lesser(@[1], iv[1]), Greater(@[2], iv[2])>>]
      BY <1>11 DEF Absorb
    <3> QED
      BY <1>1, <3>1
  <2>5. \A i \in 1 .. Len(old) : old[i][2] < lo
    BY <1>4, <1>5, <2>1
  <2>6. Kept(old, joint)
    BY <1>1, <1>4, <1>5, <2>1, <2>2, <2>3, <2>5
  <2> HIDE DEF Kept
  <2> QED
    BY <1>8, <2>4, <2>6
<1> QED
  BY <1>9, <1>10, <1>11

\* The equation of the recursive function of Merge().
IsLoop(acc, ivs, b, e) ==
  acc = [i \in 0 .. Len(ivs) |->
           IF i = 0 THEN [merged |-> <<>>, cur |-> <<b, e>>]
           ELSE Absorb(acc[i - 1], ivs[i])]

\* What add_fragment() makes of an interval list.
Exact(new, ivs, b, e, n) ==
  /\ new \in Seq(Intervals(n)) /\ new # <<>>
  /\ Sorted(new)
  /\ \A x \in Int : Covers(new, x) <=> Covers(ivs, x) \/ x \in Bytes(b, e)

\* Carrying an interval along keeps it an interval, sorted or not.
LEMMA AbsorbCarries ==
  ASSUME NEW n \in Nat, NEW acc \in Carried(n), NEW iv \in Intervals(n)
  PROVE  Absorb(acc, iv) \in Carried(n)
<1>. PICK old, cur, new : old = acc.merged /\ cur = acc.cur /\ new = Absorb(acc, iv)
  OBVIOUS
<1>1. /\ old \in Seq(Intervals(n)) /\ cur \in Intervals(n)
      /\ acc = [merged |-> old, cur |-> cur]
  BY DEF Carried
<1>2. /\ iv[1] \in 0 .. n /\ iv[2] \in 0 .. n /\ cur[1] \in 0 .. n /\ cur[2] \in 0 .. n
  BY <1>1 DEF Intervals
<1>0. ASSUME NEW m \in Seq(Intervals(n)), NEW c \in Intervals(n)
      PROVE  [merged |-> m, cur |-> c] \in Carried(n)
  BY DEF Carried
<1>3. CASE iv[2] < cur[1]
  <2>1. ~(iv[2] >= cur[1])
    BY <1>2, <1>3
  <2>2. new = [acc EXCEPT !.merged = Append(@, iv)]
    BY <1>3, <2>1 DEF Absorb
  <2>. PICK merged : merged = Append(old, iv)
    OBVIOUS
  <2>3. new = [merged |-> merged, cur |-> cur]
    BY <1>1, <2>2
  <2>4. merged \in Seq(Intervals(n))
    BY <1>1, AppendProperties
  <2> QED
    BY <1>0, <1>1, <2>3, <2>4, Zenon
<1>4. CASE iv[2] >= cur[1] /\ iv[1] > cur[2]
  <2>1. ~(iv[2] < cur[1])
    BY <1>2, <1>4
  <2>2. new = [merged |-> Append(old, cur), cur |-> iv]
    BY <1>4, <2>1 DEF Absorb
  <2>3. Append(old, cur) \in Seq(Intervals(n))
    BY <1>1, AppendProperties
  <2> QED
    BY <2>2, <2>3 DEF Carried
<1>5. CASE ~(iv[2] < cur[1]) /\ ~(iv[2] >= cur[1] /\ iv[1] > cur[2])
  <2>. PICK joint : joint = <<Lesser(cur[1], iv[1]), Greater(cur[2], iv[2])>>
    OBVIOUS
  <2>1. joint \in Intervals(n)
    BY <1>2 DEF Intervals, Lesser, Greater
  <2>2. new = [acc EXCEPT !.cur = <<Lesser(@[1], iv[1]), Greater(@[2], iv[2])>>]
    BY <1>5 DEF Absorb
  <2>3. new = [merged |-> old, cur |-> joint]
    BY <1>1, <2>2
  <2> QED
    BY <1>1, <2>1, <2>3 DEF Carried
<1> QED
  BY <1>3, <1>4, <1>5

\* The loop of add_fragment() ends with an exact list of the bytes there were
\* and those of the fragment, however it overlaps or touches the intervals.
LEMMA MergeProperty ==
  ASSUME NEW n \in Nat, NEW ivs \in Seq(Intervals(n)), Sorted(ivs),
         NEW b \in 0 .. n, NEW e \in 0 .. n, b < e
  PROVE  Exact(Merge(ivs, b, e), ivs, b, e, n)
<1> DEFINE len == Len(ivs)
           first == [merged |-> <<>>, cur |-> <<b, e>>]
<1>0. len \in Nat /\ \A i \in 1 .. len : ivs[i] \in Intervals(n)
  BY LenProperties
<1>1. first \in Carried(n)
  <2>1. <<>> \in Seq(Intervals(n)) /\ <<b, e>> \in Intervals(n)
    BY EmptySeq DEF Intervals
  <2> QED
    BY <2>1 DEF Carried
<1>2. \E acc : IsLoop(acc, ivs, b, e)
  <2> DEFINE step == [p \in (1 .. len) \X Carried(n) |-> Absorb(p[2], ivs[p[1]])]
  <2>1. \A i \in 1 .. len, x \in Carried(n) : step[<<i, x>>] = Absorb(x, ivs[i])
    OBVIOUS
  <2> HIDE DEF first, step, len
  <2>2. \A i \in 1 .. len, x \in Carried(n) : step[<<i, x>>] \in Carried(n)
    BY <1>0, <2>1, AbsorbCarries
  <2>3. \E g \in [0 .. len -> Carried(n)] : IsRecursion(g, len, first, step)
    BY <1>0, <1>1, <2>2, RecursionExists, Zenon
  <2>4. PICK g \in [0 .. len -> Carried(n)] : IsRecursion(g, len, first, step)
    BY <2>3
  <2>5. ASSUME NEW i \in 0 .. len
        PROVE  g[i] = IF i = 0 THEN first ELSE Absorb(g[i - 1], ivs[i])
    <3>1. g[i] = IF i = 0 THEN first ELSE step[<<i, g[i - 1]>>]
      BY <2>4 DEF IsRecursion
    <3>2. CASE i # 0
      <4>1. i \in 1 .. len /\ i - 1 \in 0 .. len
        BY <1>0, <3>2
      <4>2. g[i - 1] \in Carried(n)
        BY <4>1
      <4> QED
        BY <2>1, <3>1, <3>2, <4>1, <4>2
    <3> QED
      BY <3>1, <3>2
  <2>6. g = [i \in 0 .. len |-> IF i = 0 THEN first ELSE Absorb(g[i - 1], ivs[i])]
    BY <2>5
  <2>7. IsLoop(g, ivs, b, e)
    BY <2>6 DEF IsLoop, first, len
  <2> QED
    BY <2>7
<1> DEFINE acc == CHOOSE g : IsLoop(g, ivs, b, e)
<1>3. IsLoop(acc, ivs, b, e)
  <2> HIDE DEF IsLoop
  <2> QED
    BY <1>2
<1>4. Merge(ivs, b, e) = Append(acc[len].merged, acc[len].cur)
  BY DEF Merge, IsLoop
<1> HIDE DEF acc
<1>5. /\ acc[0] = first
      /\ \A i \in 1 .. len : acc[i] = Absorb(acc[i - 1], ivs[i])
  <2> HIDE DEF first
  <2>1. acc = [i \in 0 .. len |-> IF i = 0 THEN first ELSE Absorb(acc[i - 1], ivs[i])]
    BY <1>3 DEF IsLoop, first
  <2>2. \A i \in 0 .. len : acc[i] = IF i = 0 THEN first ELSE Absorb(acc[i - 1], ivs[i])
    BY <2>1
  <2>3. 0 \in 0 .. len /\ \A i \in 1 .. len : i \in 0 .. len /\ i # 0
    BY <1>0
  <2> QED
    BY <2>2, <2>3
<1> DEFINE T == {k \in Nat : k <= len => /\ acc[k] \in Carried(n)
                                         /\ LoopInv(acc[k], ivs, k, b, e)}
<1>6. 0 \in T
  <2>1. first.merged = <<>> /\ first.cur[1] = b /\ first.cur[2] = e
    OBVIOUS
  <2>2. Len(first.merged) = 0 /\ 1 .. 0 = {}
    BY <2>1
  <2>3. Span(first.cur) = Bytes(b, e)
    BY <2>1 DEF Span
  <2>4. \A x : ~Covers(first.merged, x) /\ ~CoveredBy(ivs, 0, x)
    BY <2>2 DEF Covers, CoveredBy
  <2> HIDE DEF first
  <2>5. LoopInv(first, ivs, 0, b, e)
    BY <2>1, <2>2, <2>3, <2>4 DEF LoopInv, Sorted
  <2> QED
    BY <1>1, <1>5, <2>5
<1> HIDE DEF first
<1>7. ASSUME NEW k \in T PROVE k + 1 \in T
  <2>1. k \in Nat
    OBVIOUS
  <2> SUFFICES ASSUME k + 1 <= len
               PROVE  acc[k + 1] \in Carried(n) /\ LoopInv(acc[k + 1], ivs, k + 1, b, e)
    BY <2>1
  <2>2. /\ acc[k] \in Carried(n) /\ LoopInv(acc[k], ivs, k, b, e)
        /\ k + 1 \in 1 .. len /\ (k + 1) - 1 = k
    BY <1>0, <2>1
  <2>3. acc[k + 1] = Absorb(acc[k], ivs[k + 1])
    BY <1>5, <2>2
  <2>4. /\ Absorb(acc[k], ivs[k + 1]) \in Carried(n)
        /\ LoopInv(Absorb(acc[k], ivs[k + 1]), ivs, k + 1, b, e)
    BY <2>1, <2>2, AbsorbKeeps
  <2> QED
    BY <2>3, <2>4
<1>8. T = Nat
  <2>1. T \in SUBSET Nat
    OBVIOUS
  <2> HIDE DEF T
  <2> QED
    BY <1>6, <1>7, <2>1, SetInduction
<1>9. acc[len] \in Carried(n) /\ LoopInv(acc[len], ivs, len, b, e)
  BY <1>0, <1>8
<1>. PICK merged, cur : merged = acc[len].merged /\ cur = acc[len].cur
  OBVIOUS
<1>10. /\ merged \in Seq(Intervals(n)) /\ cur \in Intervals(n)
       /\ Sorted(merged) /\ cur[1] < cur[2]
       /\ \A k \in 1 .. Len(merged) : merged[k][2] < cur[1]
       /\ \A x \in Int : Covers(merged, x) \/ x \in Span(cur)
                           <=> Covers(ivs, x) \/ x \in Bytes(b, e)
  BY <1>9 DEF Carried, LoopInv, Covers
<1>11. Longer(Append(merged, cur), merged, cur, n)
  BY <1>10, AppendAbove, Zenon
<1>12. Merge(ivs, b, e) = Append(merged, cur) /\ Append(merged, cur) # <<>>
  BY <1>4, <1>10, AppendProperties
<1> QED
  BY <1>10, <1>11, <1>12 DEF Longer, Exact

\* A sorted list that covers a sample of n bytes is the one interval [0, n): the
\* test for completeness misses nothing.
LEMMA WholeIsOneInterval ==
  ASSUME NEW n \in Nat, NEW ivs \in Seq(Intervals(n)), Sorted(ivs), ivs # <<>>,
         \A x \in Int : Covers(ivs, x) <=> x \in Bytes(0, n)
  PROVE  ivs = << <<0, n>> >>
<1>. PICK len \in Nat : len = Len(ivs)
  BY LenProperties
<1>1. len # 0
  BY EmptySeq
<1>2. \A i \in 1 .. len : /\ ivs[i] \in Intervals(n)
                          /\ ivs[i][1] \in Nat /\ ivs[i][2] \in Nat
                          /\ ivs[i][1] <= n /\ ivs[i][2] <= n
                          /\ ivs[i][1] < ivs[i][2]
  <2>1. \A i \in 1 .. len : ivs[i] \in Intervals(n)
    BY LenProperties
  <2> QED
    BY <2>1, IntervalFields DEF Sorted
<1>3. \A i, j \in 1 .. len : i < j => ivs[i][2] < ivs[j][1]
  BY DEF Sorted
<1>4. \A x \in Nat : \A i \in 1 .. len : x \in Span(ivs[i]) <=> ivs[i][1] <= x /\ x < ivs[i][2]
  BY <1>2 DEF Span, Bytes
<1>5. \A x \in Nat : x < n <=> \E i \in 1 .. len : ivs[i][1] <= x /\ x < ivs[i][2]
  <2>1. \A x \in Nat : x \in Bytes(0, n) <=> x < n
    BY DEF Bytes
  <2>2. \A x \in Nat : Covers(ivs, x) <=> \E i \in 1 .. len : x \in Span(ivs[i])
    BY DEF Covers, CoveredBy
  <2> QED
    BY <1>4, <2>1, <2>2
<1>6. n > 0
  <2>1. 1 \in 1 .. len
    BY <1>1
  <2> QED
    BY <1>2, <2>1
<1>7. PICK i \in 1 .. len : ivs[i][1] <= 0 /\ 0 < ivs[i][2]
  BY <1>5, <1>6
<1>8. ivs[i][1] = 0
  BY <1>2, <1>7
<1>9. ivs[i][2] = n
  <2>1. ~(ivs[i][2] < n)
    <3> SUFFICES ASSUME ivs[i][2] < n PROVE FALSE
      OBVIOUS
    <3>1. PICK j \in 1 .. len : ivs[j][1] <= ivs[i][2] /\ ivs[i][2] < ivs[j][2]
      BY <1>2, <1>5
    <3>2. CASE i < j
      BY <1>2, <1>3, <3>1, <3>2
    <3>3. CASE j < i
      BY <1>2, <1>3, <3>1, <3>3
    <3>4. CASE j = i
      BY <1>2, <3>1, <3>4
    <3> QED
      BY <3>2, <3>3, <3>4
  <2> QED
    BY <1>2, <2>1
<1>10. \A j \in 1 .. len : j = i
  <2>1. ASSUME NEW j \in 1 .. len, j < i PROVE FALSE
    <3>1. ivs[j][2] < ivs[i][1]
      BY <1>3, <2>1
    <3> QED
      BY <1>2, <1>8, <3>1
  <2>2. ASSUME NEW j \in 1 .. len, i < j PROVE FALSE
    <3>1. ivs[i][2] < ivs[j][1]
      BY <1>3, <2>2
    <3> QED
      BY <1>2, <1>9, <3>1
  <2> QED
    BY <2>1, <2>2
<1>11. len = 1 /\ i = 1
  <2>1. 1 \in 1 .. len /\ len \in 1 .. len
    BY <1>1
  <2> QED
    BY <1>10, <2>1
<1>12. ivs[1] = <<0, n>>
  BY <1>2, <1>8, <1>9, <1>11 DEF Intervals
<1>. PICK whole : whole = <<0, n>>
  OBVIOUS
<1>13. /\ ivs = [k \in 1 .. 1 |-> ivs[k]]
       /\ <<whole>> = [k \in 1 .. 1 |-> whole]
  <2>1. ivs = [k \in 1 .. Len(ivs) |-> ivs[k]]
    BY LenProperties, Zenon
  <2> QED
    BY <1>11, <2>1
<1>14. \A k \in 1 .. 1 : ivs[k] = whole
  BY <1>12
<1> QED
  BY <1>13, <1>14

-----------------------------------------------------------------------------
(* Fragmenter::fragment() *)

\* A fragment lies within its sample and is not empty.
LEMMA CutProperty ==
  ASSUME NEW s \in Samples, NEW c \in Nat \ {0}, Size[s] # 0, NEW f \in Cut(s, c)
  PROVE  /\ f.sample = s
         /\ f.offset \in 0 .. Size[s] /\ f.offset + f.len \in 0 .. Size[s]
         /\ f.offset < f.offset + f.len
         /\ DOMAIN f # {"sample"}
<1>. PICK n \in Nat : n = Size[s] /\ n # 0
  BY ReassemblyAssumption
<1>1. PICK i \in 0 .. ((n - 1) \div c) :
        f = [sample |-> s, offset |-> i * c,
             len |-> IF n - i * c < c THEN n - i * c ELSE c]
  BY DEF Cut
<1>2. i * c \in Nat /\ i * c <= n - 1
  <2>. PICK q : q = (n - 1) \div c
    OBVIOUS
  <2>1. n - 1 \in Nat
    OBVIOUS
  <2>2. q \in Nat /\ q * c <= n - 1
    BY <2>1
  <2>3. i \in Nat /\ i <= q
    BY <2>2
  <2>4. i * c \in Nat /\ q * c \in Nat
    BY <2>2, <2>3
  <2>5. i * c <= q * c
    BY <2>2, <2>3
  <2> QED
    BY <2>1, <2>2, <2>4, <2>5
<1>. PICK o \in Nat : o = i * c
  BY <1>2
<1>. PICK len : len = IF n - o < c THEN n - o ELSE c
  OBVIOUS
<1>3. o < n /\ len \in Nat /\ len > 0 /\ o + len <= n
  BY <1>2
<1>4. f = [sample |-> s, offset |-> o, len |-> len]
  BY <1>1
<1>5. f.sample = s /\ f.offset = o /\ f.len = len
  BY <1>4
<1>6. "len" \in DOMAIN f /\ "len" \notin {"sample"}
  BY <1>4
<1>7. DOMAIN f # {"sample"}
  BY <1>6, Zenon
<1> QED
  BY <1>3, <1>5, <1>7

\* What a frame on the network holds.
LEMMA FrameProperty ==
  ASSUME NEW f \in Frames
  PROVE  /\ f.sample \in Samples
         /\ DOMAIN f # {"sample"} =>
              /\ f.offset \in 0 .. Size[f.sample]
              /\ f.offset + f.len \in 0 .. Size[f.sample]
              /\ f.offset < f.offset + f.len
<1>1. PICK s \in Samples, limit \in Limits : f \in Fragment(s, limit)
  BY DEF Frames
<1>2. limit \in Nat /\ FragOverhead \in Nat
  BY ReassemblyAssumption
<1>3. CASE f \in {[sample |-> s]}
  <2>1. f = [sample |-> s]
    BY <1>3
  <2>2. f.sample = s /\ DOMAIN f = {"sample"}
    BY <2>1
  <2> QED
    BY <2>2
<1>4. CASE /\ f \in Cut(s, limit - FragOverhead)
           /\ ~(limit <= FragOverhead \/ Size[s] = 0)
  <2>. PICK c : c = limit - FragOverhead
    OBVIOUS
  <2>1. c \in Nat \ {0} /\ Size[s] # 0 /\ f \in Cut(s, c)
    BY <1>2, <1>4
  <2>2. /\ f.sample = s
        /\ f.offset \in 0 .. Size[s] /\ f.offset + f.len \in 0 .. Size[s]
        /\ f.offset < f.offset + f.len
    BY <2>1, CutProperty
  <2> QED
    BY <2>2
<1> QED
  BY <1>1, <1>3, <1>4 DEF Fragment

-----------------------------------------------------------------------------
(* The inductive invariant *)

\* A partial: its intervals are sorted and are exactly what was copied, and it
\* is not complete.
PartialSound(s, p) ==
  /\ p.intervals \in Seq(Intervals(Size[s]))
  /\ p.buffer \subseteq Bytes(0, Size[s])
  /\ p.age \in 0 .. (Timeout + 1)
  /\ Sorted(p.intervals)
  /\ \A x \in Int : x \in p.buffer <=> Covers(p.intervals, x)
  /\ p = NoPartial \/ (p.intervals # <<>> /\ ~Complete(s, p.intervals))

Partials == [intervals : Seq(Nat \X Nat), buffer : SUBSET Nat, age : Nat]

ReassemblyInv ==
  /\ partials \in [Samples -> Partials]
  /\ \A s \in Samples : PartialSound(s, partials[s])
  /\ net \subseteq Frames
  /\ sends \in 0 .. MaxSends
  /\ delivered \subseteq [sample : Samples, bytes : SUBSET Nat]
  /\ DeliveredWhole

\* The constants, as the proofs use them.
LEMMA SizeType ==
  /\ \A s \in Samples : Size[s] \in Nat
  /\ Timeout \in Nat /\ MaxSends \in Nat
BY ReassemblyAssumption

\* A sound partial has the type of one.
LEMMA PartialTyped ==
  ASSUME NEW s \in Samples, NEW ivs \in Seq(Intervals(Size[s])),
         NEW buffer \in SUBSET Bytes(0, Size[s]), NEW age \in Nat
  PROVE  [intervals |-> ivs, buffer |-> buffer, age |-> age] \in Partials
<1>1. Intervals(Size[s]) \subseteq Nat \X Nat /\ Bytes(0, Size[s]) \subseteq Nat
  BY SizeType DEF Intervals, Bytes
<1>2. ivs \in Seq(Nat \X Nat)
  <2>1. ivs = [k \in 1 .. Len(ivs) |-> ivs[k]] /\ Len(ivs) \in Nat
    BY LenProperties, Zenon
  <2>2. \A k \in 1 .. Len(ivs) : ivs[k] \in Nat \X Nat
    BY <1>1, LenProperties
  <2> QED
    BY <2>1, <2>2, IsASeq
<1> QED
  BY <1>1, <1>2 DEF Partials

\* Nothing collected yet.
LEMMA NoPartialSound ==
  ASSUME NEW s \in Samples
  PROVE  NoPartial \in Partials /\ PartialSound(s, NoPartial)
<1>. PICK none : none = <<>>
  OBVIOUS
<1>1. NoPartial = [intervals |-> none, buffer |-> {}, age |-> 0]
  BY DEF NoPartial
<1>2. none \in Seq(Intervals(Size[s])) /\ none \in Seq(Nat \X Nat) /\ Len(none) = 0
  BY EmptySeq
<1>3. NoPartial.intervals = none /\ NoPartial.buffer = {} /\ NoPartial.age = 0
  BY <1>1
<1>4. 1 .. Len(none) = {}
  BY <1>2
<1>5. Sorted(none) /\ \A x : ~Covers(none, x)
  BY <1>4 DEF Sorted, Covers, CoveredBy
<1>6. 0 \in 0 .. (Timeout + 1)
  BY SizeType
<1>7. NoPartial \in Partials
  BY <1>1, <1>2 DEF Partials
<1> QED
  BY <1>2, <1>3, <1>5, <1>6, <1>7 DEF PartialSound

\* The same partial, older or not.
LEMMA AgedSound ==
  ASSUME NEW s \in Samples, NEW p \in Partials, PartialSound(s, p), p # NoPartial,
         p.age <= Timeout
  PROVE  /\ [p EXCEPT !.age = @ + 1] \in Partials
         /\ PartialSound(s, [p EXCEPT !.age = @ + 1])
<1>. PICK ivs, buffer, age : ivs = p.intervals /\ buffer = p.buffer /\ age = p.age
  OBVIOUS
<1>. PICK q : q = [p EXCEPT !.age = @ + 1]
  OBVIOUS
<1>1. /\ ivs \in Seq(Nat \X Nat) /\ buffer \in SUBSET Nat /\ age \in Nat
      /\ p = [intervals |-> ivs, buffer |-> buffer, age |-> age]
  BY DEF Partials
<1>2. q = [intervals |-> ivs, buffer |-> buffer, age |-> age + 1]
  BY <1>1
<1>3. q \in Partials
  BY <1>1, <1>2 DEF Partials
<1>4. q.intervals = ivs /\ q.buffer = buffer /\ q.age = age + 1
  BY <1>2
<1>5. age + 1 \in 0 .. (Timeout + 1)
  BY <1>1, SizeType
<1>6. /\ ivs \in Seq(Intervals(Size[s])) /\ buffer \subseteq Bytes(0, Size[s])
      /\ Sorted(ivs) /\ \A x \in Int : x \in buffer <=> Covers(ivs, x)
      /\ ivs # <<>> /\ ~Complete(s, ivs)
  BY DEF PartialSound
<1>7. PartialSound(s, q)
  BY <1>4, <1>5, <1>6, Zenon DEF PartialSound
<1> QED
  BY <1>3, <1>7

\* At first nothing is collected, in flight or delivered.
LEMMA InvInit == Init => ReassemblyInv
<1> SUFFICES ASSUME Init PROVE ReassemblyInv
  OBVIOUS
<1>1. \A s \in Samples : partials[s] = NoPartial
  BY DEF Init
<1>2. /\ partials \in [Samples -> Partials]
      /\ \A s \in Samples : PartialSound(s, partials[s])
  <2>1. \A s \in Samples : NoPartial \in Partials /\ PartialSound(s, NoPartial)
    BY NoPartialSound
  <2> QED
    BY <1>1, <2>1 DEF Init
<1>3. sends \in 0 .. MaxSends
  BY SizeType DEF Init
<1> QED
  BY <1>2, <1>3 DEF Init, ReassemblyInv, DeliveredWhole

\* send_sample_to() puts only frames of Fragmenter::fragment() on the network.
LEMMA InvSendSample ==
  ASSUME ReassemblyInv, NEW s \in Samples, NEW limit \in Limits, SendSample(s, limit)
  PROVE  ReassemblyInv'
<1>1. PICK kept \in SUBSET Fragment(s, limit) : net' = net \cup kept
  BY DEF SendSample
<1>2. net' \subseteq Frames
  BY <1>1 DEF Frames, ReassemblyInv
<1>3. sends' \in 0 .. MaxSends
  BY SizeType DEF SendSample, ReassemblyInv
<1> QED
  BY <1>2, <1>3 DEF SendSample, ReassemblyInv, DeliveredWhole

\* A sample is delivered with its bytes complete.
LEMMA DeliveredMore ==
  ASSUME ReassemblyInv, NEW s \in Samples, NEW b, b = Bytes(0, Size[s]),
         delivered' = delivered \cup {[sample |-> s, bytes |-> b]}
  PROVE  /\ delivered' \subseteq [sample : Samples, bytes : SUBSET Nat]
         /\ DeliveredWhole'
<1>. PICK d : d = [sample |-> s, bytes |-> b]
  OBVIOUS
<1>1. Bytes(0, Size[s]) \subseteq Nat
  BY SizeType DEF Bytes
<1>2. d.sample = s /\ d.bytes = Bytes(0, Size[s])
  OBVIOUS
<1>3. d \in [sample : Samples, bytes : SUBSET Nat]
  BY <1>1
<1>4. delivered' = delivered \cup {d}
  OBVIOUS
<1> QED
  BY <1>2, <1>3, <1>4 DEF ReassemblyInv, DeliveredWhole

\* A DATA frame is delivered with all its bytes.
LEMMA InvReceiveData ==
  ASSUME ReassemblyInv, NEW f \in net, ReceiveData(f)
  PROVE  ReassemblyInv'
<1>1. f.sample \in Samples
  BY FrameProperty DEF ReassemblyInv
<1>2. /\ delivered' \subseteq [sample : Samples, bytes : SUBSET Nat]
      /\ DeliveredWhole'
  BY <1>1, DeliveredMore DEF ReceiveData
<1> QED
  BY <1>2 DEF ReceiveData, ReassemblyInv

\* add_fragment() and what deliver_sample() gets of it.
LEMMA InvReceiveFragment ==
  ASSUME ReassemblyInv, NEW f \in net, ReceiveFragment(f)
  PROVE  ReassemblyInv'
<1>. PICK s, n, p : s = f.sample /\ n = Size[s] /\ p = partials[s]
  OBVIOUS
<1>. PICK b, e : b = f.offset /\ e = f.offset + f.len
  OBVIOUS
<1>. PICK merged, buffer : /\ merged = Merge(p.intervals, b, e)
                           /\ buffer = p.buffer \cup Bytes(b, e)
  OBVIOUS
<1>1. /\ s \in Samples /\ n \in Nat
      /\ b \in 0 .. n /\ e \in 0 .. n /\ b < e
  <2>1. f \in Frames /\ DOMAIN f # {"sample"}
    BY DEF ReassemblyInv, ReceiveFragment
  <2> QED
    BY <2>1, FrameProperty, SizeType
<1>2. PartialSound(s, p)
  BY <1>1 DEF ReassemblyInv
<1>3. /\ p.intervals \in Seq(Intervals(n)) /\ Sorted(p.intervals)
      /\ p.buffer \subseteq Bytes(0, n)
      /\ \A x \in Int : x \in p.buffer <=> Covers(p.intervals, x)
  BY <1>2 DEF PartialSound
<1>4. /\ merged \in Seq(Intervals(n)) /\ merged # <<>> /\ Sorted(merged)
      /\ \A x \in Int : Covers(merged, x) <=> Covers(p.intervals, x) \/ x \in Bytes(b, e)
  <2>1. Exact(Merge(p.intervals, b, e), p.intervals, b, e, n)
    BY <1>1, <1>3, MergeProperty, Zenon
  <2> QED
    BY <2>1, Zenon DEF Exact
<1>5. buffer \subseteq Bytes(0, n)
  <2>1. Bytes(b, e) \subseteq Bytes(0, n)
    BY <1>1 DEF Bytes
  <2> QED
    BY <1>3, <2>1
<1>6. \A x \in Int : x \in buffer <=> Covers(merged, x)
  BY <1>3, <1>4
<1>7. net' \subseteq Frames /\ sends' \in 0 .. MaxSends
  BY DEF ReassemblyInv, ReceiveFragment
<1>8. CASE Complete(s, merged)
  <2>1. /\ partials' = [partials EXCEPT ![s] = NoPartial]
        /\ delivered' = delivered \cup {[sample |-> s, bytes |-> buffer]}
    BY <1>8 DEF ReceiveFragment
  <2>2. buffer = Bytes(0, n)
    <3>1. merged = << <<0, n>> >>
      BY <1>8 DEF Complete
    <3>2. Len(merged) = 1 /\ merged[1][1] = 0 /\ merged[1][2] = n
      BY <3>1
    <3>3. \A x \in Int : Covers(merged, x) <=> x \in Bytes(0, n)
      BY <3>2 DEF Covers, CoveredBy, Span
    <3>4. Bytes(0, n) \subseteq Int
      BY <1>1 DEF Bytes
    <3> QED
      BY <1>5, <1>6, <3>3, <3>4
  <2>3. /\ delivered' \subseteq [sample : Samples, bytes : SUBSET Nat]
        /\ DeliveredWhole'
    BY <1>1, <2>1, <2>2, DeliveredMore
  <2>4. /\ partials' \in [Samples -> Partials]
        /\ \A r \in Samples : PartialSound(r, partials'[r])
    <3>1. NoPartial \in Partials /\ PartialSound(s, NoPartial)
      BY <1>1, NoPartialSound
    <3> QED
      BY <2>1, <3>1 DEF ReassemblyInv
  <2> QED
    BY <1>7, <2>3, <2>4 DEF ReassemblyInv
<1>9. CASE ~Complete(s, merged)
  <2>. PICK new : new = [intervals |-> merged, buffer |-> buffer, age |-> 0]
    OBVIOUS
  <2>1. partials' = [partials EXCEPT ![s] = new] /\ delivered' = delivered
    BY <1>9 DEF ReceiveFragment
  <2>2. new \in Partials
    BY <1>1, <1>4, <1>5, PartialTyped
  <2>3. new.intervals = merged /\ new.buffer = buffer /\ new.age = 0
    OBVIOUS
  <2>4. 0 \in 0 .. (Timeout + 1)
    BY SizeType
  <2>5. PartialSound(s, new)
    BY <1>4, <1>5, <1>6, <1>9, <2>3, <2>4, Zenon DEF PartialSound
  <2>6. /\ partials' \in [Samples -> Partials]
        /\ \A r \in Samples : PartialSound(r, partials'[r])
    BY <2>1, <2>2, <2>5 DEF ReassemblyInv
  <2> QED
    BY <1>7, <2>1, <2>6 DEF ReassemblyInv, DeliveredWhole
<1> QED
  BY <1>8, <1>9

\* Partials that are sound again, and nothing else changed.
LEMMA PartialsRenewed ==
  ASSUME ReassemblyInv, UNCHANGED <<net, sends, delivered>>,
         partials' = [s \in Samples |-> partials'[s]],
         \A s \in Samples : partials'[s] \in Partials /\ PartialSound(s, partials'[s])
  PROVE  ReassemblyInv'
<1>1. /\ partials' \in [Samples -> Partials]
      /\ \A s \in Samples : PartialSound(s, partials'[s])
  <2>. PICK q : q = partials'
    OBVIOUS
  <2> QED
    OBVIOUS
<1> QED
  BY <1>1 DEF ReassemblyInv, DeliveredWhole

\* Time makes partials older and changes nothing else in them.
LEMMA InvTick ==
  ASSUME ReassemblyInv, Tick
  PROVE  ReassemblyInv'
<1>1. ASSUME NEW s \in Samples
      PROVE  partials'[s] \in Partials /\ PartialSound(s, partials'[s])
  <2>. PICK p : p = partials[s]
    OBVIOUS
  <2>1. p \in Partials /\ PartialSound(s, p)
    BY DEF ReassemblyInv
  <2>2. partials'[s] = IF s \in Pending /\ p.age <= Timeout
                       THEN [p EXCEPT !.age = @ + 1] ELSE p
    BY DEF Tick
  <2>3. CASE s \in Pending /\ p.age <= Timeout
    <3>1. p # NoPartial
      BY <2>3 DEF Pending
    <3>2. /\ [p EXCEPT !.age = @ + 1] \in Partials
          /\ PartialSound(s, [p EXCEPT !.age = @ + 1])
      BY <2>1, <2>3, <3>1, AgedSound
    <3> QED
      BY <2>2, <2>3, <3>2
  <2> QED
    BY <2>1, <2>2, <2>3
<1>2. UNCHANGED <<net, sends, delivered>> /\ partials' = [s \in Samples |-> partials'[s]]
  BY DEF Tick
<1> QED
  BY <1>1, <1>2, PartialsRenewed

\* sweep_expired() leaves a partial alone or drops it whole.
LEMMA InvSweep ==
  ASSUME ReassemblyInv, Sweep
  PROVE  ReassemblyInv'
<1>1. ASSUME NEW s \in Samples
      PROVE  partials'[s] \in Partials /\ PartialSound(s, partials'[s])
  <2>1. partials[s] \in Partials /\ PartialSound(s, partials[s])
    BY DEF ReassemblyInv
  <2>2. partials'[s] = NoPartial \/ partials'[s] = partials[s]
    BY DEF Sweep
  <2> QED
    BY <2>1, <2>2, NoPartialSound
<1>2. UNCHANGED <<net, sends, delivered>> /\ partials' = [s \in Samples |-> partials'[s]]
  BY DEF Sweep
<1> QED
  BY <1>1, <1>2, PartialsRenewed

\* handle_peer_down() drops every partial whole.
LEMMA InvPeerDown ==
  ASSUME ReassemblyInv, PeerDown
  PROVE  ReassemblyInv'
<1>1. ASSUME NEW s \in Samples
      PROVE  partials'[s] \in Partials /\ PartialSound(s, partials'[s])
  <2>1. partials'[s] = NoPartial
    BY DEF PeerDown
  <2> QED
    BY <2>1, NoPartialSound
<1>2. UNCHANGED <<net, sends, delivered>> /\ partials' = [s \in Samples |-> partials'[s]]
  BY DEF PeerDown
<1> QED
  BY <1>1, <1>2, PartialsRenewed

\* Every step of the reassembler, its sender and the network keeps the
\* invariant.
LEMMA InvNext == ReassemblyInv /\ [Next]_vars => ReassemblyInv'
<1> SUFFICES ASSUME ReassemblyInv, [Next]_vars PROVE ReassemblyInv'
  OBVIOUS
<1>1. ASSUME NEW s \in Samples, NEW limit \in Limits, SendSample(s, limit)
      PROVE  ReassemblyInv'
  BY <1>1, InvSendSample
<1>2. ASSUME NEW f \in net, ReceiveData(f)
      PROVE  ReassemblyInv'
  BY <1>2, InvReceiveData
<1>3. ASSUME NEW f \in net, ReceiveFragment(f)
      PROVE  ReassemblyInv'
  BY <1>3, InvReceiveFragment
<1>4. CASE Tick
  BY <1>4, InvTick
<1>5. CASE Sweep
  BY <1>5, InvSweep
<1>6. CASE PeerDown
  BY <1>6, InvPeerDown
<1>7. CASE UNCHANGED vars
  BY <1>7 DEF vars, ReassemblyInv, DeliveredWhole
<1> QED
  BY <1>1, <1>2, <1>3, <1>4, <1>5, <1>6, <1>7 DEF Next

-----------------------------------------------------------------------------
(* Theorems *)

\* The invariant holds of every behaviour, fair or not: of any sizes and limits,
\* and of any loss, reordering and repetition of the fragments.
THEOREM ReassemblyInvariant == Spec => []ReassemblyInv
BY InvInit, InvNext, PTL DEF Spec

\* Fragment offsets and lengths never reach past the end of a sample, so
\* add_fragment() copies no byte past the end of its buffer.
THEOREM ReassemblyWellTyped == Spec => []TypeOK
<1>1. ReassemblyInv => TypeOK
  BY DEF ReassemblyInv, PartialSound, TypeOK, Intervals
<1> QED
  BY <1>1, ReassemblyInvariant, PTL

\* The merged intervals of fragment.hpp are exact: sorted, apart, and the bytes
\* that were copied.
THEOREM IntervalsAreExact == Spec => []IntervalsExact
<1>1. ReassemblyInv => IntervalsExact
  <2> SUFFICES ASSUME ReassemblyInv, NEW s \in Samples
               PROVE  LET ivs == partials[s].intervals
                      IN  /\ \A i \in DOMAIN ivs : ivs[i][1] < ivs[i][2]
                          /\ \A i, j \in DOMAIN ivs : i < j => ivs[i][2] < ivs[j][1]
                          /\ partials[s].buffer =
                               UNION {Bytes(ivs[i][1], ivs[i][2]) : i \in DOMAIN ivs}
    BY DEF IntervalsExact
  <2>. PICK n \in Nat : n = Size[s]
    BY SizeType
  <2>. PICK ivs, buffer : ivs = partials[s].intervals /\ buffer = partials[s].buffer
    OBVIOUS
  <2>1. /\ ivs \in Seq(Intervals(n)) /\ buffer \subseteq Bytes(0, n) /\ Sorted(ivs)
        /\ \A x \in Int : x \in buffer <=> Covers(ivs, x)
    BY DEF ReassemblyInv, PartialSound
  <2>2. DOMAIN ivs = 1 .. Len(ivs) /\ \A i \in 1 .. Len(ivs) : ivs[i] \in Intervals(n)
    BY <2>1, LenProperties
  <2>3. \A i \in 1 .. Len(ivs) : Bytes(ivs[i][1], ivs[i][2]) \subseteq Int
    BY <2>2, IntervalFields DEF Bytes
  <2>4. Bytes(0, n) \subseteq Int
    BY DEF Bytes
  <2>5. ASSUME NEW x
        PROVE  x \in buffer <=> \E i \in 1 .. Len(ivs) : x \in Bytes(ivs[i][1], ivs[i][2])
    <3>1. x \in Int => (x \in buffer <=> \E i \in 1 .. Len(ivs) : x \in Span(ivs[i]))
      BY <2>1 DEF Covers, CoveredBy
    <3>2. x \in buffer => x \in Int
      BY <2>1, <2>4
    <3>3. \A i : Span(ivs[i]) = Bytes(ivs[i][1], ivs[i][2])
      BY DEF Span
    <3> HIDE DEF Span
    <3> QED
      BY <2>3, <3>1, <3>2, <3>3
  <2>6. buffer = UNION {Bytes(ivs[i][1], ivs[i][2]) : i \in DOMAIN ivs}
    BY <2>2, <2>5
  <2> QED
    BY <2>1, <2>2, <2>6 DEF Sorted
<1> QED
  BY <1>1, ReassemblyInvariant, PTL

\* deliver_sample() is called only with every byte of the sample copied.
THEOREM SamplesDeliveredWhole == Spec => []DeliveredWhole
<1>1. ReassemblyInv => DeliveredWhole
  BY DEF ReassemblyInv
<1> QED
  BY <1>1, ReassemblyInvariant, PTL

\* The completeness test of add_fragment() never misses a sample whose bytes are
\* all there, whichever transmissions they came from.
THEOREM SamplesNeverWithheld == Spec => []NothingWithheld
<1>1. ReassemblyInv => NothingWithheld
  <2> SUFFICES ASSUME ReassemblyInv, NEW s \in Pending,
                      partials[s].buffer = Bytes(0, Size[s])
               PROVE  FALSE
    BY DEF NothingWithheld
  <2>. PICK n \in Nat : n = Size[s]
    BY SizeType DEF Pending
  <2>. PICK ivs : ivs = partials[s].intervals
    OBVIOUS
  <2>1. /\ ivs \in Seq(Intervals(n)) /\ Sorted(ivs)
        /\ \A x \in Int : x \in Bytes(0, n) <=> Covers(ivs, x)
        /\ ivs # <<>> /\ ~Complete(s, ivs)
    BY DEF ReassemblyInv, PartialSound, Pending
  <2>2. ivs = << <<0, n>> >>
    BY <2>1, WholeIsOneInterval
  <2> QED
    BY <2>1, <2>2 DEF Complete
<1> QED
  BY <1>1, ReassemblyInvariant, PTL
=============================================================================
