---------------------------- MODULE CodecProofs ----------------------------
(***************************************************************************)
(* What decode returns for what encode wrote, for every width, payload      *)
(* limit and message, whole or cut.                                         *)
(***************************************************************************)
EXTENDS Codec, DataLemmas, SequenceTheorems

-----------------------------------------------------------------------------
(* Numbers *)

\* What the assumptions say of the base and of the widths.
LEMMA Widths ==
  /\ Base \in Nat /\ Base > 7
  /\ U16 \in 1 .. (Base - 1) /\ U32 \in 1 .. (Base - 1)
  /\ U64 \in 1 .. (Base - 1) /\ GuidSize \in 1 .. (Base - 1)
  /\ U16 \in Nat /\ U32 \in Nat /\ U64 \in Nat /\ GuidSize \in Nat
  /\ U16 <= U32 /\ MaxPayload \in Nat /\ MaxPayload \in Word(U16)
BY CodecAssumption, MaxPayloadAssumption

\* A number is its low byte and the rest of it.
LEMMA Division ==
  ASSUME NEW v \in Nat
  PROVE  /\ v \div Base \in Nat /\ v % Base \in Byte
         /\ v = ((v \div Base) * Base) + (v % Base)
         /\ v \div Base <= v
         /\ v < Base => v \div Base = 0 /\ v % Base = v
BY Widths DEF Byte

\* Division by the base is monotonic.
LEMMA DivisionMonotonic ==
  ASSUME NEW u \in Nat, NEW v \in Nat, u <= v
  PROVE  u \div Base <= v \div Base
BY Widths

IsShift(g, v, k) == g = [i \in 0 .. k |-> IF i = 0 THEN v ELSE g[i - 1] \div Base]

\* v >> 8, v >> 16 ...
Shifts(v, k) == CHOOSE g : IsShift(g, v, k)

\* A shift is the last of the shifts up to it.
LEMMA ShiftedIsShift ==
  ASSUME NEW v, NEW k
  PROVE  Shifted(v, k) = Shifts(v, k)[k]
BY DEF Shifted, Shifts, IsShift

\* The shifts of a number exist.
LEMMA ShiftsEquation ==
  ASSUME NEW v \in Nat, NEW k \in Nat
  PROVE  /\ Shifts(v, k)[0] = v
         /\ \A i \in 1 .. k : Shifts(v, k)[i] = Shifts(v, k)[i - 1] \div Base
<1> DEFINE step == [p \in (1 .. k) \X Nat |-> p[2] \div Base]
<1>1. \A i \in 1 .. k, x \in Nat : step[<<i, x>>] = x \div Base
  OBVIOUS
<1>2. \A i \in 1 .. k, x \in Nat : step[<<i, x>>] \in Nat
  BY <1>1, Division
<1> HIDE DEF step
<1>3. \E g \in [0 .. k -> Nat] : IsRecursion(g, k, v, step)
  BY <1>2, RecursionExists, Zenon
<1>4. PICK g \in [0 .. k -> Nat] : IsRecursion(g, k, v, step)
  BY <1>3
<1>5. ASSUME NEW i \in 0 .. k
      PROVE  g[i] = IF i = 0 THEN v ELSE g[i - 1] \div Base
  <2>1. g[i] = IF i = 0 THEN v ELSE step[<<i, g[i - 1]>>]
    BY <1>4 DEF IsRecursion
  <2>2. CASE i # 0
    <3>1. i \in 1 .. k /\ i - 1 \in 0 .. k
      BY <2>2
    <3>2. g[i - 1] \in Nat
      BY <3>1
    <3> QED
      BY <1>1, <2>1, <2>2, <3>1, <3>2
  <2> QED
    BY <2>1, <2>2
<1>6. IsShift(g, v, k)
  BY <1>5 DEF IsShift
<1>7. IsShift(Shifts(v, k), v, k)
  <2> HIDE DEF IsShift
  <2> QED
    BY <1>6 DEF Shifts
<1> DEFINE s == Shifts(v, k)
<1>8. s = [i \in 0 .. k |-> IF i = 0 THEN v ELSE s[i - 1] \div Base]
  BY <1>7 DEF IsShift
<1> HIDE DEF s
<1>9. \A i \in 0 .. k : s[i] = IF i = 0 THEN v ELSE s[i - 1] \div Base
  BY <1>8
<1>10. s[0] = v /\ \A i \in 1 .. k : s[i] = s[i - 1] \div Base
  BY <1>9
<1> QED
  BY <1>10 DEF s

\* Shifting by one byte more divides by the base.
LEMMA ShiftedStep ==
  ASSUME NEW v \in Nat
  PROVE  /\ Shifted(v, 0) = v
         /\ \A k \in Nat : /\ Shifted(v, k) \in Nat
                           /\ Shifted(v, k + 1) = Shifted(v, k) \div Base
<1>1. Shifted(v, 0) = v
  BY ShiftedIsShift, ShiftsEquation
<1>2. ASSUME NEW k \in Nat
      PROVE  Shifted(v, k + 1) = Shifted(v, k) \div Base
  <2> DEFINE g == Shifts(v, k)
             h == Shifts(v, k + 1)
  <2>1. g[0] = v /\ \A i \in 1 .. k : g[i] = g[i - 1] \div Base
    BY ShiftsEquation
  <2>2. h[0] = v /\ \A i \in 1 .. (k + 1) : h[i] = h[i - 1] \div Base
    BY ShiftsEquation
  <2>3. Shifted(v, k) = g[k] /\ Shifted(v, k + 1) = h[k + 1]
    BY ShiftedIsShift
  <2> HIDE DEF g, h
  <2>4. SameSteps(g, h, k)
    BY <2>1, <2>2 DEF SameSteps
  <2>5. \A i \in 0 .. k : g[i] = h[i]
    <3>1. Agree(g, h, k)
      BY <2>4, SameTrace
    <3> QED
      BY <3>1 DEF Agree
  <2>6. g[k] = h[k] /\ h[k + 1] = h[k] \div Base
    <3>1. k \in 0 .. k /\ k + 1 \in 1 .. (k + 1) /\ (k + 1) - 1 = k
      OBVIOUS
    <3> QED
      BY <2>2, <2>5, <3>1
  <2> QED
    BY <2>3, <2>6
<1> DEFINE T == {k \in Nat : Shifted(v, k) \in Nat}
<1>3. T = Nat
  <2>1. 0 \in T
    BY <1>1
  <2>2. \A k \in T : k + 1 \in T
    BY <1>2, Division
  <2> HIDE DEF T
  <2>3. T \in SUBSET Nat
    BY DEF T
  <2> QED
    BY <2>1, <2>2, <2>3, SetInduction
<1> QED
  BY <1>1, <1>2, <1>3

\* Shifting is monotonic, and shifting further gives less.
LEMMA ShiftedMonotonic ==
  ASSUME NEW u \in Nat, NEW v \in Nat, u <= v
  PROVE  \A k \in Nat : Shifted(u, k) <= Shifted(v, k)
<1> DEFINE T == {k \in Nat : Shifted(u, k) <= Shifted(v, k)}
<1>1. 0 \in T
  BY ShiftedStep
<1>2. ASSUME NEW k \in T PROVE k + 1 \in T
  <2>1. k \in Nat /\ Shifted(u, k) <= Shifted(v, k)
    OBVIOUS
  <2>2. Shifted(u, k) \in Nat /\ Shifted(v, k) \in Nat
    BY <2>1, ShiftedStep
  <2>3. Shifted(u, k) \div Base <= Shifted(v, k) \div Base
    BY <2>1, <2>2, DivisionMonotonic
  <2> QED
    BY <2>1, <2>3, ShiftedStep
<1>3. T = Nat
  <2> HIDE DEF T
  <2>1. T \in SUBSET Nat
    BY DEF T
  <2> QED
    BY <1>1, <1>2, <2>1, SetInduction
<1> QED
  BY <1>3

\* What fits into a width fits with everything below it, and into a wider one.
LEMMA WordSmaller ==
  ASSUME NEW w \in Nat, NEW v \in Word(w), NEW u \in Nat, u <= v
  PROVE  u \in Word(w)
<1>1. v \in Nat /\ Shifted(v, w) = 0
  BY DEF Word
<1>2. Shifted(u, w) <= 0 /\ Shifted(u, w) \in Nat
  BY <1>1, ShiftedMonotonic, ShiftedStep
<1> QED
  BY <1>2 DEF Word

\* A byte more holds all that fewer hold.
LEMMA WordWider ==
  ASSUME NEW w \in Nat, NEW x \in Nat, w <= x, NEW v \in Word(w)
  PROVE  v \in Word(x)
<1>1. v \in Nat /\ Shifted(v, w) = 0
  BY DEF Word
<1> DEFINE T == {k \in Nat : Shifted(v, w + k) = 0}
<1>2. 0 \in T
  BY <1>1
<1>3. ASSUME NEW k \in T PROVE k + 1 \in T
  <2>1. w + k \in Nat /\ w + (k + 1) = (w + k) + 1 /\ Shifted(v, w + k) = 0
    OBVIOUS
  <2>2. Shifted(v, (w + k) + 1) = 0 \div Base
    BY <1>1, <2>1, ShiftedStep
  <2>3. 0 \div Base = 0
    BY Widths
  <2> QED
    BY <2>1, <2>2, <2>3
<1>4. T = Nat
  <2> HIDE DEF T
  <2>1. T \in SUBSET Nat
    BY DEF T
  <2> QED
    BY <1>2, <1>3, <2>1, SetInduction
<1>5. x - w \in Nat /\ w + (x - w) = x
  OBVIOUS
<1>6. Shifted(v, x) = 0
  BY <1>4, <1>5
<1> QED
  BY <1>1, <1>6 DEF Word

\* One byte holds what is below the base.
LEMMA ByteIsWord ==
  ASSUME NEW v \in Byte
  PROVE  v \in Word(1) /\ v \in Nat
<1>1. v \in Nat /\ v < Base
  BY Widths DEF Byte
<1>2. Shifted(v, 0 + 1) = v \div Base
  BY <1>1, ShiftedStep
<1> QED
  BY <1>1, <1>2, Division DEF Word

\* What put_u16() and the others write is bytes, as many as the width.
LEMMA PutProperty ==
  ASSUME NEW w \in Nat, NEW v \in Nat
  PROVE  /\ Put(w, v) \in Bytes /\ Len(Put(w, v)) = w
         /\ \A i \in 1 .. w : Put(w, v)[i] = Shifted(v, w - i) % Base
<1>1. ASSUME NEW i \in 1 .. w PROVE Shifted(v, w - i) % Base \in Byte
  <2>1. w - i \in Nat
    OBVIOUS
  <2>2. Shifted(v, w - i) \in Nat
    BY <2>1, ShiftedStep
  <2> QED
    BY <2>2, Division
<1>2. Put(w, v) \in [1 .. w -> Byte]
  BY <1>1 DEF Put
<1>3. Put(w, v) \in Seq(Byte) /\ Len(Put(w, v)) = w
  BY <1>2
<1> QED
  BY <1>3 DEF Put, Bytes

-----------------------------------------------------------------------------
(* Bytes in a buffer *)

\* The bytes s are in buf, behind the first off.
At(buf, off, s) ==
  /\ off + Len(s) <= Len(buf)
  /\ \A i \in 1 .. Len(s) : buf[off + i] = s[i]

\* A sequence of bytes is its length and its bytes.
LEMMA BytesProperty ==
  ASSUME NEW s \in Bytes
  PROVE  /\ Len(s) \in Nat /\ s = [i \in 1 .. Len(s) |-> s[i]]
         /\ \A i \in 1 .. Len(s) : s[i] \in Byte
BY LenProperties DEF Bytes

\* Sequences of the same bytes are equal.
LEMMA BytesEqual ==
  ASSUME NEW s \in Bytes, NEW t \in Bytes, Len(s) = Len(t),
         \A i \in 1 .. Len(s) : s[i] = t[i]
  PROVE  s = t
BY SeqEqual DEF Bytes

\* One after the other.
LEMMA BytesConcat ==
  ASSUME NEW s \in Bytes, NEW t \in Bytes
  PROVE  /\ s \o t \in Bytes /\ Len(s \o t) = Len(s) + Len(t)
         /\ \A i \in 1 .. Len(s) : (s \o t)[i] = s[i]
         /\ \A i \in 1 .. Len(t) : (s \o t)[Len(s) + i] = t[i]
<1>1. Len(s) \in Nat /\ Len(t) \in Nat
  BY BytesProperty
<1>2. /\ s \o t \in Seq(Byte) /\ Len(s \o t) = Len(s) + Len(t)
      /\ \A i \in 1 .. Len(s) + Len(t) :
           (s \o t)[i] = IF i <= Len(s) THEN s[i] ELSE t[i - Len(s)]
  BY ConcatProperties DEF Bytes
<1>3. ASSUME NEW i \in 1 .. Len(s) PROVE (s \o t)[i] = s[i]
  <2>1. i \in 1 .. Len(s) + Len(t) /\ i <= Len(s)
    BY <1>1
  <2> QED
    BY <1>2, <2>1
<1>4. ASSUME NEW i \in 1 .. Len(t) PROVE (s \o t)[Len(s) + i] = t[i]
  <2>1. /\ Len(s) + i \in 1 .. Len(s) + Len(t) /\ ~ (Len(s) + i <= Len(s))
        /\ (Len(s) + i) - Len(s) = i
    BY <1>1
  <2> QED
    BY <1>2, <2>1
<1> QED
  BY <1>2, <1>3, <1>4 DEF Bytes

\* The length of two sequences together.
LEMMA ConcatLen ==
  ASSUME NEW s \in Bytes, NEW t \in Bytes
  PROVE  s \o t \in Bytes /\ Len(s \o t) = Len(s) + Len(t)
BY BytesConcat

\* A part of a sequence of bytes.
LEMMA BytesPart ==
  ASSUME NEW s \in Bytes, NEW m \in Nat, NEW n \in Nat, m <= n, n <= Len(s)
  PROVE  /\ SubSeq(s, m + 1, n) \in Bytes /\ Len(SubSeq(s, m + 1, n)) = n - m
         /\ \A i \in 1 .. (n - m) : SubSeq(s, m + 1, n)[i] = s[m + i]
<1>1. Len(s) \in Nat /\ \A i \in 1 .. Len(s) : s[i] \in Byte
  BY BytesProperty
<1>2. m + 1 \in Int /\ n \in Int /\ \A i \in (m + 1) .. n : i \in 1 .. Len(s)
  BY <1>1
<1>3. \A i \in (m + 1) .. n : s[i] \in Byte
  BY <1>1, <1>2
<1>4. /\ SubSeq(s, m + 1, n) \in Seq(Byte)
      /\ Len(SubSeq(s, m + 1, n)) = IF m + 1 <= n THEN n - (m + 1) + 1 ELSE 0
      /\ \A i \in 1 .. n - (m + 1) + 1 : SubSeq(s, m + 1, n)[i] = s[m + 1 + i - 1]
  BY <1>2, <1>3, SubSeqProperties
<1>5. n - (m + 1) + 1 = n - m /\ \A i \in 1 .. (n - m) : m + 1 + i - 1 = m + i
  OBVIOUS
<1> QED
  BY <1>4, <1>5 DEF Bytes

\* A sequence is in itself.
LEMMA AtStart ==
  ASSUME NEW s \in Bytes
  PROVE  At(s, 0, s)
<1>1. Len(s) \in Nat
  BY BytesProperty
<1>2. 0 + Len(s) <= Len(s) /\ \A i \in 1 .. Len(s) : 0 + i = i
  BY <1>1
<1> QED
  BY <1>2 DEF At

\* Where s \o t is, s is, and t behind it.
LEMMA AtConcat ==
  ASSUME NEW buf \in Bytes, NEW off \in Nat, NEW s \in Bytes, NEW t \in Bytes,
         At(buf, off, s \o t)
  PROVE  At(buf, off, s) /\ At(buf, off + Len(s), t)
<1>1. Len(s) \in Nat /\ Len(t) \in Nat /\ Len(buf) \in Nat
  BY BytesProperty
<1>2. /\ Len(s \o t) = Len(s) + Len(t)
      /\ \A i \in 1 .. Len(s) : (s \o t)[i] = s[i]
      /\ \A i \in 1 .. Len(t) : (s \o t)[Len(s) + i] = t[i]
  BY BytesConcat
<1>3. /\ off + (Len(s) + Len(t)) <= Len(buf)
      /\ \A i \in 1 .. (Len(s) + Len(t)) : buf[off + i] = (s \o t)[i]
  BY <1>2 DEF At
<1>4. off + Len(s) <= Len(buf) /\ (off + Len(s)) + Len(t) <= Len(buf)
  BY <1>1, <1>3
<1>5. ASSUME NEW i \in 1 .. Len(s) PROVE buf[off + i] = s[i]
  <2>1. i \in 1 .. (Len(s) + Len(t))
    BY <1>1
  <2> QED
    BY <1>2, <1>3, <2>1
<1>6. ASSUME NEW i \in 1 .. Len(t) PROVE buf[(off + Len(s)) + i] = t[i]
  <2>1. Len(s) + i \in 1 .. (Len(s) + Len(t)) /\ off + (Len(s) + i) = (off + Len(s)) + i
    BY <1>1
  <2>2. buf[off + (Len(s) + i)] = (s \o t)[Len(s) + i]
    BY <1>3, <2>1
  <2> QED
    BY <1>2, <2>1, <2>2
<1> QED
  BY <1>4, <1>5, <1>6 DEF At

\* The part of a buffer where s is, is s.
LEMMA AtPart ==
  ASSUME NEW buf \in Bytes, NEW off \in Nat, NEW s \in Bytes, At(buf, off, s)
  PROVE  SubSeq(buf, off + 1, off + Len(s)) = s
<1>1. Len(s) \in Nat /\ Len(buf) \in Nat
  BY BytesProperty
<1>2. off + Len(s) \in Nat /\ off <= off + Len(s) /\ off + Len(s) <= Len(buf)
      /\ (off + Len(s)) - off = Len(s)
  BY <1>1 DEF At
<1> DEFINE t == SubSeq(buf, off + 1, off + Len(s))
<1>3. t \in Bytes /\ Len(t) = Len(s) /\ \A i \in 1 .. Len(s) : t[i] = buf[off + i]
  BY <1>2, BytesPart
<1> HIDE DEF t
<1>4. \A i \in 1 .. Len(t) : t[i] = s[i]
  BY <1>3 DEF At
<1>5. t = s
  BY <1>3, <1>4, BytesEqual
<1> QED
  BY <1>5 DEF t

\* What is in a buffer is in the part of it that holds it.
LEMMA AtInPart ==
  ASSUME NEW buf \in Bytes, NEW m \in Nat, NEW n \in Nat, m <= n, n <= Len(buf),
         NEW off \in Nat, NEW s \in Bytes, At(buf, m + off, s), m + off + Len(s) <= n
  PROVE  At(SubSeq(buf, m + 1, n), off, s)
<1> DEFINE part == SubSeq(buf, m + 1, n)
<1>1. Len(part) = n - m /\ \A i \in 1 .. (n - m) : part[i] = buf[m + i]
  BY BytesPart
<1> HIDE DEF part
<1>2. Len(s) \in Nat
  BY BytesProperty
<1>3. off + Len(s) <= Len(part)
  BY <1>1, <1>2
<1>4. ASSUME NEW i \in 1 .. Len(s) PROVE part[off + i] = s[i]
  <2>1. off + i \in 1 .. (n - m) /\ m + (off + i) = (m + off) + i
    BY <1>2
  <2>2. part[off + i] = buf[(m + off) + i]
    BY <1>1, <2>1
  <2>3. buf[(m + off) + i] = s[i]
    BY DEF At
  <2> QED
    BY <2>2, <2>3
<1>5. At(part, off, s)
  BY <1>3, <1>4 DEF At
<1> QED
  BY <1>5 DEF part

-----------------------------------------------------------------------------
(* Reading a number *)

IsValue(g, buf, off, w) ==
  g = [i \in 0 .. w |-> IF i = 0 THEN 0 ELSE (g[i - 1] * Base) + buf[off + i]]

\* The numbers that the first bytes give.
Values(buf, off, w) == CHOOSE g : IsValue(g, buf, off, w)

\* get_u16() and the others return what all bytes of the width give.
LEMMA GetIsValue ==
  ASSUME NEW buf, NEW off, NEW w
  PROVE  Get(buf, off, w) = Values(buf, off, w)[w]
BY DEF Get, Values, IsValue

\* They are numbers.
LEMMA ValuesEquation ==
  ASSUME NEW buf \in Bytes, NEW off \in Nat, NEW w \in Nat, off + w <= Len(buf)
  PROVE  /\ Values(buf, off, w) \in [0 .. w -> Nat]
         /\ Values(buf, off, w)[0] = 0
         /\ \A i \in 1 .. w :
              Values(buf, off, w)[i] = (Values(buf, off, w)[i - 1] * Base) + buf[off + i]
<1>0. \A i \in 1 .. w : buf[off + i] \in Nat
  <2>1. Len(buf) \in Nat /\ \A i \in 1 .. Len(buf) : buf[i] \in Byte
    BY BytesProperty
  <2>2. \A i \in 1 .. w : off + i \in 1 .. Len(buf)
    BY <2>1
  <2> QED
    BY <2>1, <2>2, ByteIsWord
<1> DEFINE step == [p \in (1 .. w) \X Nat |-> (p[2] * Base) + buf[off + p[1]]]
<1>1. \A i \in 1 .. w, x \in Nat : step[<<i, x>>] = (x * Base) + buf[off + i]
  OBVIOUS
<1>2. ASSUME NEW i \in 1 .. w, NEW x \in Nat PROVE step[<<i, x>>] \in Nat
  <2>1. buf[off + i] \in Nat
    BY <1>0
  <2>2. x * Base \in Nat
    BY Widths
  <2>3. (x * Base) + buf[off + i] \in Nat
    BY <2>1, <2>2
  <2> QED
    BY <1>1, <2>3
<1> HIDE DEF step
<1>3. \E g \in [0 .. w -> Nat] : IsRecursion(g, w, 0, step)
  <2>1. 0 \in Nat
    OBVIOUS
  <2> QED
    BY <1>2, <2>1, RecursionExists, Zenon
<1>4. PICK g \in [0 .. w -> Nat] : IsRecursion(g, w, 0, step)
  BY <1>3
<1>5. ASSUME NEW i \in 0 .. w
      PROVE  g[i] = IF i = 0 THEN 0 ELSE (g[i - 1] * Base) + buf[off + i]
  <2>1. g[i] = IF i = 0 THEN 0 ELSE step[<<i, g[i - 1]>>]
    BY <1>4 DEF IsRecursion
  <2>2. CASE i # 0
    <3>1. i \in 1 .. w /\ i - 1 \in 0 .. w
      BY <2>2
    <3>2. g[i - 1] \in Nat
      BY <3>1
    <3> QED
      BY <1>1, <2>1, <2>2, <3>1, <3>2
  <2> QED
    BY <2>1, <2>2
<1>6. IsValue(g, buf, off, w)
  BY <1>5 DEF IsValue
<1>7. IsValue(Values(buf, off, w), buf, off, w)
  <2> HIDE DEF IsValue
  <2> QED
    BY <1>6 DEF Values
<1> DEFINE s == Values(buf, off, w)
<1>8. s = [i \in 0 .. w |-> IF i = 0 THEN 0 ELSE (s[i - 1] * Base) + buf[off + i]]
  BY <1>7 DEF IsValue
<1> HIDE DEF s
<1>9. \A i \in 0 .. w : s[i] = IF i = 0 THEN 0 ELSE (s[i - 1] * Base) + buf[off + i]
  BY <1>8
<1>10. s[0] = 0 /\ \A i \in 1 .. w : s[i] = (s[i - 1] * Base) + buf[off + i]
  BY <1>9
<1>11. \A i \in 0 .. w : g[i] = s[i]
  <2>1. g[0] = s[0]
    BY <1>5, <1>10
  <2>2. ASSUME NEW i \in 1 .. w, g[i - 1] = s[i - 1] PROVE g[i] = s[i]
    <3>1. g[i] = (g[i - 1] * Base) + buf[off + i]
      BY <1>5
    <3> QED
      BY <1>10, <2>2, <3>1
  <2>3. SameSteps(g, s, w)
    BY <2>1, <2>2 DEF SameSteps
  <2>4. Agree(g, s, w)
    BY <2>3, SameTrace, Zenon
  <2> QED
    BY <2>4 DEF Agree
<1>12. s \in [0 .. w -> Nat]
  <2>1. \A i \in 0 .. w : s[i] \in Nat
    BY <1>11
  <2> QED
    BY <1>8, <2>1
<1> QED
  BY <1>10, <1>12 DEF s

\* What is read from bytes is a number.
LEMMA GetNatural ==
  ASSUME NEW buf \in Bytes, NEW off \in Nat, NEW w \in Nat, off + w <= Len(buf)
  PROVE  Get(buf, off, w) \in Nat
<1>1. Values(buf, off, w) \in [0 .. w -> Nat]
  BY ValuesEquation
<1>2. Values(buf, off, w)[w] \in Nat
  BY <1>1
<1> QED
  BY <1>2, GetIsValue

\* A number that fits its width is read as it was put.
LEMMA GetPut ==
  ASSUME NEW buf \in Bytes, NEW off \in Nat, NEW w \in Nat, NEW v \in Word(w),
         At(buf, off, Put(w, v))
  PROVE  Get(buf, off, w) = v
<1>0. v \in Nat /\ Shifted(v, w) = 0
  BY DEF Word
<1>1. Len(Put(w, v)) = w /\ \A i \in 1 .. w : Put(w, v)[i] = Shifted(v, w - i) % Base
  BY <1>0, PutProperty
<1>2. off + w <= Len(buf) /\ \A i \in 1 .. w : buf[off + i] = Shifted(v, w - i) % Base
  BY <1>1 DEF At
<1> DEFINE g == Values(buf, off, w)
           h == [i \in 0 .. w |-> Shifted(v, w - i)]
<1>3. g[0] = 0 /\ \A i \in 1 .. w : g[i] = (g[i - 1] * Base) + buf[off + i]
  BY <1>2, ValuesEquation
<1>4. h[0] = 0
  BY <1>0
<1>5. ASSUME NEW i \in 1 .. w PROVE h[i] = (h[i - 1] * Base) + buf[off + i]
  <2>. PICK k \in Nat : k = w - i
    OBVIOUS
  <2>1. i \in 0 .. w /\ i - 1 \in 0 .. w /\ w - (i - 1) = k + 1
    OBVIOUS
  <2>2. h[i] = Shifted(v, k) /\ h[i - 1] = Shifted(v, k + 1)
    BY <2>1
  <2>3. Shifted(v, k) \in Nat /\ Shifted(v, k + 1) = Shifted(v, k) \div Base
    BY <1>0, ShiftedStep
  <2>4. buf[off + i] = Shifted(v, k) % Base
    BY <1>2
  <2>5. Shifted(v, k) = ((Shifted(v, k) \div Base) * Base) + (Shifted(v, k) % Base)
    BY <2>3, Division
  <2> QED
    BY <2>2, <2>3, <2>4, <2>5
<1> HIDE DEF g, h
<1>6. SameSteps(g, h, w)
  BY <1>3, <1>4, <1>5 DEF SameSteps
<1>7. \A i \in 0 .. w : g[i] = h[i]
  <2>1. Agree(g, h, w)
    BY <1>6, SameTrace
  <2> QED
    BY <2>1 DEF Agree
<1>8. g[w] = h[w]
  BY <1>7
<1>9. h[w] = Shifted(v, 0)
  BY DEF h
<1>10. Shifted(v, 0) = v
  BY <1>0, ShiftedStep
<1> QED
  BY <1>8, <1>9, <1>10, GetIsValue DEF g

-----------------------------------------------------------------------------
(* Parts that are written one after the other *)

IsFlatten(f, ss) ==
  f = [i \in 1 .. Len(ss) |-> IF i = 1 THEN ss[i] ELSE f[i - 1] \o ss[i]]

\* g[i] is what the first i parts make.
Grows(g, ss) == g[0] = <<>> /\ \A i \in 1 .. Len(ss) : g[i] = g[i - 1] \o ss[i]

\* What FlattenSeq makes of its parts grows part by part.
LEMMA FlattenProperty ==
  ASSUME NEW ss \in Seq(Bytes)
  PROVE  \E g \in [0 .. Len(ss) -> Bytes] : Grows(g, ss) /\ FlattenSeq(ss) = g[Len(ss)]
<1>. PICK n \in Nat : n = Len(ss)
  BY LenProperties
<1>0. \A i \in 1 .. n : ss[i] \in Bytes
  BY LenProperties
<1>. PICK none \in Bytes : none = <<>>
  BY EmptySeq DEF Bytes
<1> DEFINE step == [p \in (1 .. n) \X Bytes |-> p[2] \o ss[p[1]]]
<1>1. \A i \in 1 .. n, x \in Bytes : step[<<i, x>>] = x \o ss[i]
  OBVIOUS
<1>2. \A i \in 1 .. n, x \in Bytes : step[<<i, x>>] \in Bytes
  BY <1>0, <1>1, BytesConcat
<1> HIDE DEF step
<1>3. \E g \in [0 .. n -> Bytes] : IsRecursion(g, n, none, step)
  BY <1>2, RecursionExists, Zenon
<1>4. PICK g \in [0 .. n -> Bytes] : IsRecursion(g, n, none, step)
  BY <1>3
<1>5. g[0] = none
  BY <1>4 DEF IsRecursion
<1>6. ASSUME NEW i \in 1 .. n PROVE g[i] = g[i - 1] \o ss[i]
  <2>1. i \in 0 .. n /\ i # 0 /\ i - 1 \in 0 .. n
    OBVIOUS
  <2>2. g[i] = step[<<i, g[i - 1]>>]
    BY <1>4, <2>1 DEF IsRecursion
  <2>3. g[i - 1] \in Bytes
    BY <2>1
  <2> QED
    BY <1>1, <2>2, <2>3
<1>7. Grows(g, ss)
  BY <1>5, <1>6 DEF Grows
<1>8. CASE n = 0
  <2>1. ss = <<>>
    BY <1>8, EmptySeq
  <2>2. FlattenSeq(ss) = <<>>
    BY <1>8, <2>1 DEF FlattenSeq
  <2> QED
    BY <1>5, <1>7, <1>8, <2>2
<1>9. CASE n # 0
  <2>1. g[1] = ss[1]
    <3>1. 1 \in 1 .. n /\ 1 - 1 = 0
      BY <1>9
    <3>2. g[1] = none \o ss[1] /\ ss[1] \in Seq(Byte)
      BY <1>0, <1>5, <1>6, <3>1 DEF Bytes
    <3> QED
      BY <3>2, ConcatEmptySeq
  <2> DEFINE f == [i \in 1 .. n |-> g[i]]
  <2>2. ASSUME NEW i \in 1 .. n
        PROVE  f[i] = IF i = 1 THEN ss[i] ELSE f[i - 1] \o ss[i]
    <3>1. CASE i = 1
      BY <2>1, <3>1
    <3>2. CASE i # 1
      <4>1. i - 1 \in 1 .. n
        BY <3>2
      <4>2. f[i - 1] = g[i - 1] /\ f[i] = g[i]
        BY <4>1
      <4> QED
        BY <1>6, <3>2, <4>2
    <3> QED
      BY <3>1, <3>2
  <2>3. f = [i \in 1 .. n |-> IF i = 1 THEN ss[i] ELSE f[i - 1] \o ss[i]]
    BY <2>2
  <2>4. IsFlatten(f, ss)
    BY <2>3 DEF IsFlatten
  <2> HIDE DEF f
  <2> DEFINE h == CHOOSE e : IsFlatten(e, ss)
  <2>5. IsFlatten(h, ss)
    <3> HIDE DEF IsFlatten
    <3> QED
      BY <2>4
  <2>6. FlattenSeq(ss) = h[n]
    BY <1>9 DEF FlattenSeq, IsFlatten
  <2> HIDE DEF h
  <2>7. h = [i \in 1 .. n |-> IF i = 1 THEN ss[i] ELSE h[i - 1] \o ss[i]]
    BY <2>5 DEF IsFlatten
  <2>8. \A i \in 1 .. n : h[i] = IF i = 1 THEN ss[i] ELSE h[i - 1] \o ss[i]
    BY <2>7
  <2> DEFINE T == {k \in Nat : k \in 1 .. n => h[k] = g[k]}
  <2>9. 0 \in T
    OBVIOUS
  <2>10. ASSUME NEW k \in T PROVE k + 1 \in T
    <3>1. k \in Nat /\ (k + 1) - 1 = k
      OBVIOUS
    <3>2. ASSUME k + 1 \in 1 .. n PROVE h[k + 1] = g[k + 1]
      <4>1. CASE k = 0
        <5>1. k + 1 = 1
          BY <4>1
        <5>2. h[1] = ss[1]
          BY <2>8, <3>2, <5>1
        <5> QED
          BY <2>1, <5>1, <5>2
      <4>2. CASE k # 0
        <5>1. k \in 1 .. n /\ k + 1 # 1
          BY <3>1, <3>2, <4>2
        <5>2. h[k] = g[k]
          BY <5>1
        <5>3. h[k + 1] = h[k] \o ss[k + 1]
          BY <2>8, <3>1, <3>2, <5>1
        <5>4. g[k + 1] = g[k] \o ss[k + 1]
          BY <1>6, <3>1, <3>2
        <5> QED
          BY <5>2, <5>3, <5>4
      <4> QED
        BY <4>1, <4>2
    <3> QED
      BY <3>1, <3>2
  <2>11. T = Nat
    <3> HIDE DEF T
    <3>1. T \in SUBSET Nat
      BY DEF T
    <3> QED
      BY <2>9, <2>10, <3>1, SetInduction
  <2>12. h[n] = g[n]
    BY <1>9, <2>11
  <2> QED
    BY <1>7, <2>6, <2>12
<1> QED
  BY <1>8, <1>9

\* Part i of ss is in buf from pos[i - 1] to pos[i].
LaidOut(buf, pos, ss) ==
  /\ pos \in [0 .. Len(ss) -> Nat]
  /\ \A i \in 1 .. Len(ss) : pos[i] = pos[i - 1] + Len(ss[i]) /\ At(buf, pos[i - 1], ss[i])

\* Flattened parts are bytes, at least one for each part that is not empty.
LEMMA FlattenBytes ==
  ASSUME NEW ss \in Seq(Bytes)
  PROVE  /\ FlattenSeq(ss) \in Bytes
         /\ (\A i \in 1 .. Len(ss) : Len(ss[i]) > 0) => Len(ss) <= Len(FlattenSeq(ss))
<1>. PICK n \in Nat : n = Len(ss)
  BY LenProperties
<1>0. \A i \in 1 .. n : ss[i] \in Bytes
  BY LenProperties
<1>1. PICK g \in [0 .. n -> Bytes] : Grows(g, ss) /\ FlattenSeq(ss) = g[n]
  BY FlattenProperty
<1>2. ASSUME \A i \in 1 .. n : Len(ss[i]) > 0 PROVE n <= Len(g[n])
  <2> DEFINE T == {k \in Nat : k <= n => k <= Len(g[k])}
  <2>1. 0 \in T
    <3>1. g[0] = <<>>
      BY <1>1 DEF Grows
    <3>2. Len(g[0]) = 0
      BY <3>1, EmptySeq
    <3> QED
      BY <3>2
  <2>2. ASSUME NEW k \in T PROVE k + 1 \in T
    <3>1. k \in Nat /\ (k + 1) - 1 = k
      OBVIOUS
    <3>2. ASSUME k + 1 <= n PROVE k + 1 <= Len(g[k + 1])
      <4>1. k + 1 \in 1 .. n /\ k \in 0 .. n /\ k <= Len(g[k])
        BY <3>1, <3>2
      <4>2. g[k + 1] = g[k] \o ss[k + 1]
        BY <1>1, <3>1, <4>1 DEF Grows
      <4>3. g[k] \in Bytes /\ ss[k + 1] \in Bytes
        BY <1>0, <4>1
      <4>4. Len(g[k]) \in Nat /\ Len(ss[k + 1]) \in Nat /\ Len(ss[k + 1]) > 0
        BY <1>2, <4>1, <4>3, BytesProperty
      <4>5. Len(g[k + 1]) = Len(g[k]) + Len(ss[k + 1])
        BY <4>2, <4>3, BytesConcat
      <4> QED
        BY <4>1, <4>4, <4>5
    <3> QED
      BY <3>1, <3>2
  <2>3. T = Nat
    <3> HIDE DEF T
    <3>1. T \in SUBSET Nat
      BY DEF T
    <3> QED
      BY <2>1, <2>2, <3>1, SetInduction
  <2> QED
    BY <2>3
<1>3. g[n] \in Bytes
  OBVIOUS
<1> QED
  BY <1>1, <1>2, <1>3

\* Where flattened parts are, each part has its place.
LEMMA FlattenLaidOut ==
  ASSUME NEW ss \in Seq(Bytes), NEW buf \in Bytes, NEW off \in Nat,
         At(buf, off, FlattenSeq(ss))
  PROVE  \E pos : /\ LaidOut(buf, pos, ss) /\ pos[0] = off
                  /\ pos[Len(ss)] = off + Len(FlattenSeq(ss))
<1>. PICK n \in Nat : n = Len(ss)
  BY LenProperties
<1>0. \A i \in 1 .. n : ss[i] \in Bytes
  BY LenProperties
<1>1. PICK g \in [0 .. n -> Bytes] : Grows(g, ss) /\ FlattenSeq(ss) = g[n]
  BY FlattenProperty
<1>2. \A i \in 0 .. n : g[i] \in Bytes /\ Len(g[i]) \in Nat
  BY BytesProperty
<1>3. ASSUME NEW i \in 1 .. n, At(buf, off, g[i])
      PROVE  /\ At(buf, off, g[i - 1]) /\ At(buf, off + Len(g[i - 1]), ss[i])
             /\ Len(g[i]) = Len(g[i - 1]) + Len(ss[i])
  <2>1. i - 1 \in 0 .. n /\ i \in 0 .. n
    OBVIOUS
  <2>2. g[i] = g[i - 1] \o ss[i] /\ g[i - 1] \in Bytes /\ ss[i] \in Bytes
    BY <1>0, <1>1, <1>2, <2>1 DEF Grows
  <2>3. At(buf, off, g[i - 1] \o ss[i])
    BY <1>3, <2>2
  <2>4. At(buf, off, g[i - 1]) /\ At(buf, off + Len(g[i - 1]), ss[i])
    BY <2>2, <2>3, AtConcat
  <2>5. Len(g[i - 1] \o ss[i]) = Len(g[i - 1]) + Len(ss[i])
    BY <2>2, BytesConcat
  <2> QED
    BY <2>2, <2>4, <2>5
<1> DEFINE T == {k \in Nat : k <= n => At(buf, off, g[n - k])}
<1>4. T = Nat
  <2>1. 0 \in T
    BY <1>1
  <2>2. ASSUME NEW k \in T PROVE k + 1 \in T
    <3>1. k \in Nat
      OBVIOUS
    <3>2. ASSUME k + 1 <= n PROVE At(buf, off, g[n - (k + 1)])
      <4>1. n - k \in 1 .. n /\ (n - k) - 1 = n - (k + 1)
        BY <3>1, <3>2
      <4>2. At(buf, off, g[n - k])
        BY <3>1, <3>2
      <4>3. At(buf, off, g[(n - k) - 1])
        BY <1>3, <4>1, <4>2
      <4> QED
        BY <4>1, <4>3
    <3> QED
      BY <3>1, <3>2
  <2> HIDE DEF T
  <2>3. T \in SUBSET Nat
    BY DEF T
  <2> QED
    BY <2>1, <2>2, <2>3, SetInduction
<1>5. ASSUME NEW i \in 0 .. n PROVE At(buf, off, g[i])
  <2>1. n - i \in Nat /\ n - i <= n /\ n - (n - i) = i
    OBVIOUS
  <2>2. n - i \in T
    BY <1>4, <2>1
  <2> QED
    BY <2>1, <2>2
<1> DEFINE pos == [i \in 0 .. n |-> off + Len(g[i])]
<1>6. pos \in [0 .. n -> Nat]
  BY <1>2
<1>7. ASSUME NEW i \in 1 .. n
      PROVE  pos[i] = pos[i - 1] + Len(ss[i]) /\ At(buf, pos[i - 1], ss[i])
  <2>1. i \in 0 .. n /\ i - 1 \in 0 .. n
    OBVIOUS
  <2>2. At(buf, off + Len(g[i - 1]), ss[i]) /\ Len(g[i]) = Len(g[i - 1]) + Len(ss[i])
    BY <1>3, <1>5, <2>1
  <2>3. pos[i] = off + Len(g[i]) /\ pos[i - 1] = off + Len(g[i - 1])
    BY <2>1
  <2>4. Len(ss[i]) \in Nat /\ Len(g[i - 1]) \in Nat
    BY <1>0, <1>2, <2>1, BytesProperty
  <2> HIDE DEF pos
  <2>5. pos[i] = pos[i - 1] + Len(ss[i])
    <3>a. PICK j \in Nat : j = Len(g[i - 1])
      BY <2>4
    <3>b. PICK k \in Nat : k = Len(ss[i])
      BY <2>4
    <3>1. off + (j + k) = (off + j) + k
      OBVIOUS
    <3> QED
      BY <2>2, <2>3, <3>1, <3>a, <3>b, Zenon
  <2>6. At(buf, pos[i - 1], ss[i])
    BY <2>2, <2>3, Zenon
  <2> QED
    BY <2>5, <2>6
<1>8. pos[0] = off
  <2>1. g[0] = <<>>
    BY <1>1 DEF Grows
  <2>2. Len(g[0]) = 0
    BY <2>1, EmptySeq
  <2> QED
    BY <2>2
<1>9. pos[n] = off + Len(FlattenSeq(ss))
  BY <1>1
<1> HIDE DEF pos
<1>10. LaidOut(buf, pos, ss)
  BY <1>6, <1>7 DEF LaidOut
<1> QED
  BY <1>8, <1>9, <1>10

-----------------------------------------------------------------------------
(* The header *)

\* The magic is four bytes.
LEMMA MagicProperty ==
  Magic \in Bytes /\ Len(Magic) = 4
<1>1. 3 \in Byte /\ 2 \in Byte /\ 5 \in Byte
  BY Widths DEF Byte
<1> QED
  BY <1>1 DEF Magic, Bytes

\* Types and version fit into a byte, and no two types share a number.
LEMMA FrameTypes ==
  /\ kProtocolVersion \in Byte
  /\ \A t \in DOMAIN FrameType : FrameType[t] \in Byte
  /\ \A t, u \in DOMAIN FrameType : FrameType[t] = FrameType[u] => t = u
<1>1. \A n \in 0 .. 7 : n \in Byte
  BY Widths DEF Byte
<1>2. /\ kProtocolVersion \in 0 .. 7
      /\ \A t \in DOMAIN FrameType : FrameType[t] \in 0 .. 7
  BY DEF FrameType, kProtocolVersion
<1>3. \A t, u \in DOMAIN FrameType : FrameType[t] = FrameType[u] => t = u
  BY DEF FrameType
<1> QED
  BY <1>1, <1>2, <1>3

\* A byte that is put stands as it is.
LEMMA PutByte ==
  ASSUME NEW v \in Byte
  PROVE  Put(1, v) \in Bytes /\ Len(Put(1, v)) = 1 /\ Put(1, v)[1] = v
<1>1. v \in Nat /\ v < Base
  BY Widths DEF Byte
<1>2. /\ Put(1, v) \in Bytes /\ Len(Put(1, v)) = 1
      /\ \A i \in 1 .. 1 : Put(1, v)[i] = Shifted(v, 1 - i) % Base
  BY <1>1, PutProperty
<1>3. 1 \in 1 .. 1 /\ 1 - 1 = 0
  OBVIOUS
<1>4. Put(1, v)[1] = Shifted(v, 0) % Base
  BY <1>2, <1>3
<1>5. Shifted(v, 0) = v /\ v % Base = v
  BY <1>1, ShiftedStep, Division
<1> QED
  BY <1>2, <1>4, <1>5

\* The header is as long as kHeaderSize says.
LEMMA HeaderProperty ==
  ASSUME NEW type \in DOMAIN FrameType, NEW flags \in Nat, NEW n \in Nat
  PROVE  /\ Header(type, flags, n) \in Bytes
         /\ Len(Header(type, flags, n)) = kHeaderSize
         /\ kHeaderSize \in Nat /\ kHeaderSize = 6 + U16 + U32
<1>1. Magic \in Bytes /\ Len(Magic) = 4
  BY MagicProperty
<1>. PICK a \in Bytes : a = Put(1, kProtocolVersion)
  BY FrameTypes, PutByte
<1>. PICK b \in Bytes : b = Put(1, FrameType[type])
  BY FrameTypes, PutByte
<1>. PICK c \in Bytes : c = Put(U16, flags)
  BY Widths, PutProperty
<1>. PICK d \in Bytes : d = Put(U32, n)
  BY Widths, PutProperty
<1>2. Len(a) = 1 /\ Len(b) = 1
  BY FrameTypes, PutByte
<1>3. Len(c) = U16 /\ Len(d) = U32
  BY Widths, PutProperty
<1>4. Magic \o a \in Bytes /\ Len(Magic \o a) = 5
  <2>1. Magic \o a \in Bytes /\ Len(Magic \o a) = Len(Magic) + Len(a)
    BY <1>1, ConcatLen, Zenon
  <2>2. 4 + 1 = 5
    OBVIOUS
  <2> QED
    BY <1>1, <1>2, <2>1, <2>2, Zenon
<1>5. (Magic \o a) \o b \in Bytes /\ Len((Magic \o a) \o b) = 6
  <2>1. /\ (Magic \o a) \o b \in Bytes
        /\ Len((Magic \o a) \o b) = Len(Magic \o a) + Len(b)
    BY <1>4, ConcatLen, Zenon
  <2>2. 5 + 1 = 6
    OBVIOUS
  <2> QED
    BY <1>2, <1>4, <2>1, <2>2, Zenon
<1>6. ((Magic \o a) \o b) \o c \in Bytes /\ Len(((Magic \o a) \o b) \o c) = 6 + U16
  <2>1. /\ ((Magic \o a) \o b) \o c \in Bytes
        /\ Len(((Magic \o a) \o b) \o c) = Len((Magic \o a) \o b) + Len(c)
    BY <1>5, ConcatLen, Zenon
  <2> QED
    BY <1>3, <1>5, <2>1
<1>7. /\ (((Magic \o a) \o b) \o c) \o d \in Bytes
      /\ Len((((Magic \o a) \o b) \o c) \o d) = 6 + U16 + U32
  <2>1. /\ (((Magic \o a) \o b) \o c) \o d \in Bytes
        /\ Len((((Magic \o a) \o b) \o c) \o d) = Len(((Magic \o a) \o b) \o c) + Len(d)
    BY <1>6, ConcatLen, Zenon
  <2> QED
    BY <1>3, <1>6, <2>1
<1>8. Header(type, flags, n) = (((Magic \o a) \o b) \o c) \o d
  BY DEF Header
<1>9. kHeaderSize = 6 + U16 + U32 /\ kHeaderSize \in Nat
  BY <1>1, Widths DEF kHeaderSize
<1> QED
  BY <1>7, <1>8, <1>9

\* decode_header() finds these values in buf.
HasHeader(buf, type, flags, n) ==
  /\ Len(buf) >= kHeaderSize
  /\ SubSeq(buf, 1, Len(Magic)) = Magic
  /\ buf[Len(Magic) + 1] = kProtocolVersion
  /\ HeaderType(buf) = FrameType[type]
  /\ HeaderFlags(buf) = flags
  /\ BodyLen(buf) = n

\* The header is decoded to what was encoded.
LEMMA HeaderRead ==
  ASSUME NEW type \in DOMAIN FrameType, NEW flags \in Word(U16), NEW n \in Word(U32),
         NEW buf \in Bytes, At(buf, 0, Header(type, flags, n))
  PROVE  HasHeader(buf, type, flags, n)
<1>0. flags \in Nat /\ n \in Nat
  BY DEF Word
<1>1. Magic \in Bytes /\ Len(Magic) = 4
  BY MagicProperty
<1>. PICK a \in Bytes : a = Put(1, kProtocolVersion)
  BY FrameTypes, PutByte
<1>. PICK b \in Bytes : b = Put(1, FrameType[type])
  BY FrameTypes, PutByte
<1>. PICK c \in Bytes : c = Put(U16, flags)
  BY <1>0, Widths, PutProperty
<1>. PICK d \in Bytes : d = Put(U32, n)
  BY <1>0, Widths, PutProperty
<1>2. Len(a) = 1 /\ Len(b) = 1 /\ a[1] = kProtocolVersion /\ b[1] = FrameType[type]
  BY FrameTypes, PutByte
<1>3. Len(c) = U16 /\ Len(d) = U32
  BY <1>0, Widths, PutProperty
<1>4. Magic \o a \in Bytes /\ Len(Magic \o a) = 5
  <2>1. Magic \o a \in Bytes /\ Len(Magic \o a) = Len(Magic) + Len(a)
    BY <1>1, ConcatLen, Zenon
  <2>2. 4 + 1 = 5
    OBVIOUS
  <2> QED
    BY <1>1, <1>2, <2>1, <2>2, Zenon
<1>5. (Magic \o a) \o b \in Bytes /\ Len((Magic \o a) \o b) = 6
  <2>1. /\ (Magic \o a) \o b \in Bytes
        /\ Len((Magic \o a) \o b) = Len(Magic \o a) + Len(b)
    BY <1>4, ConcatLen, Zenon
  <2>2. 5 + 1 = 6
    OBVIOUS
  <2> QED
    BY <1>2, <1>4, <2>1, <2>2, Zenon
<1>6. ((Magic \o a) \o b) \o c \in Bytes /\ Len(((Magic \o a) \o b) \o c) = 6 + U16
  <2>1. /\ ((Magic \o a) \o b) \o c \in Bytes
        /\ Len(((Magic \o a) \o b) \o c) = Len((Magic \o a) \o b) + Len(c)
    BY <1>5, ConcatLen, Zenon
  <2> QED
    BY <1>3, <1>5, <2>1
<1>7. At(buf, 0, (((Magic \o a) \o b) \o c) \o d)
  BY DEF Header
<1>8. At(buf, 0, ((Magic \o a) \o b) \o c) /\ At(buf, 6 + U16, d)
  <2>1. At(buf, 0, ((Magic \o a) \o b) \o c) /\ At(buf, 0 + (6 + U16), d)
    BY <1>6, <1>7, AtConcat
  <2>2. 0 + (6 + U16) = 6 + U16
    BY Widths
  <2> QED
    BY <2>1, <2>2
<1>9. At(buf, 0, (Magic \o a) \o b) /\ At(buf, 6, c)
  <2>1. At(buf, 0, (Magic \o a) \o b) /\ At(buf, 0 + 6, c)
    BY <1>5, <1>8, AtConcat
  <2> QED
    BY <2>1
<1>10. At(buf, 0, Magic \o a) /\ At(buf, 5, b)
  <2>1. At(buf, 0, Magic \o a) /\ At(buf, 0 + 5, b)
    BY <1>4, <1>9, AtConcat
  <2> QED
    BY <2>1
<1>11. At(buf, 0, Magic) /\ At(buf, 4, a)
  <2>1. At(buf, 0, Magic) /\ At(buf, 0 + 4, a)
    BY <1>1, <1>10, AtConcat
  <2> QED
    BY <2>1
<1>12. Len(buf) >= kHeaderSize
  <2>1. (6 + U16) + U32 <= Len(buf) /\ Len(buf) \in Nat
    BY <1>3, <1>8, BytesProperty DEF At
  <2> QED
    BY <1>1, <2>1, Widths DEF kHeaderSize
<1>13. SubSeq(buf, 1, Len(Magic)) = Magic
  <2>1. SubSeq(buf, 0 + 1, 0 + Len(Magic)) = Magic
    BY <1>1, <1>11, AtPart
  <2> QED
    BY <1>1, <2>1
<1>14. buf[5] = kProtocolVersion
  <2>1. buf[4 + 1] = a[1]
    BY <1>2, <1>11 DEF At
  <2> QED
    BY <1>2, <2>1
<1>15. buf[6] = FrameType[type]
  <2>1. buf[5 + 1] = b[1]
    BY <1>2, <1>10 DEF At
  <2> QED
    BY <1>2, <2>1
<1>16. Get(buf, 6, U16) = flags
  BY <1>9, Widths, GetPut
<1>17. Get(buf, 6 + U16, U32) = n
  <2>1. 6 + U16 \in Nat
    BY Widths
  <2> QED
    BY <1>8, <2>1, Widths, GetPut
<1>18. Len(Magic) + 1 = 5 /\ Len(Magic) + 2 = 6
  BY <1>1
<1>19. HeaderType(buf) = FrameType[type] /\ HeaderFlags(buf) = flags /\ BodyLen(buf) = n
  BY <1>15, <1>16, <1>17, <1>18 DEF HeaderType, HeaderFlags, BodyLen
<1> QED
  BY <1>12, <1>13, <1>14, <1>18, <1>19 DEF HasHeader

\* A frame: a header, and a body of the length that it states.
IsFrame(buf, type, flags, n) ==
  /\ type \in DOMAIN FrameType /\ flags \in Word(U16) /\ n \in Word(U32)
  /\ buf \in Bytes /\ Len(buf) = kHeaderSize + n
  /\ At(buf, 0, Header(type, flags, n))

\* decode_header() accepts a whole frame, and the body is all of the rest.
LEMMA WholeFrame ==
  ASSUME NEW buf, NEW type, NEW flags, NEW n, IsFrame(buf, type, flags, n)
  PROVE  /\ DecodeHeader(buf) /\ HasHeader(buf, type, flags, n)
         /\ Body(buf) \in Bytes /\ Len(Body(buf)) = n /\ n \in Nat
         /\ \A off \in Nat, s \in Bytes :
              At(buf, kHeaderSize + off, s) => At(Body(buf), off, s)
<1>0. /\ type \in DOMAIN FrameType /\ flags \in Word(U16) /\ n \in Word(U32)
      /\ buf \in Bytes /\ Len(buf) = kHeaderSize + n
      /\ At(buf, 0, Header(type, flags, n)) /\ n \in Nat /\ flags \in Nat
  BY DEF IsFrame, Word
<1>1. HasHeader(buf, type, flags, n)
  BY <1>0, HeaderRead
<1>2. kHeaderSize \in Nat
  BY <1>0, HeaderProperty
<1>3. BodyLen(buf) = n /\ Len(buf) - kHeaderSize >= n
  BY <1>0, <1>1, <1>2 DEF HasHeader
<1>4. DecodeHeader(buf)
  BY <1>1, <1>3 DEF DecodeHeader, HasHeader
<1>5. /\ kHeaderSize + n \in Nat /\ kHeaderSize <= kHeaderSize + n
      /\ kHeaderSize + n <= Len(buf) /\ (kHeaderSize + n) - kHeaderSize = n
  BY <1>0, <1>2
<1>6. Body(buf) = SubSeq(buf, kHeaderSize + 1, kHeaderSize + n)
  BY <1>3 DEF Body
<1>7. Body(buf) \in Bytes /\ Len(Body(buf)) = n
  BY <1>0, <1>2, <1>5, <1>6, BytesPart
<1>8. ASSUME NEW off \in Nat, NEW s \in Bytes, At(buf, kHeaderSize + off, s)
      PROVE  At(Body(buf), off, s)
  <2>1. kHeaderSize + off + Len(s) <= kHeaderSize + n
    BY <1>0, <1>8 DEF At
  <2> QED
    BY <1>0, <1>2, <1>5, <1>6, <1>8, <2>1, AtInPart
<1> QED
  BY <1>0, <1>1, <1>4, <1>7, <1>8

\* decode_header() refuses a frame that was cut, wherever it was.
LEMMA CutFrame ==
  ASSUME NEW buf, NEW type, NEW flags, NEW n, IsFrame(buf, type, flags, n),
         NEW k \in 0 .. (Len(buf) - 1)
  PROVE  ~ DecodeHeader(SubSeq(buf, 1, k))
<1>0. /\ type \in DOMAIN FrameType /\ flags \in Word(U16) /\ n \in Word(U32)
      /\ buf \in Bytes /\ Len(buf) = kHeaderSize + n
      /\ At(buf, 0, Header(type, flags, n)) /\ n \in Nat /\ flags \in Nat
  BY DEF IsFrame, Word
<1>1. /\ Header(type, flags, n) \in Bytes /\ Len(Header(type, flags, n)) = kHeaderSize
      /\ kHeaderSize \in Nat
  BY <1>0, HeaderProperty
<1>2. k \in Nat /\ 0 <= k /\ k <= Len(buf) /\ k < Len(buf) /\ Len(buf) \in Nat /\ k - 0 = k
  BY <1>0, <1>1
<1>. PICK cut : cut = SubSeq(buf, 1, k)
  OBVIOUS
<1>3. cut = SubSeq(buf, 0 + 1, k)
  OBVIOUS
<1>4. cut \in Bytes /\ Len(cut) = k
  BY <1>0, <1>2, <1>3, BytesPart
<1> SUFFICES ASSUME DecodeHeader(cut) PROVE FALSE
  OBVIOUS
<1>5. kHeaderSize <= k
  BY <1>4 DEF DecodeHeader
<1>6. At(cut, 0, Header(type, flags, n))
  <2>1. At(buf, 0 + 0, Header(type, flags, n)) /\ 0 + 0 + kHeaderSize <= k
    BY <1>0, <1>1, <1>2, <1>5
  <2> QED
    BY <1>0, <1>1, <1>2, <1>3, <2>1, AtInPart
<1>7. BodyLen(cut) = n
  <2>1. HasHeader(cut, type, flags, n)
    BY <1>0, <1>4, <1>6, HeaderRead
  <2> QED
    BY <2>1 DEF HasHeader
<1>8. k - kHeaderSize >= n
  BY <1>4, <1>7 DEF DecodeHeader
<1> QED
  BY <1>0, <1>1, <1>2, <1>8

-----------------------------------------------------------------------------
(* The trailer *)

TrailerType == [has_origin : BOOLEAN, origin_guid : Nat, origin_seq : Nat]

Entry == [type : Byte, value : Bytes]

IsEntries(es) == es \in Seq(Entry) /\ \A i \in 1 .. Len(es) : Len(es[i].value) \in Byte

\* An entry as put_tlv() writes it.
LEMMA TlvProperty ==
  ASSUME NEW e \in Entry, Len(e.value) \in Byte
  PROVE  /\ TlvBytes(e) \in Bytes /\ Len(TlvBytes(e)) = 2 + Len(e.value)
         /\ <<e.type, Len(e.value)>> \in Bytes /\ Len(<<e.type, Len(e.value)>>) = 2
         /\ e.type \in Byte /\ e.value \in Bytes /\ Len(e.value) \in Nat
<1>1. e.type \in Byte /\ e.value \in Bytes
  BY DEF Entry
<1>2. Len(e.value) \in Nat
  BY <1>1, BytesProperty
<1>. PICK a \in Byte : a = e.type
  BY <1>1
<1>. PICK b \in Byte : b = Len(e.value)
  OBVIOUS
<1>3. <<a, b>> \in Bytes /\ Len(<<a, b>>) = 2
  BY DEF Bytes
<1>4. <<a, b>> \o e.value \in Bytes /\ Len(<<a, b>> \o e.value) = Len(<<a, b>>) + Len(e.value)
  BY <1>1, <1>3, ConcatLen, Zenon
<1>5. TlvBytes(e) = <<a, b>> \o e.value
  BY DEF TlvBytes
<1>6. Len(TlvBytes(e)) = 2 + Len(e.value)
  BY <1>3, <1>4, <1>5, Zenon
<1> QED
  BY <1>1, <1>2, <1>3, <1>4, <1>5, <1>6

WithGuid(t, v) == [t EXCEPT !.has_origin = TRUE, !.origin_guid = v]
WithSeq(t, v) == [t EXCEPT !.origin_seq = v]

\* What TakeEntry() makes of an entry, by its type and length.
LEMMA TakeEntryCases ==
  ASSUME NEW t, NEW e
  PROVE  /\ (e.type = 1 /\ Len(e.value) = GuidSize) =>
              TakeEntry(t, e) = WithGuid(t, Get(e.value, 0, GuidSize))
         /\ (e.type = 2 /\ Len(e.value) = U64) =>
              TakeEntry(t, e) = WithSeq(t, Get(e.value, 0, U64))
         /\ (/\ ~ (e.type = 1 /\ Len(e.value) = GuidSize)
             /\ ~ (e.type = 2 /\ Len(e.value) = U64)) => TakeEntry(t, e) = t
<1>. PICK p \in BOOLEAN : p <=> (e.type = 1 /\ Len(e.value) = GuidSize)
  OBVIOUS
<1>. PICK q \in BOOLEAN : q <=> (e.type = 2 /\ Len(e.value) = U64)
  OBVIOUS
<1>1. ~ (p /\ q)
  OBVIOUS
<1>. PICK a : a = WithGuid(t, Get(e.value, 0, GuidSize))
  OBVIOUS
<1>. PICK b : b = WithSeq(t, Get(e.value, 0, U64))
  OBVIOUS
<1>2. TakeEntry(t, e) = CASE p -> a [] q -> b [] OTHER -> t
  BY DEF TakeEntry, kTlvOriginGuid, kTlvOriginSeq, WithGuid, WithSeq
<1>3. (p => TakeEntry(t, e) = a) /\ (q => TakeEntry(t, e) = b)
  BY <1>1, <1>2
<1>4. (~ p /\ ~ q) => TakeEntry(t, e) = t
  BY <1>2
<1> QED
  BY <1>3, <1>4

\* A trailer is a trailer after any entry.
LEMMA TakeEntryType ==
  ASSUME NEW t \in TrailerType, NEW e, e.value \in Bytes
  PROVE  TakeEntry(t, e) \in TrailerType
<1>1. ASSUME NEW w \in Nat, Len(e.value) = w PROVE Get(e.value, 0, w) \in Nat
  <2>1. 0 + w <= Len(e.value)
    BY <1>1
  <2> QED
    BY <1>1, <2>1, GetNatural
<1>2. CASE e.type = 1 /\ Len(e.value) = GuidSize
  <2>1. Get(e.value, 0, GuidSize) \in Nat
    BY <1>1, <1>2, Widths
  <2>2. TakeEntry(t, e) = WithGuid(t, Get(e.value, 0, GuidSize))
    BY <1>2, TakeEntryCases, Zenon
  <2> QED
    BY <2>1, <2>2 DEF TrailerType, WithGuid
<1>3. CASE e.type = 2 /\ Len(e.value) = U64
  <2>1. Get(e.value, 0, U64) \in Nat
    BY <1>1, <1>3, Widths
  <2>2. TakeEntry(t, e) = WithSeq(t, Get(e.value, 0, U64))
    BY <1>3, TakeEntryCases, Zenon
  <2> QED
    BY <2>1, <2>2 DEF TrailerType, WithSeq
<1>4. CASE /\ ~ (e.type = 1 /\ Len(e.value) = GuidSize)
           /\ ~ (e.type = 2 /\ Len(e.value) = U64)
  BY <1>4, TakeEntryCases, Zenon
<1> QED
  BY <1>2, <1>3, <1>4

\* The first entry of encode_trailer().
LEMMA TakeOriginGuid ==
  ASSUME NEW x, Len(x) = GuidSize
  PROVE  TakeEntry(NoTrailer, [type |-> 1, value |-> x])
           = [has_origin |-> TRUE, origin_guid |-> Get(x, 0, GuidSize), origin_seq |-> 0]
<1> DEFINE Names == {"has_origin", "origin_guid", "origin_seq"}
<1>1. PICK e : e = [type |-> 1, value |-> x]
  OBVIOUS
<1>2. e.type = 1 /\ e.value = x /\ Len(e.value) = GuidSize
  BY <1>1
<1>3. PICK v : v = Get(x, 0, GuidSize)
  OBVIOUS
<1>4. TakeEntry(NoTrailer, e) = WithGuid(NoTrailer, v)
  BY <1>2, <1>3, TakeEntryCases
<1>5. PICK u : u = WithGuid(NoTrailer, v)
  OBVIOUS
<1>6. PICK w : w = [has_origin |-> TRUE, origin_guid |-> v, origin_seq |-> 0]
  OBVIOUS
<1>7. DOMAIN u = Names /\ DOMAIN w = Names
  BY <1>5, <1>6 DEF WithGuid, NoTrailer
<1>8. /\ u["has_origin"] = w["has_origin"] /\ u["origin_guid"] = w["origin_guid"]
      /\ u["origin_seq"] = w["origin_seq"]
  BY <1>5, <1>6 DEF WithGuid, NoTrailer
<1>9. u = [i \in DOMAIN u |-> u[i]] /\ w = [i \in DOMAIN w |-> w[i]]
  BY <1>5, <1>6 DEF WithGuid
<1>10. u = w
  BY <1>7, <1>8, <1>9
<1> QED
  BY <1>1, <1>3, <1>4, <1>5, <1>6, <1>10

\* The second.
LEMMA TakeOriginSeq ==
  ASSUME NEW a, NEW y, Len(y) = U64
  PROVE  TakeEntry([has_origin |-> TRUE, origin_guid |-> a, origin_seq |-> 0],
                   [type |-> 2, value |-> y])
           = [has_origin |-> TRUE, origin_guid |-> a, origin_seq |-> Get(y, 0, U64)]
<1> DEFINE Names == {"has_origin", "origin_guid", "origin_seq"}
<1>1. PICK e : e = [type |-> 2, value |-> y]
  OBVIOUS
<1>2. e.type = 2 /\ e.value = y /\ Len(e.value) = U64
  BY <1>1
<1>3. PICK v : v = Get(y, 0, U64)
  OBVIOUS
<1>4. PICK t : t = [has_origin |-> TRUE, origin_guid |-> a, origin_seq |-> 0]
  OBVIOUS
<1>5. TakeEntry(t, e) = WithSeq(t, v)
  BY <1>2, <1>3, TakeEntryCases
<1>6. PICK u : u = WithSeq(t, v)
  OBVIOUS
<1>7. PICK w : w = [has_origin |-> TRUE, origin_guid |-> a, origin_seq |-> v]
  OBVIOUS
<1>8. DOMAIN u = Names /\ DOMAIN w = Names
  BY <1>4, <1>6, <1>7 DEF WithSeq
<1>9. /\ u["has_origin"] = w["has_origin"] /\ u["origin_guid"] = w["origin_guid"]
      /\ u["origin_seq"] = w["origin_seq"]
  BY <1>4, <1>6, <1>7 DEF WithSeq
<1>10. u = [i \in DOMAIN u |-> u[i]] /\ w = [i \in DOMAIN w |-> w[i]]
  BY <1>6, <1>7 DEF WithSeq
<1>11. u = w
  BY <1>8, <1>9, <1>10
<1> QED
  BY <1>1, <1>3, <1>4, <1>5, <1>6, <1>7, <1>11

IsTaken(g, t, es) ==
  g = [i \in 0 .. Len(es) |-> IF i = 0 THEN t ELSE TakeEntry(g[i - 1], es[i])]

\* g[i] is the trailer t after the first i of the entries.
Takes(g, t, es) ==
  g[0] = t /\ \A i \in 1 .. Len(es) : g[i] = TakeEntry(g[i - 1], es[i])

\* Entries are taken one by one.
LEMMA TakenProperty ==
  ASSUME NEW t \in TrailerType, NEW es \in Seq(Entry)
  PROVE  \E g : Takes(g, t, es) /\ Taken(t, es) = g[Len(es)]
<1>. PICK n \in Nat : n = Len(es)
  BY LenProperties
<1>0. \A i \in 1 .. n : es[i] \in Entry /\ es[i].value \in Bytes
  <2>1. \A i \in 1 .. n : es[i] \in Entry
    BY LenProperties
  <2>2. \A e \in Entry : e.value \in Bytes
    BY DEF Entry
  <2> QED
    BY <2>1, <2>2
<1> DEFINE step == [p \in (1 .. n) \X TrailerType |-> TakeEntry(p[2], es[p[1]])]
<1>1. \A i \in 1 .. n, x \in TrailerType : step[<<i, x>>] = TakeEntry(x, es[i])
  OBVIOUS
<1>2. \A i \in 1 .. n, x \in TrailerType : step[<<i, x>>] \in TrailerType
  BY <1>0, <1>1, TakeEntryType
<1> HIDE DEF step
<1>3. \E g \in [0 .. n -> TrailerType] : IsRecursion(g, n, t, step)
  BY <1>2, RecursionExists, Zenon
<1>4. PICK g \in [0 .. n -> TrailerType] : IsRecursion(g, n, t, step)
  BY <1>3
<1>5. ASSUME NEW i \in 0 .. n
      PROVE  g[i] = IF i = 0 THEN t ELSE TakeEntry(g[i - 1], es[i])
  <2>1. g[i] = IF i = 0 THEN t ELSE step[<<i, g[i - 1]>>]
    BY <1>4 DEF IsRecursion
  <2>2. CASE i # 0
    <3>1. i \in 1 .. n /\ i - 1 \in 0 .. n
      BY <2>2
    <3>2. g[i - 1] \in TrailerType
      BY <3>1
    <3> QED
      BY <1>1, <2>1, <2>2, <3>1, <3>2
  <2> QED
    BY <2>1, <2>2
<1>6. IsTaken(g, t, es)
  BY <1>5 DEF IsTaken
<1> DEFINE h == CHOOSE f : IsTaken(f, t, es)
<1>7. IsTaken(h, t, es)
  <2> HIDE DEF IsTaken
  <2> QED
    BY <1>6
<1>8. Taken(t, es) = h[n]
  BY DEF Taken, IsTaken
<1> HIDE DEF h
<1>9. h = [i \in 0 .. n |-> IF i = 0 THEN t ELSE TakeEntry(h[i - 1], es[i])]
  BY <1>7 DEF IsTaken
<1>10. \A i \in 0 .. n : h[i] = IF i = 0 THEN t ELSE TakeEntry(h[i - 1], es[i])
  BY <1>9
<1>11. Takes(h, t, es)
  BY <1>10 DEF Takes
<1> QED
  BY <1>8, <1>11

\* The trailer that a sender put is what its entries give.
LEMMA TrailerTaken ==
  ASSUME NEW t \in Trailers
  PROVE  /\ IsEntries(TrailerEntries(t)) /\ t \in TrailerType /\ NoTrailer \in TrailerType
         /\ \E g : /\ Takes(g, NoTrailer, TrailerEntries(t))
                   /\ g[Len(TrailerEntries(t))] = t
<1>0. NoTrailer \in TrailerType
  BY DEF NoTrailer, TrailerType
<1>1. CASE t = NoTrailer
  <2>1. TrailerEntries(t) = <<>>
    BY <1>1 DEF TrailerEntries, NoTrailer
  <2>2. IsEntries(<<>>)
    BY EmptySeq DEF IsEntries
  <2> DEFINE g == [i \in 0 .. 0 |-> NoTrailer]
  <2>3. Len(<<>>) = 0 /\ g[0] = NoTrailer
    BY EmptySeq
  <2>4. Takes(g, NoTrailer, <<>>)
    BY <2>3 DEF Takes
  <2> QED
    BY <1>0, <1>1, <2>1, <2>2, <2>3, <2>4
<1>2. CASE t # NoTrailer
  <2>1. t \in [has_origin : {TRUE}, origin_guid : Word(GuidSize), origin_seq : Word(U64)]
    BY <1>2 DEF Trailers
  <2>. PICK a \in Word(GuidSize) : a = t.origin_guid
    BY <2>1
  <2>. PICK b \in Word(U64) : b = t.origin_seq
    BY <2>1
  <2>2. t = [has_origin |-> TRUE, origin_guid |-> a, origin_seq |-> b]
    BY <2>1
  <2>3. a \in Nat /\ b \in Nat
    BY DEF Word
  <2>4. t \in TrailerType
    BY <2>2, <2>3 DEF TrailerType
  <2>. PICK x \in Bytes : x = Put(GuidSize, a)
    BY <2>3, Widths, PutProperty
  <2>. PICK y \in Bytes : y = Put(U64, b)
    BY <2>3, Widths, PutProperty
  <2>5. Len(x) = GuidSize /\ Len(y) = U64
    BY <2>3, Widths, PutProperty
  <2>6. Get(x, 0, GuidSize) = a /\ Get(y, 0, U64) = b
    <3>1. At(x, 0, x) /\ At(y, 0, y)
      BY AtStart
    <3> QED
      BY <3>1, Widths, GetPut
  <2>. PICK es : es = <<Tlv(kTlvOriginGuid, x), Tlv(kTlvOriginSeq, y)>>
    OBVIOUS
  <2>7. TrailerEntries(t) = es
    BY <2>2 DEF TrailerEntries
  <2>8. /\ es \in Seq(Entry) /\ Len(es) = 2
        /\ es[1] = [type |-> 1, value |-> x] /\ es[2] = [type |-> 2, value |-> y]
    <3>1. 1 \in Byte /\ 2 \in Byte
      BY Widths DEF Byte
    <3>2. [type |-> 1, value |-> x] \in Entry /\ [type |-> 2, value |-> y] \in Entry
      BY <3>1 DEF Entry
    <3>3. es = <<[type |-> 1, value |-> x], [type |-> 2, value |-> y]>>
      BY DEF Tlv, kTlvOriginGuid, kTlvOriginSeq
    <3> QED
      BY <3>2, <3>3
  <2>9. IsEntries(es)
    <3>1. es[1].value = x /\ es[2].value = y
      BY <2>8
    <3>2. Len(x) \in Byte /\ Len(y) \in Byte
      BY <2>5, Widths DEF Byte
    <3>3. \A i \in 1 .. 2 : i = 1 \/ i = 2
      OBVIOUS
    <3>4. \A i \in 1 .. 2 : Len(es[i].value) \in Byte
      BY <3>1, <3>2, <3>3
    <3> QED
      BY <2>8, <3>4 DEF IsEntries
  <2>. PICK mid : mid = [has_origin |-> TRUE, origin_guid |-> a, origin_seq |-> 0]
    OBVIOUS
  <2>10. TakeEntry(NoTrailer, es[1]) = mid
    BY <2>5, <2>6, <2>8, TakeOriginGuid, Zenon
  <2>11. TakeEntry(mid, es[2]) = t
    <3>1. TakeEntry([has_origin |-> TRUE, origin_guid |-> a, origin_seq |-> 0],
                    [type |-> 2, value |-> y])
            = [has_origin |-> TRUE, origin_guid |-> a, origin_seq |-> Get(y, 0, U64)]
      BY <2>5, TakeOriginSeq, Zenon
    <3> QED
      BY <2>2, <2>6, <2>8, <3>1, Zenon
  <2> DEFINE g == [i \in 0 .. 2 |-> IF i = 0 THEN NoTrailer ELSE IF i = 1 THEN mid ELSE t]
  <2>12. g[0] = NoTrailer /\ g[1] = mid /\ g[2] = t
    OBVIOUS
  <2> HIDE DEF g
  <2>13. \A i \in 1 .. 2 : g[i] = TakeEntry(g[i - 1], es[i])
    <3>1. g[1] = TakeEntry(g[1 - 1], es[1])
      BY <2>10, <2>12
    <3>2. g[2] = TakeEntry(g[2 - 1], es[2])
      BY <2>11, <2>12
    <3>3. \A i \in 1 .. 2 : i = 1 \/ i = 2
      OBVIOUS
    <3> QED
      BY <3>1, <3>2, <3>3
  <2>14. Takes(g, NoTrailer, es)
    BY <2>8, <2>12, <2>13 DEF Takes
  <2> QED
    BY <1>0, <2>4, <2>7, <2>8, <2>9, <2>12, <2>14
<1> QED
  BY <1>1, <1>2

\* One round of parse_trailer() over an entry that is there.
LEMMA ParseOne ==
  ASSUME NEW tail \in Bytes, NEW pos \in Nat, NEW t, NEW e \in Entry, Len(e.value) \in Byte,
         At(tail, pos, TlvBytes(e))
  PROVE  ParseEntry(tail, [pos |-> pos, out |-> t])
           = [pos |-> pos + Len(TlvBytes(e)), out |-> TakeEntry(t, e)]
<1>a. PICK len \in Nat : len = Len(e.value)
  BY TlvProperty
<1>b. PICK type : type = e.type
  OBVIOUS
<1>c. PICK value \in Bytes : value = e.value
  BY TlvProperty
<1>1. PICK head \in Bytes : head = <<type, len>> /\ Len(head) = 2
  BY <1>a, <1>b, TlvProperty
<1>2. head[1] = type /\ head[2] = len
  BY <1>1
<1>0. Len(TlvBytes(e)) = 2 + len /\ Len(tail) \in Nat /\ Len(value) = len
  BY <1>a, <1>c, TlvProperty, BytesProperty
<1>3. At(tail, pos, head \o value)
  BY <1>a, <1>b, <1>c, <1>1, Zenon DEF TlvBytes
<1>4. At(tail, pos, head) /\ At(tail, pos + Len(head), value)
  BY <1>3, AtConcat, Zenon
<1>5. At(tail, pos + 2, value)
  BY <1>1, <1>4, Zenon
<1>6. tail[pos + 1] = type /\ tail[pos + 2] = len
  <2>1. \A i \in 1 .. 2 : tail[pos + i] = head[i]
    BY <1>1, <1>4, Zenon DEF At
  <2> QED
    BY <1>2, <2>1
<1>7. pos + 2 + len <= Len(tail)
  BY <1>0, <1>5 DEF At
<1>8. ~ NoEntryAt(tail, pos)
  <2>1. ~ (pos + 2 > Len(tail)) /\ ~ (pos + 2 + len > Len(tail))
    BY <1>0, <1>7
  <2> QED
    BY <1>6, <2>1, Zenon DEF NoEntryAt
<1>9. SubSeq(tail, pos + 3, pos + 2 + len) = value
  <2>1. pos + 2 \in Nat /\ (pos + 2) + 1 = pos + 3
    OBVIOUS
  <2>2. SubSeq(tail, (pos + 2) + 1, (pos + 2) + Len(value)) = value
    BY <1>5, <2>1, AtPart, Zenon
  <2> QED
    BY <1>0, <2>1, <2>2, Zenon
<1>10. Tlv(type, value) = e
  BY <1>b, <1>c DEF Tlv, Entry
<1>11. PICK s : s = [pos |-> pos, out |-> t]
  OBVIOUS
<1>12. s.pos = pos /\ s.out = t
  BY <1>11
<1>13. ParseEntry(tail, s) = SkipEntry(tail, s)
  BY <1>8, <1>12, Zenon DEF ParseEntry
<1>14. SkipEntry(tail, s) = [pos |-> pos + 2 + len, out |-> TakeEntry(t, e)]
  BY <1>6, <1>9, <1>10, <1>12, Zenon DEF SkipEntry
<1>15. pos + 2 + len = pos + Len(TlvBytes(e))
  BY <1>0
<1> QED
  BY <1>11, <1>13, <1>14, <1>15, Zenon

ParseState == [pos : Nat, out : TrailerType]

IsParse(f, tail) ==
  f = [i \in 0 .. Len(tail) |->
         IF i = 0 THEN [pos |-> 0, out |-> NoTrailer] ELSE ParseEntry(tail, f[i - 1])]

\* f[i] is the state of parse_trailer() after i rounds.
Parses(f, tail) ==
  /\ f[0] = [pos |-> 0, out |-> NoTrailer]
  /\ \A i \in 1 .. Len(tail) : f[i] = ParseEntry(tail, f[i - 1])

\* A round leads from a state to a state.
LEMMA ParseEntryType ==
  ASSUME NEW tail \in Bytes, NEW s \in ParseState
  PROVE  ParseEntry(tail, s) \in ParseState
<1>1. CASE NoEntryAt(tail, s.pos)
  BY <1>1 DEF ParseEntry
<1>2. CASE ~ NoEntryAt(tail, s.pos)
  <2>a. PICK pos \in Nat : pos = s.pos
    BY DEF ParseState
  <2>b. PICK t \in TrailerType : t = s.out
    BY DEF ParseState
  <2>1. Len(tail) \in Nat /\ \A i \in 1 .. Len(tail) : tail[i] \in Byte
    BY BytesProperty
  <2>2. ~ (pos + 2 > Len(tail)) /\ ~ (pos + 2 + tail[pos + 2] > Len(tail))
    BY <1>2, <2>a DEF NoEntryAt
  <2>3. pos + 2 \in 1 .. Len(tail)
    BY <2>1, <2>2
  <2>c. PICK len \in Nat : len = tail[pos + 2]
    BY <2>1, <2>3, ByteIsWord
  <2>4. /\ pos + 2 \in Nat /\ pos + 2 + len \in Nat /\ pos + 2 <= pos + 2 + len
        /\ pos + 2 + len <= Len(tail) /\ (pos + 2) + 1 = pos + 3
    <3>1. ~ (pos + 2 + len > Len(tail)) /\ Len(tail) \in Nat
      BY <2>1, <2>2, <2>c
    <3> QED
      BY <3>1
  <2>5. SubSeq(tail, (pos + 2) + 1, pos + 2 + len) \in Bytes
    BY <2>4, BytesPart
  <2>d. PICK e : e = Tlv(tail[pos + 1], SubSeq(tail, pos + 3, pos + 2 + len))
    OBVIOUS
  <2>6. e.value \in Bytes
    BY <2>d, <2>4, <2>5 DEF Tlv
  <2>7. TakeEntry(t, e) \in TrailerType
    BY <2>6, TakeEntryType
  <2>8. ParseEntry(tail, s) = [pos |-> pos + 2 + len, out |-> TakeEntry(t, e)]
    BY <1>2, <2>a, <2>b, <2>c, <2>d, Zenon DEF ParseEntry, SkipEntry
  <2> QED
    BY <2>4, <2>7, <2>8 DEF ParseState
<1> QED
  BY <1>1, <1>2

\* The rounds of parse_trailer() exist.
LEMMA ParseEquation ==
  ASSUME NEW tail \in Bytes
  PROVE  \E f : Parses(f, tail) /\ ParseTrailer(tail) = f[Len(tail)].out
<1>. PICK n \in Nat : n = Len(tail)
  BY BytesProperty
<1>. PICK first : first = [pos |-> 0, out |-> NoTrailer]
  OBVIOUS
<1>0. first \in ParseState
  BY DEF ParseState, NoTrailer, TrailerType
<1> DEFINE step == [p \in (1 .. n) \X ParseState |-> ParseEntry(tail, p[2])]
<1>1. \A i \in 1 .. n, x \in ParseState : step[<<i, x>>] = ParseEntry(tail, x)
  OBVIOUS
<1>2. \A i \in 1 .. n, x \in ParseState : step[<<i, x>>] \in ParseState
  BY <1>1, ParseEntryType
<1> HIDE DEF step
<1>3. \E g \in [0 .. n -> ParseState] : IsRecursion(g, n, first, step)
  BY <1>0, <1>2, RecursionExists, Zenon
<1>4. PICK g \in [0 .. n -> ParseState] : IsRecursion(g, n, first, step)
  BY <1>3
<1>5. ASSUME NEW i \in 0 .. n
      PROVE  g[i] = IF i = 0 THEN first ELSE ParseEntry(tail, g[i - 1])
  <2>1. g[i] = IF i = 0 THEN first ELSE step[<<i, g[i - 1]>>]
    BY <1>4 DEF IsRecursion
  <2>2. CASE i # 0
    <3>1. i \in 1 .. n /\ i - 1 \in 0 .. n
      BY <2>2
    <3>2. g[i - 1] \in ParseState
      BY <3>1
    <3> QED
      BY <1>1, <2>1, <2>2, <3>1, <3>2
  <2> QED
    BY <2>1, <2>2
<1>6. IsParse(g, tail)
  <2>1. g = [i \in 0 .. n |-> IF i = 0 THEN first ELSE ParseEntry(tail, g[i - 1])]
    BY <1>5
  <2> QED
    BY <2>1, Zenon DEF IsParse
<1> DEFINE h == CHOOSE f : IsParse(f, tail)
<1>7. IsParse(h, tail)
  <2> HIDE DEF IsParse
  <2> QED
    BY <1>6
<1>8. ParseTrailer(tail) = h[n].out
  BY Zenon DEF ParseTrailer, IsParse
<1> HIDE DEF h
<1>9. h = [i \in 0 .. n |-> IF i = 0 THEN first ELSE ParseEntry(tail, h[i - 1])]
  BY <1>7, Zenon DEF IsParse
<1>10. \A i \in 0 .. n : h[i] = IF i = 0 THEN first ELSE ParseEntry(tail, h[i - 1])
  BY <1>9
<1>11. h[0] = first /\ \A i \in 1 .. n : h[i] = ParseEntry(tail, h[i - 1])
  BY <1>10
<1>12. Parses(h, tail)
  BY <1>11, Zenon DEF Parses
<1> QED
  BY <1>8, <1>12

\* The places of the parts follow each other.
LEMMA LaidOutOrder ==
  ASSUME NEW ss \in Seq(Bytes), NEW buf \in Bytes, NEW pos, LaidOut(buf, pos, ss),
         \A i \in 1 .. Len(ss) : Len(ss[i]) > 0
  PROVE  \A i \in 0 .. Len(ss) : pos[i] \in Nat /\ pos[0] + i <= pos[i]
<1>a. PICK n \in Nat : n = Len(ss)
  BY LenProperties
<1>0. \A i \in 1 .. n : Len(ss[i]) \in Nat /\ Len(ss[i]) > 0
  BY <1>a, LenProperties, BytesProperty
<1>1. /\ \A i \in 0 .. n : pos[i] \in Nat
      /\ \A i \in 1 .. n : pos[i] = pos[i - 1] + Len(ss[i])
  BY <1>a DEF LaidOut
<1> DEFINE T == {k \in Nat : k <= n => pos[0] + k <= pos[k]}
<1>2. 0 \in T
  <2>1. pos[0] \in Nat
    BY <1>1
  <2> QED
    BY <2>1
<1>3. ASSUME NEW k \in T PROVE k + 1 \in T
  <2>1. k \in Nat /\ (k + 1) - 1 = k
    OBVIOUS
  <2>2. ASSUME k + 1 <= n PROVE pos[0] + (k + 1) <= pos[k + 1]
    <3>1. k + 1 \in 1 .. n /\ k \in 0 .. n /\ 0 \in 0 .. n /\ pos[0] + k <= pos[k]
      BY <2>1, <2>2
    <3>2. pos[k + 1] = pos[k] + Len(ss[k + 1])
      BY <1>1, <2>1, <3>1
    <3>3. Len(ss[k + 1]) \in Nat /\ Len(ss[k + 1]) > 0 /\ pos[k] \in Nat /\ pos[0] \in Nat
      BY <1>0, <1>1, <3>1
    <3> QED
      BY <2>1, <3>1, <3>2, <3>3
  <2> QED
    BY <2>1, <2>2
<1>4. T = Nat
  <2> HIDE DEF T
  <2>1. T \in SUBSET Nat
    BY DEF T
  <2> QED
    BY <1>2, <1>3, <2>1, SetInduction
<1> QED
  BY <1>a, <1>1, <1>4

TlvParts(es) == [i \in DOMAIN es |-> TlvBytes(es[i])]

\* The parts of a trailer are bytes, and none is empty.
LEMMA TlvPartsProperty ==
  ASSUME NEW es, IsEntries(es)
  PROVE  /\ TlvParts(es) \in Seq(Bytes) /\ Len(TlvParts(es)) = Len(es) /\ Len(es) \in Nat
         /\ EncodeEntries(es) = FlattenSeq(TlvParts(es))
         /\ \A i \in 1 .. Len(es) : /\ TlvParts(es)[i] = TlvBytes(es[i])
                                    /\ Len(TlvParts(es)[i]) > 0
                                    /\ es[i] \in Entry /\ Len(es[i].value) \in Byte
<1>1. es \in Seq(Entry) /\ \A i \in 1 .. Len(es) : Len(es[i].value) \in Byte
  BY DEF IsEntries
<1>2. PICK n \in Nat : n = Len(es) /\ DOMAIN es = 1 .. n
  BY <1>1, LenProperties
<1>3. \A i \in 1 .. n : es[i] \in Entry
  BY <1>1, <1>2, LenProperties
<1>4. \A i \in 1 .. n :
        /\ TlvBytes(es[i]) \in Bytes /\ Len(TlvBytes(es[i])) = 2 + Len(es[i].value)
        /\ Len(es[i].value) \in Nat
  BY <1>1, <1>2, <1>3, TlvProperty
<1>5. TlvParts(es) = [i \in 1 .. n |-> TlvBytes(es[i])]
  BY <1>2 DEF TlvParts
<1>6. \A i \in 1 .. n : TlvParts(es)[i] = TlvBytes(es[i]) /\ Len(TlvParts(es)[i]) > 0
  BY <1>4, <1>5
<1>7. TlvParts(es) \in [1 .. n -> Bytes]
  BY <1>4, <1>5
<1>8. TlvParts(es) \in Seq(Bytes) /\ Len(TlvParts(es)) = n
  BY <1>7
<1> QED
  BY <1>1, <1>2, <1>3, <1>6, <1>8 DEF EncodeEntries, TlvParts

StateAt(pos, t) == [pos |-> pos, out |-> t]

\* After k rounds, parse_trailer() is at pos, with a trailer t.
Reaches(f, k, pos, t) == f[k] = StateAt(pos, t)

\* parse_trailer() goes over entries that are there, one in a round.
LEMMA ParseStage ==
  ASSUME NEW tail \in Bytes, NEW f, Parses(f, tail), NEW es, IsEntries(es),
         NEW pos, LaidOut(tail, pos, TlvParts(es)), NEW t, NEW g, Takes(g, t, es),
         NEW k \in Nat, k + Len(es) <= Len(tail), Reaches(f, k, pos[0], t)
  PROVE  Reaches(f, k + Len(es), pos[Len(es)], g[Len(es)])
<1>a. PICK n \in Nat : n = Len(es)
  BY TlvPartsProperty
<1>1. /\ \A i \in 0 .. n : pos[i] \in Nat
      /\ \A i \in 1 .. n : /\ pos[i] = pos[i - 1] + Len(TlvBytes(es[i]))
                           /\ At(tail, pos[i - 1], TlvBytes(es[i]))
                           /\ es[i] \in Entry /\ Len(es[i].value) \in Byte
  BY <1>a, TlvPartsProperty DEF LaidOut
<1>2. g[0] = t /\ \A i \in 1 .. n : g[i] = TakeEntry(g[i - 1], es[i])
  BY <1>a DEF Takes
<1>3. Len(tail) \in Nat /\ k + n <= Len(tail)
  BY <1>a, BytesProperty
<1> DEFINE T == {i \in Nat : i <= n => f[k + i] = StateAt(pos[i], g[i])}
<1>4. 0 \in T
  BY <1>2 DEF Reaches
<1>5. ASSUME NEW i \in T PROVE i + 1 \in T
  <2>1. i \in Nat
    OBVIOUS
  <2>2. ASSUME i + 1 <= n PROVE f[k + (i + 1)] = StateAt(pos[i + 1], g[i + 1])
    <3>1. /\ i + 1 \in 1 .. n /\ i \in 0 .. n /\ (i + 1) - 1 = i
          /\ k + (i + 1) \in 1 .. Len(tail) /\ (k + (i + 1)) - 1 = k + i
      BY <1>3, <2>1, <2>2
    <3>2. f[k + i] = StateAt(pos[i], g[i])
      BY <3>1
    <3>3. f[k + (i + 1)] = ParseEntry(tail, f[k + i])
      BY <3>1 DEF Parses
    <3>4. PICK e : e = es[i + 1]
      OBVIOUS
    <3>5. /\ pos[i] \in Nat /\ At(tail, pos[i], TlvBytes(e)) /\ e \in Entry
          /\ Len(e.value) \in Byte /\ pos[i + 1] = pos[i] + Len(TlvBytes(e))
      BY <1>1, <3>1, <3>4
    <3>6. ParseEntry(tail, [pos |-> pos[i], out |-> g[i]])
            = [pos |-> pos[i] + Len(TlvBytes(e)), out |-> TakeEntry(g[i], e)]
      BY <3>5, ParseOne
    <3>7. g[i + 1] = TakeEntry(g[i], e)
      BY <1>2, <3>1, <3>4
    <3> QED
      BY <3>2, <3>3, <3>5, <3>6, <3>7, Zenon DEF StateAt
  <2> QED
    BY <2>1, <2>2
<1>6. T = Nat
  <2> HIDE DEF T
  <2>1. T \in SUBSET Nat
    BY DEF T
  <2> QED
    BY <1>4, <1>5, <2>1, SetInduction
<1>7. f[k + n] = StateAt(pos[n], g[n])
  BY <1>6
<1> QED
  BY <1>a, <1>7 DEF Reaches

\* Where no entry is left, parse_trailer() is done.
LEMMA ParseRest ==
  ASSUME NEW tail \in Bytes, NEW f, Parses(f, tail), NEW k \in Nat, k <= Len(tail),
         NEW pos, NEW t, Reaches(f, k, pos, t), NoEntryAt(tail, pos)
  PROVE  Reaches(f, Len(tail), pos, t)
<1>a. PICK n \in Nat : n = Len(tail)
  BY BytesProperty
<1>1. ParseEntry(tail, StateAt(pos, t)) = StateAt(pos, t)
  <2>1. PICK s : s = StateAt(pos, t)
    OBVIOUS
  <2>2. s.pos = pos
    BY <2>1 DEF StateAt
  <2> QED
    BY <2>1, <2>2, Zenon DEF ParseEntry
<1> DEFINE T == {i \in Nat : k + i <= n => f[k + i] = StateAt(pos, t)}
<1>2. 0 \in T
  BY DEF Reaches
<1>3. ASSUME NEW i \in T PROVE i + 1 \in T
  <2>1. i \in Nat
    OBVIOUS
  <2>2. ASSUME k + (i + 1) <= n PROVE f[k + (i + 1)] = StateAt(pos, t)
    <3>1. /\ k + (i + 1) \in 1 .. n /\ (k + (i + 1)) - 1 = k + i /\ k + i <= n
      BY <2>1, <2>2
    <3>2. f[k + (i + 1)] = ParseEntry(tail, f[k + i])
      BY <1>a, <3>1 DEF Parses
    <3>3. f[k + i] = StateAt(pos, t)
      BY <3>1
    <3> QED
      BY <1>1, <3>2, <3>3, Zenon
  <2> QED
    BY <2>1, <2>2
<1>4. T = Nat
  <2> HIDE DEF T
  <2>1. T \in SUBSET Nat
    BY DEF T
  <2> QED
    BY <1>2, <1>3, <2>1, SetInduction
<1>5. n - k \in Nat /\ k + (n - k) = n
  BY <1>a
<1>6. f[n] = StateAt(pos, t)
  <2>1. k + (n - k) <= n
    BY <1>5
  <2>2. f[k + (n - k)] = StateAt(pos, t)
    BY <1>4, <1>5, <2>1, Zenon
  <2> QED
    BY <1>5, <2>2, Zenon
<1> QED
  BY <1>a, <1>6 DEF Reaches

\* Entries are bytes: at least as many as there are entries.
LEMMA EncodeEntriesBytes ==
  ASSUME NEW es, IsEntries(es)
  PROVE  /\ EncodeEntries(es) \in Bytes
         /\ Len(es) \in Nat /\ Len(es) <= Len(EncodeEntries(es))
<1>1. /\ TlvParts(es) \in Seq(Bytes) /\ Len(TlvParts(es)) = Len(es) /\ Len(es) \in Nat
      /\ EncodeEntries(es) = FlattenSeq(TlvParts(es))
      /\ \A i \in 1 .. Len(es) : Len(TlvParts(es)[i]) > 0
  BY TlvPartsProperty
<1>2. /\ FlattenSeq(TlvParts(es)) \in Bytes
      /\ (\A i \in 1 .. Len(TlvParts(es)) : Len(TlvParts(es)[i]) > 0)
           => Len(TlvParts(es)) <= Len(FlattenSeq(TlvParts(es)))
  BY <1>1, FlattenBytes, Zenon
<1> QED
  BY <1>1, <1>2, Zenon

\* Where entries are, each of them is.
LEMMA EntriesLaidOut ==
  ASSUME NEW es, IsEntries(es), NEW buf \in Bytes, NEW off \in Nat,
         At(buf, off, EncodeEntries(es))
  PROVE  \E pos : /\ LaidOut(buf, pos, TlvParts(es)) /\ pos[0] = off
                  /\ pos[Len(es)] = off + Len(EncodeEntries(es))
<1>1. /\ TlvParts(es) \in Seq(Bytes) /\ Len(TlvParts(es)) = Len(es)
      /\ EncodeEntries(es) = FlattenSeq(TlvParts(es))
  BY TlvPartsProperty
<1>2. At(buf, off, FlattenSeq(TlvParts(es)))
  BY <1>1, Zenon
<1>3. \E pos : /\ LaidOut(buf, pos, TlvParts(es)) /\ pos[0] = off
               /\ pos[Len(TlvParts(es))] = off + Len(FlattenSeq(TlvParts(es)))
  BY <1>1, <1>2, FlattenLaidOut, Zenon
<1> QED
  BY <1>1, <1>3, Zenon

\* parse_trailer() returns what the sender put, updated by the entries that
\* follow, whatever comes behind them.
LEMMA ParseTrailerProperty ==
  ASSUME NEW t \in Trailers, NEW es, IsEntries(es), NEW rest \in Bytes, NoEntryAt(rest, 0),
         NEW tail, tail = (EncodeTrailer(t) \o EncodeEntries(es)) \o rest
  PROVE  tail \in Bytes /\ ParseTrailer(tail) = Taken(t, es)
<1>1. PICK own : own = TrailerEntries(t)
  OBVIOUS
<1>2. IsEntries(own) /\ t \in TrailerType /\ NoTrailer \in TrailerType
  BY <1>1, TrailerTaken
<1>3. PICK g : Takes(g, NoTrailer, own) /\ g[Len(own)] = t
  BY <1>1, TrailerTaken
<1>4. PICK a \in Bytes : a = EncodeEntries(own)
  BY <1>2, EncodeEntriesBytes
<1>5. PICK b \in Bytes : b = EncodeEntries(es)
  BY EncodeEntriesBytes
<1>6. PICK m \in Nat : m = Len(own) /\ m <= Len(a)
  BY <1>2, <1>4, EncodeEntriesBytes
<1>7. PICK n \in Nat : n = Len(es) /\ n <= Len(b)
  BY <1>5, EncodeEntriesBytes
<1>8. tail = (a \o b) \o rest
  BY <1>1, <1>4, <1>5 DEF EncodeTrailer
<1>9. Len(a) \in Nat /\ Len(b) \in Nat /\ Len(rest) \in Nat
  BY BytesProperty
<1>10. a \o b \in Bytes /\ Len(a \o b) = Len(a) + Len(b)
  BY ConcatLen, Zenon
<1>11. tail \in Bytes /\ Len(tail) = Len(a \o b) + Len(rest)
  BY <1>8, <1>10, ConcatLen, Zenon
<1>12. At(tail, 0, tail)
  BY <1>11, AtStart
<1>13. At(tail, 0, a \o b) /\ At(tail, Len(a) + Len(b), rest)
  <2>1. At(tail, 0, a \o b) /\ At(tail, 0 + Len(a \o b), rest)
    BY <1>8, <1>10, <1>11, <1>12, AtConcat
  <2>2. 0 + Len(a \o b) = Len(a) + Len(b)
    BY <1>9, <1>10
  <2> QED
    BY <2>1, <2>2, Zenon
<1>14. At(tail, 0, a) /\ At(tail, Len(a), b)
  <2>1. At(tail, 0, a) /\ At(tail, 0 + Len(a), b)
    BY <1>11, <1>13, AtConcat
  <2>2. 0 + Len(a) = Len(a)
    BY <1>9
  <2> QED
    BY <2>1, <2>2, Zenon
<1>15. PICK p : LaidOut(tail, p, TlvParts(own)) /\ p[0] = 0 /\ p[m] = 0 + Len(a)
  <2>1. At(tail, 0, EncodeEntries(own))
    BY <1>4, <1>14, Zenon
  <2>2. \E pos : /\ LaidOut(tail, pos, TlvParts(own)) /\ pos[0] = 0
                 /\ pos[Len(own)] = 0 + Len(EncodeEntries(own))
    BY <1>2, <1>11, <2>1, EntriesLaidOut
  <2> QED
    BY <1>4, <1>6, <2>2, Zenon
<1>16. PICK q : LaidOut(tail, q, TlvParts(es)) /\ q[0] = Len(a) /\ q[n] = Len(a) + Len(b)
  <2>1. At(tail, Len(a), EncodeEntries(es))
    BY <1>5, <1>14, Zenon
  <2>2. \E pos : /\ LaidOut(tail, pos, TlvParts(es)) /\ pos[0] = Len(a)
                 /\ pos[Len(es)] = Len(a) + Len(EncodeEntries(es))
    BY <1>9, <1>11, <2>1, EntriesLaidOut, ZenonT(40)
  <2> QED
    BY <1>5, <1>7, <2>2, Zenon
<1>17. PICK h : Takes(h, t, es) /\ Taken(t, es) = h[n]
  <2>1. es \in Seq(Entry)
    BY DEF IsEntries
  <2>2. \E h : Takes(h, t, es) /\ Taken(t, es) = h[Len(es)]
    BY <1>2, <2>1, TakenProperty, Zenon
  <2> QED
    BY <1>7, <2>2, Zenon
<1>18. PICK f : Parses(f, tail) /\ ParseTrailer(tail) = f[Len(tail)].out
  BY <1>11, ParseEquation
<1>19. Len(tail) \in Nat /\ m <= Len(tail) /\ m + n <= Len(tail) /\ m + n \in Nat
  BY <1>6, <1>7, <1>9, <1>10, <1>11
<1>20. Reaches(f, m, p[m], t)
  <2>1. 0 + Len(own) <= Len(tail) /\ 0 + Len(own) = m
    BY <1>6, <1>19
  <2>2. Reaches(f, 0, p[0], NoTrailer)
    BY <1>15, <1>18, Zenon DEF Parses, StateAt, Reaches
  <2>3. 0 \in Nat
    OBVIOUS
  <2>4. Reaches(f, 0 + Len(own), p[Len(own)], g[Len(own)])
    BY <1>2, <1>3, <1>11, <1>15, <1>18, <2>1, <2>2, <2>3, ParseStage, Zenon
  <2> QED
    BY <1>3, <1>6, <2>1, <2>4, Zenon
<1>21. Reaches(f, m + n, q[n], h[n])
  <2>1. m + Len(es) <= Len(tail) /\ p[m] = q[0]
    BY <1>7, <1>9, <1>15, <1>16, <1>19
  <2>2. Reaches(f, m, q[0], t)
    BY <1>20, <2>1, Zenon
  <2>3. Reaches(f, m + Len(es), q[Len(es)], h[Len(es)])
    BY <1>11, <1>16, <1>17, <1>18, <2>1, <2>2, ParseStage, Zenon
  <2> QED
    BY <1>7, <2>3, Zenon
<1>22. NoEntryAt(tail, q[n])
  <2>1. PICK end \in Nat : end = Len(a) + Len(b)
    BY <1>9
  <2>2. Len(tail) = end + Len(rest)
    BY <1>10, <1>11, <2>1
  <2>3. CASE 0 + 2 > Len(rest)
    <3>1. end + 2 > Len(tail)
      BY <1>9, <2>2, <2>3
    <3> QED
      BY <1>16, <2>1, <3>1, Zenon DEF NoEntryAt
  <2>4. CASE ~ (0 + 2 > Len(rest))
    <3>1. 0 + 2 + rest[2] > Len(rest)
      BY <2>4 DEF NoEntryAt
    <3>2. 2 \in 1 .. Len(rest)
      BY <1>9, <2>4
    <3>3. tail[end + 2] = rest[2]
      BY <1>13, <2>1, <3>2 DEF At
    <3>4. rest[2] \in Nat
      BY <3>2, BytesProperty, ByteIsWord
    <3>5. PICK r \in Nat : r = rest[2]
      BY <3>4
    <3>6. end + 2 + r > Len(tail)
      <4>1. 0 + 2 + r > Len(rest)
        BY <3>1, <3>5, Zenon
      <4> QED
        BY <1>9, <2>2, <4>1
    <3> QED
      BY <1>16, <2>1, <3>3, <3>5, <3>6, Zenon DEF NoEntryAt
  <2> QED
    BY <2>3, <2>4
<1>23. Reaches(f, Len(tail), q[n], h[n])
  BY <1>11, <1>18, <1>19, <1>21, <1>22, ParseRest, Zenon
<1>24. StateAt(q[n], h[n]).out = h[n]
  BY DEF StateAt
<1> QED
  BY <1>11, <1>17, <1>18, <1>23, <1>24, Zenon DEF Reaches

-----------------------------------------------------------------------------
(* The fixed fields *)

FieldName(type, i) == Puts[type][i][1]
FieldWidth(type, i) == Puts[type][i][2]
FieldOffset(type, i) == Gets[type][FieldName(type, i)][1]

\* Each decoder gets a field from where its encoder has put it.
FieldTable(type, n) ==
  /\ n \in Nat /\ n > 0 /\ DOMAIN Puts[type] = 1 .. n
  /\ DOMAIN Gets[type] = {FieldName(type, i) : i \in 1 .. n}
  /\ \A i \in 1 .. n : /\ FieldWidth(type, i) \in Nat
                       /\ FieldWidth(type, i) = Gets[type][FieldName(type, i)][2]
  /\ FieldOffset(type, 1) = 0
  /\ \A i \in 1 .. (n - 1) :
       FieldOffset(type, i + 1) = FieldOffset(type, i) + FieldWidth(type, i)
  /\ FieldOffset(type, n) + FieldWidth(type, n) = FixedSize[type]

\* decode_data() and its encoder.
LEMMA DataFields ==
  FieldTable("DATA", 4)
<1>1. DOMAIN Puts["DATA"] = 1 .. 4
  BY DEF Puts
<1>2. /\ FieldName("DATA", 1) = "writer" /\ FieldWidth("DATA", 1) = GuidSize
      /\ FieldName("DATA", 2) = "seq" /\ FieldWidth("DATA", 2) = U64
      /\ FieldName("DATA", 3) = "pub_time_ms" /\ FieldWidth("DATA", 3) = U64
      /\ FieldName("DATA", 4) = "payload_len" /\ FieldWidth("DATA", 4) = U32
  BY DEF Puts, FieldName, FieldWidth
<1>3. DOMAIN Gets["DATA"] = {"writer", "seq", "pub_time_ms", "payload_len"}
  BY DEF Gets
<1>4. /\ Gets["DATA"]["writer"][1] = 0 /\ Gets["DATA"]["writer"][2] = GuidSize
      /\ Gets["DATA"]["seq"][1] = GuidSize /\ Gets["DATA"]["seq"][2] = U64
      /\ Gets["DATA"]["pub_time_ms"][1] = GuidSize + U64 /\ Gets["DATA"]["pub_time_ms"][2] = U64
      /\ Gets["DATA"]["payload_len"][1] = GuidSize + 2 * U64 /\ Gets["DATA"]["payload_len"][2] = U32
  BY DEF Gets
<1>5. FixedSize["DATA"] = GuidSize + 2 * U64 + U32
  BY DEF FixedSize
<1>6. /\ FieldOffset("DATA", 1) = 0
      /\ FieldOffset("DATA", 2) = GuidSize
      /\ FieldOffset("DATA", 3) = GuidSize + U64
      /\ FieldOffset("DATA", 4) = GuidSize + 2 * U64
  BY <1>2, <1>4 DEF FieldOffset
<1>7. /\ \A i \in 1 .. 4 : i = 1 \/ i = 2 \/ i = 3 \/ i = 4
      /\ \A i \in 1 .. (4 - 1) : i = 1 \/ i = 2 \/ i = 3
  OBVIOUS
<1>8. DOMAIN Gets["DATA"] = {FieldName("DATA", i) : i \in 1 .. 4}
  BY <1>2, <1>3, <1>7
<1>9. \A i \in 1 .. 4 : /\ FieldWidth("DATA", i) \in Nat
                       /\ FieldWidth("DATA", i) = Gets["DATA"][FieldName("DATA", i)][2]
  BY <1>2, <1>4, <1>7, Widths
<1>10. \A i \in 1 .. (4 - 1) :
         FieldOffset("DATA", i + 1) = FieldOffset("DATA", i) + FieldWidth("DATA", i)
  <2>1. FieldOffset("DATA", 1 + 1) = FieldOffset("DATA", 1) + FieldWidth("DATA", 1)
    BY <1>2, <1>6, Widths
  <2>2. FieldOffset("DATA", 2 + 1) = FieldOffset("DATA", 2) + FieldWidth("DATA", 2)
    BY <1>2, <1>6, Widths
  <2>3. FieldOffset("DATA", 3 + 1) = FieldOffset("DATA", 3) + FieldWidth("DATA", 3)
    BY <1>2, <1>6, Widths
  <2> QED
    BY <1>7, <2>1, <2>2, <2>3
<1>11. FieldOffset("DATA", 4) + FieldWidth("DATA", 4) = FixedSize["DATA"]
  BY <1>2, <1>5, <1>6, Widths
<1> QED
  BY <1>1, <1>6, <1>8, <1>9, <1>10, <1>11 DEF FieldTable

\* decode_data_frag() and its encoder.
LEMMA DataFragFields ==
  FieldTable("DATA_FRAG", 6)
<1>1. DOMAIN Puts["DATA_FRAG"] = 1 .. 6
  BY DEF Puts
<1>2. /\ FieldName("DATA_FRAG", 1) = "writer" /\ FieldWidth("DATA_FRAG", 1) = GuidSize
      /\ FieldName("DATA_FRAG", 2) = "seq" /\ FieldWidth("DATA_FRAG", 2) = U64
      /\ FieldName("DATA_FRAG", 3) = "pub_time_ms" /\ FieldWidth("DATA_FRAG", 3) = U64
      /\ FieldName("DATA_FRAG", 4) = "total_size" /\ FieldWidth("DATA_FRAG", 4) = U32
      /\ FieldName("DATA_FRAG", 5) = "frag_offset" /\ FieldWidth("DATA_FRAG", 5) = U32
      /\ FieldName("DATA_FRAG", 6) = "payload_len" /\ FieldWidth("DATA_FRAG", 6) = U32
  BY DEF Puts, FieldName, FieldWidth
<1>3. DOMAIN Gets["DATA_FRAG"] = {"writer", "seq", "pub_time_ms", "total_size", "frag_offset", "payload_len"}
  BY DEF Gets
<1>4. /\ Gets["DATA_FRAG"]["writer"][1] = 0 /\ Gets["DATA_FRAG"]["writer"][2] = GuidSize
      /\ Gets["DATA_FRAG"]["seq"][1] = GuidSize /\ Gets["DATA_FRAG"]["seq"][2] = U64
      /\ Gets["DATA_FRAG"]["pub_time_ms"][1] = GuidSize + U64
      /\ Gets["DATA_FRAG"]["pub_time_ms"][2] = U64
      /\ Gets["DATA_FRAG"]["total_size"][1] = GuidSize + 2 * U64
      /\ Gets["DATA_FRAG"]["total_size"][2] = U32
      /\ Gets["DATA_FRAG"]["frag_offset"][1] = GuidSize + 2 * U64 + U32
      /\ Gets["DATA_FRAG"]["frag_offset"][2] = U32
      /\ Gets["DATA_FRAG"]["payload_len"][1] = GuidSize + 2 * U64 + 2 * U32
      /\ Gets["DATA_FRAG"]["payload_len"][2] = U32
  BY DEF Gets
<1>5. FixedSize["DATA_FRAG"] = GuidSize + 2 * U64 + 3 * U32
  BY DEF FixedSize
<1>6. /\ FieldOffset("DATA_FRAG", 1) = 0
      /\ FieldOffset("DATA_FRAG", 2) = GuidSize
      /\ FieldOffset("DATA_FRAG", 3) = GuidSize + U64
      /\ FieldOffset("DATA_FRAG", 4) = GuidSize + 2 * U64
      /\ FieldOffset("DATA_FRAG", 5) = GuidSize + 2 * U64 + U32
      /\ FieldOffset("DATA_FRAG", 6) = GuidSize + 2 * U64 + 2 * U32
  BY <1>2, <1>4 DEF FieldOffset
<1>7. /\ \A i \in 1 .. 6 : i = 1 \/ i = 2 \/ i = 3 \/ i = 4 \/ i = 5 \/ i = 6
      /\ \A i \in 1 .. (6 - 1) : i = 1 \/ i = 2 \/ i = 3 \/ i = 4 \/ i = 5
  OBVIOUS
<1>8. DOMAIN Gets["DATA_FRAG"] = {FieldName("DATA_FRAG", i) : i \in 1 .. 6}
  BY <1>2, <1>3, <1>7
<1>9. \A i \in 1 .. 6 : /\ FieldWidth("DATA_FRAG", i) \in Nat
                       /\ FieldWidth("DATA_FRAG", i) = Gets["DATA_FRAG"][FieldName("DATA_FRAG", i)][2]
  BY <1>2, <1>4, <1>7, Widths
<1>10. \A i \in 1 .. (6 - 1) :
         FieldOffset("DATA_FRAG", i + 1) = FieldOffset("DATA_FRAG", i) + FieldWidth("DATA_FRAG", i)
  <2>1. FieldOffset("DATA_FRAG", 1 + 1) = FieldOffset("DATA_FRAG", 1) + FieldWidth("DATA_FRAG", 1)
    BY <1>2, <1>6, Widths
  <2>2. FieldOffset("DATA_FRAG", 2 + 1) = FieldOffset("DATA_FRAG", 2) + FieldWidth("DATA_FRAG", 2)
    BY <1>2, <1>6, Widths
  <2>3. FieldOffset("DATA_FRAG", 3 + 1) = FieldOffset("DATA_FRAG", 3) + FieldWidth("DATA_FRAG", 3)
    BY <1>2, <1>6, Widths
  <2>4. FieldOffset("DATA_FRAG", 4 + 1) = FieldOffset("DATA_FRAG", 4) + FieldWidth("DATA_FRAG", 4)
    BY <1>2, <1>6, Widths
  <2>5. FieldOffset("DATA_FRAG", 5 + 1) = FieldOffset("DATA_FRAG", 5) + FieldWidth("DATA_FRAG", 5)
    BY <1>2, <1>6, Widths
  <2> QED
    BY <1>7, <2>1, <2>2, <2>3, <2>4, <2>5
<1>11. FieldOffset("DATA_FRAG", 6) + FieldWidth("DATA_FRAG", 6) = FixedSize["DATA_FRAG"]
  BY <1>2, <1>5, <1>6, Widths
<1> QED
  BY <1>1, <1>6, <1>8, <1>9, <1>10, <1>11 DEF FieldTable

\* decode_acknack() and its encoder.
LEMMA AckNackFields ==
  FieldTable("ACKNACK", 4)
<1>1. DOMAIN Puts["ACKNACK"] = 1 .. 4
  BY DEF Puts
<1>2. /\ FieldName("ACKNACK", 1) = "reader" /\ FieldWidth("ACKNACK", 1) = GuidSize
      /\ FieldName("ACKNACK", 2) = "writer" /\ FieldWidth("ACKNACK", 2) = GuidSize
      /\ FieldName("ACKNACK", 3) = "base_seq" /\ FieldWidth("ACKNACK", 3) = U64
      /\ FieldName("ACKNACK", 4) = "bitmap" /\ FieldWidth("ACKNACK", 4) = U64
  BY DEF Puts, FieldName, FieldWidth
<1>3. DOMAIN Gets["ACKNACK"] = {"reader", "writer", "base_seq", "bitmap"}
  BY DEF Gets
<1>4. /\ Gets["ACKNACK"]["reader"][1] = 0 /\ Gets["ACKNACK"]["reader"][2] = GuidSize
      /\ Gets["ACKNACK"]["writer"][1] = GuidSize /\ Gets["ACKNACK"]["writer"][2] = GuidSize
      /\ Gets["ACKNACK"]["base_seq"][1] = 2 * GuidSize /\ Gets["ACKNACK"]["base_seq"][2] = U64
      /\ Gets["ACKNACK"]["bitmap"][1] = 2 * GuidSize + U64 /\ Gets["ACKNACK"]["bitmap"][2] = U64
  BY DEF Gets
<1>5. FixedSize["ACKNACK"] = 2 * GuidSize + 2 * U64
  BY DEF FixedSize
<1>6. /\ FieldOffset("ACKNACK", 1) = 0
      /\ FieldOffset("ACKNACK", 2) = GuidSize
      /\ FieldOffset("ACKNACK", 3) = 2 * GuidSize
      /\ FieldOffset("ACKNACK", 4) = 2 * GuidSize + U64
  BY <1>2, <1>4 DEF FieldOffset
<1>7. /\ \A i \in 1 .. 4 : i = 1 \/ i = 2 \/ i = 3 \/ i = 4
      /\ \A i \in 1 .. (4 - 1) : i = 1 \/ i = 2 \/ i = 3
  OBVIOUS
<1>8. DOMAIN Gets["ACKNACK"] = {FieldName("ACKNACK", i) : i \in 1 .. 4}
  BY <1>2, <1>3, <1>7
<1>9. \A i \in 1 .. 4 : /\ FieldWidth("ACKNACK", i) \in Nat
                       /\ FieldWidth("ACKNACK", i) = Gets["ACKNACK"][FieldName("ACKNACK", i)][2]
  BY <1>2, <1>4, <1>7, Widths
<1>10. \A i \in 1 .. (4 - 1) :
         FieldOffset("ACKNACK", i + 1) = FieldOffset("ACKNACK", i) + FieldWidth("ACKNACK", i)
  <2>1. FieldOffset("ACKNACK", 1 + 1) = FieldOffset("ACKNACK", 1) + FieldWidth("ACKNACK", 1)
    BY <1>2, <1>6, Widths
  <2>2. FieldOffset("ACKNACK", 2 + 1) = FieldOffset("ACKNACK", 2) + FieldWidth("ACKNACK", 2)
    BY <1>2, <1>6, Widths
  <2>3. FieldOffset("ACKNACK", 3 + 1) = FieldOffset("ACKNACK", 3) + FieldWidth("ACKNACK", 3)
    BY <1>2, <1>6, Widths
  <2> QED
    BY <1>7, <2>1, <2>2, <2>3
<1>11. FieldOffset("ACKNACK", 4) + FieldWidth("ACKNACK", 4) = FixedSize["ACKNACK"]
  BY <1>2, <1>5, <1>6, Widths
<1> QED
  BY <1>1, <1>6, <1>8, <1>9, <1>10, <1>11 DEF FieldTable

\* decode_heartbeat() and its encoder.
LEMMA HeartbeatFields ==
  FieldTable("HEARTBEAT", 3)
<1>1. DOMAIN Puts["HEARTBEAT"] = 1 .. 3
  BY DEF Puts
<1>2. /\ FieldName("HEARTBEAT", 1) = "writer" /\ FieldWidth("HEARTBEAT", 1) = GuidSize
      /\ FieldName("HEARTBEAT", 2) = "first_seq" /\ FieldWidth("HEARTBEAT", 2) = U64
      /\ FieldName("HEARTBEAT", 3) = "last_seq" /\ FieldWidth("HEARTBEAT", 3) = U64
  BY DEF Puts, FieldName, FieldWidth
<1>3. DOMAIN Gets["HEARTBEAT"] = {"writer", "first_seq", "last_seq"}
  BY DEF Gets
<1>4. /\ Gets["HEARTBEAT"]["writer"][1] = 0 /\ Gets["HEARTBEAT"]["writer"][2] = GuidSize
      /\ Gets["HEARTBEAT"]["first_seq"][1] = GuidSize /\ Gets["HEARTBEAT"]["first_seq"][2] = U64
      /\ Gets["HEARTBEAT"]["last_seq"][1] = GuidSize + U64 /\ Gets["HEARTBEAT"]["last_seq"][2] = U64
  BY DEF Gets
<1>5. FixedSize["HEARTBEAT"] = GuidSize + 2 * U64
  BY DEF FixedSize
<1>6. /\ FieldOffset("HEARTBEAT", 1) = 0
      /\ FieldOffset("HEARTBEAT", 2) = GuidSize
      /\ FieldOffset("HEARTBEAT", 3) = GuidSize + U64
  BY <1>2, <1>4 DEF FieldOffset
<1>7. /\ \A i \in 1 .. 3 : i = 1 \/ i = 2 \/ i = 3
      /\ \A i \in 1 .. (3 - 1) : i = 1 \/ i = 2
  OBVIOUS
<1>8. DOMAIN Gets["HEARTBEAT"] = {FieldName("HEARTBEAT", i) : i \in 1 .. 3}
  BY <1>2, <1>3, <1>7
<1>9. \A i \in 1 .. 3 : /\ FieldWidth("HEARTBEAT", i) \in Nat
                       /\ FieldWidth("HEARTBEAT", i) = Gets["HEARTBEAT"][FieldName("HEARTBEAT", i)][2]
  BY <1>2, <1>4, <1>7, Widths
<1>10. \A i \in 1 .. (3 - 1) :
         FieldOffset("HEARTBEAT", i + 1) = FieldOffset("HEARTBEAT", i) + FieldWidth("HEARTBEAT", i)
  <2>1. FieldOffset("HEARTBEAT", 1 + 1) = FieldOffset("HEARTBEAT", 1) + FieldWidth("HEARTBEAT", 1)
    BY <1>2, <1>6, Widths
  <2>2. FieldOffset("HEARTBEAT", 2 + 1) = FieldOffset("HEARTBEAT", 2) + FieldWidth("HEARTBEAT", 2)
    BY <1>2, <1>6, Widths
  <2> QED
    BY <1>7, <2>1, <2>2
<1>11. FieldOffset("HEARTBEAT", 3) + FieldWidth("HEARTBEAT", 3) = FixedSize["HEARTBEAT"]
  BY <1>2, <1>5, <1>6, Widths
<1> QED
  BY <1>1, <1>6, <1>8, <1>9, <1>10, <1>11 DEF FieldTable

\* decode_gap() and its encoder.
LEMMA GapFields ==
  FieldTable("GAP", 4)
<1>1. DOMAIN Puts["GAP"] = 1 .. 4
  BY DEF Puts
<1>2. /\ FieldName("GAP", 1) = "writer" /\ FieldWidth("GAP", 1) = GuidSize
      /\ FieldName("GAP", 2) = "reader" /\ FieldWidth("GAP", 2) = GuidSize
      /\ FieldName("GAP", 3) = "gap_start" /\ FieldWidth("GAP", 3) = U64
      /\ FieldName("GAP", 4) = "gap_end" /\ FieldWidth("GAP", 4) = U64
  BY DEF Puts, FieldName, FieldWidth
<1>3. DOMAIN Gets["GAP"] = {"writer", "reader", "gap_start", "gap_end"}
  BY DEF Gets
<1>4. /\ Gets["GAP"]["writer"][1] = 0 /\ Gets["GAP"]["writer"][2] = GuidSize
      /\ Gets["GAP"]["reader"][1] = GuidSize /\ Gets["GAP"]["reader"][2] = GuidSize
      /\ Gets["GAP"]["gap_start"][1] = 2 * GuidSize /\ Gets["GAP"]["gap_start"][2] = U64
      /\ Gets["GAP"]["gap_end"][1] = 2 * GuidSize + U64 /\ Gets["GAP"]["gap_end"][2] = U64
  BY DEF Gets
<1>5. FixedSize["GAP"] = 2 * GuidSize + 2 * U64
  BY DEF FixedSize
<1>6. /\ FieldOffset("GAP", 1) = 0
      /\ FieldOffset("GAP", 2) = GuidSize
      /\ FieldOffset("GAP", 3) = 2 * GuidSize
      /\ FieldOffset("GAP", 4) = 2 * GuidSize + U64
  BY <1>2, <1>4 DEF FieldOffset
<1>7. /\ \A i \in 1 .. 4 : i = 1 \/ i = 2 \/ i = 3 \/ i = 4
      /\ \A i \in 1 .. (4 - 1) : i = 1 \/ i = 2 \/ i = 3
  OBVIOUS
<1>8. DOMAIN Gets["GAP"] = {FieldName("GAP", i) : i \in 1 .. 4}
  BY <1>2, <1>3, <1>7
<1>9. \A i \in 1 .. 4 : /\ FieldWidth("GAP", i) \in Nat
                       /\ FieldWidth("GAP", i) = Gets["GAP"][FieldName("GAP", i)][2]
  BY <1>2, <1>4, <1>7, Widths
<1>10. \A i \in 1 .. (4 - 1) :
         FieldOffset("GAP", i + 1) = FieldOffset("GAP", i) + FieldWidth("GAP", i)
  <2>1. FieldOffset("GAP", 1 + 1) = FieldOffset("GAP", 1) + FieldWidth("GAP", 1)
    BY <1>2, <1>6, Widths
  <2>2. FieldOffset("GAP", 2 + 1) = FieldOffset("GAP", 2) + FieldWidth("GAP", 2)
    BY <1>2, <1>6, Widths
  <2>3. FieldOffset("GAP", 3 + 1) = FieldOffset("GAP", 3) + FieldWidth("GAP", 3)
    BY <1>2, <1>6, Widths
  <2> QED
    BY <1>7, <2>1, <2>2, <2>3
<1>11. FieldOffset("GAP", 4) + FieldWidth("GAP", 4) = FixedSize["GAP"]
  BY <1>2, <1>5, <1>6, Widths
<1> QED
  BY <1>1, <1>6, <1>8, <1>9, <1>10, <1>11 DEF FieldTable

\* The bytes of the fields, in the order of the encoder.
FieldParts(type, fields) ==
  [i \in DOMAIN Puts[type] |-> Put(Puts[type][i][2], fields[Puts[type][i][1]])]

\* Each field is bytes of its width.
LEMMA FieldPartsProperty ==
  ASSUME NEW type, NEW n, FieldTable(type, n), NEW fields, IsFields(type, fields)
  PROVE  /\ FieldParts(type, fields) \in Seq(Bytes) /\ Len(FieldParts(type, fields)) = n
         /\ \A i \in 1 .. n :
              /\ fields[FieldName(type, i)] \in Word(FieldWidth(type, i))
              /\ FieldParts(type, fields)[i]
                   = Put(FieldWidth(type, i), fields[FieldName(type, i)])
              /\ Len(FieldParts(type, fields)[i]) = FieldWidth(type, i)
<1>1. /\ n \in Nat /\ DOMAIN Puts[type] = 1 .. n
      /\ \A i \in 1 .. n : FieldWidth(type, i) \in Nat
  BY DEF FieldTable
<1>2. \A i \in 1 .. n : fields[FieldName(type, i)] \in Word(FieldWidth(type, i))
  BY <1>1 DEF IsFields, FieldName, FieldWidth
<1>3. FieldParts(type, fields) =
        [i \in 1 .. n |-> Put(FieldWidth(type, i), fields[FieldName(type, i)])]
  BY <1>1 DEF FieldParts, FieldName, FieldWidth
<1>4. \A i \in 1 .. n : fields[FieldName(type, i)] \in Nat
  BY <1>2 DEF Word
<1>5. \A i \in 1 .. n :
        /\ Put(FieldWidth(type, i), fields[FieldName(type, i)]) \in Bytes
        /\ Len(Put(FieldWidth(type, i), fields[FieldName(type, i)])) = FieldWidth(type, i)
  BY <1>1, <1>4, PutProperty
<1>6. FieldParts(type, fields) \in [1 .. n -> Bytes]
  BY <1>3, <1>5
<1>7. FieldParts(type, fields) \in Seq(Bytes) /\ Len(FieldParts(type, fields)) = n
  BY <1>1, <1>6
<1>8. \A i \in 1 .. n : FieldParts(type, fields)[i]
                          = Put(FieldWidth(type, i), fields[FieldName(type, i)])
  BY <1>3
<1> QED
  BY <1>2, <1>5, <1>7, <1>8

\* The fields stand where the decoder expects them.
LEMMA FieldPlaces ==
  ASSUME NEW type, NEW n, FieldTable(type, n), NEW fields, IsFields(type, fields),
         NEW buf, NEW pos, LaidOut(buf, pos, FieldParts(type, fields)), pos[0] = 0
  PROVE  /\ \A i \in 1 .. n : pos[i - 1] = FieldOffset(type, i)
         /\ pos[n] = FixedSize[type]
<1>1. /\ n \in Nat /\ n > 0 /\ FieldOffset(type, 1) = 0
      /\ \A i \in 1 .. (n - 1) :
           FieldOffset(type, i + 1) = FieldOffset(type, i) + FieldWidth(type, i)
      /\ FieldOffset(type, n) + FieldWidth(type, n) = FixedSize[type]
  BY DEF FieldTable
<1>2. ASSUME NEW i \in 1 .. n PROVE pos[i] = pos[i - 1] + FieldWidth(type, i)
  <2>a. PICK parts : parts = FieldParts(type, fields)
    OBVIOUS
  <2>1. Len(parts) = n /\ Len(parts[i]) = FieldWidth(type, i)
    <3>1. Len(FieldParts(type, fields)) = n
      BY FieldPartsProperty, Zenon
    <3>2. Len(FieldParts(type, fields)[i]) = FieldWidth(type, i)
      BY FieldPartsProperty
    <3> QED
      BY <2>a, <3>1, <3>2, Zenon
  <2>2. LaidOut(buf, pos, parts)
    BY <2>a
  <2>3. pos[i] = pos[i - 1] + Len(parts[i])
    BY <2>1, <2>2, Zenon DEF LaidOut
  <2> QED
    BY <2>1, <2>3, Zenon
<1> DEFINE T == {k \in Nat : k + 1 <= n => pos[k] = FieldOffset(type, k + 1)}
<1>3. 0 \in T
  <2>1. 0 + 1 = 1
    OBVIOUS
  <2> QED
    BY <1>1, <2>1
<1>4. ASSUME NEW k \in T PROVE k + 1 \in T
  <2>1. k \in Nat
    OBVIOUS
  <2>2. ASSUME (k + 1) + 1 <= n PROVE pos[k + 1] = FieldOffset(type, (k + 1) + 1)
    <3>1. k + 1 \in 1 .. (n - 1) /\ k + 1 \in 1 .. n /\ (k + 1) - 1 = k /\ k + 1 <= n
      BY <1>1, <2>1, <2>2
    <3>2. pos[k] = FieldOffset(type, k + 1)
      BY <3>1
    <3>3. pos[k + 1] = pos[k] + FieldWidth(type, k + 1)
      BY <1>2, <3>1
    <3>4. FieldOffset(type, (k + 1) + 1) = FieldOffset(type, k + 1) + FieldWidth(type, k + 1)
      BY <1>1, <3>1
    <3> QED
      BY <3>2, <3>3, <3>4, Zenon
  <2> QED
    BY <2>1, <2>2
<1>5. T = Nat
  <2> HIDE DEF T
  <2>1. T \in SUBSET Nat
    BY DEF T
  <2> QED
    BY <1>3, <1>4, <2>1, SetInduction
<1>6. ASSUME NEW i \in 1 .. n PROVE pos[i - 1] = FieldOffset(type, i)
  <2>1. i - 1 \in Nat /\ (i - 1) + 1 = i /\ (i - 1) + 1 <= n
    BY <1>1
  <2>2. pos[i - 1] = FieldOffset(type, (i - 1) + 1)
    BY <1>5, <2>1, Zenon
  <2> QED
    BY <2>1, <2>2, Zenon
<1>7. n \in 1 .. n
  BY <1>1
<1>8. pos[n] = FieldOffset(type, n) + FieldWidth(type, n)
  BY <1>2, <1>6, <1>7, Zenon
<1> QED
  BY <1>1, <1>6, <1>8

\* The fields take FixedSize bytes, and are decoded to what was encoded.
LEMMA FieldsDecoded ==
  ASSUME NEW type, NEW n, FieldTable(type, n), NEW fields, IsFields(type, fields),
         NEW m, m.type = type, m.fields = fields
  PROVE  /\ EncodeFields(m) \in Bytes /\ Len(EncodeFields(m)) = FixedSize[type]
         /\ FixedSize[type] \in Nat
         /\ \A body \in Bytes : At(body, 0, EncodeFields(m)) => DecodeFields(type, body) = fields
<1>a. PICK parts : parts = FieldParts(type, fields)
  OBVIOUS
<1>0. n \in Nat /\ n > 0 /\ DOMAIN Gets[type] = {FieldName(type, i) : i \in 1 .. n}
  BY DEF FieldTable
<1>1. parts \in Seq(Bytes) /\ Len(parts) = n
  BY <1>a, FieldPartsProperty, Zenon
<1>2. EncodeFields(m) = FlattenSeq(parts)
  BY <1>a, Zenon DEF EncodeFields, FieldParts
<1>3. EncodeFields(m) \in Bytes
  BY <1>1, <1>2, FlattenBytes
<1>4. ASSUME NEW buf \in Bytes, At(buf, 0, EncodeFields(m))
      PROVE  \E pos : /\ LaidOut(buf, pos, parts) /\ pos[0] = 0
                      /\ pos[n] = 0 + Len(EncodeFields(m))
                      /\ \A i \in 1 .. n : pos[i - 1] = FieldOffset(type, i)
                      /\ pos[n] = FixedSize[type]
  <2>1. 0 \in Nat /\ At(buf, 0, FlattenSeq(parts))
    BY <1>2, <1>4, Zenon
  <2>2. PICK pos : /\ LaidOut(buf, pos, parts) /\ pos[0] = 0
                   /\ pos[Len(parts)] = 0 + Len(FlattenSeq(parts))
    BY <1>1, <2>1, FlattenLaidOut
  <2>3. /\ \A i \in 1 .. n : pos[i - 1] = FieldOffset(type, i)
        /\ pos[n] = FixedSize[type]
    BY <1>a, <2>2, FieldPlaces
  <2> QED
    BY <1>1, <1>2, <2>2, <2>3, Zenon
<1>5. Len(EncodeFields(m)) = FixedSize[type] /\ FixedSize[type] \in Nat
  <2>1. At(EncodeFields(m), 0, EncodeFields(m))
    BY <1>3, AtStart
  <2>2. 0 + Len(EncodeFields(m)) = FixedSize[type]
    BY <1>3, <1>4, <2>1, Zenon
  <2>3. Len(EncodeFields(m)) \in Nat
    BY <1>3, BytesProperty
  <2> QED
    BY <2>2, <2>3
<1>6. ASSUME NEW body \in Bytes, At(body, 0, EncodeFields(m))
      PROVE  DecodeFields(type, body) = fields
  <2>1. PICK pos : /\ LaidOut(body, pos, parts)
                   /\ \A i \in 1 .. n : pos[i - 1] = FieldOffset(type, i)
    BY <1>4, <1>6
  <2>2. ASSUME NEW i \in 1 .. n
        PROVE  Get(body, FieldOffset(type, i), FieldWidth(type, i)) = fields[FieldName(type, i)]
    <3>1. pos[i - 1] = FieldOffset(type, i) /\ At(body, pos[i - 1], parts[i]) /\ pos[i - 1] \in Nat
      <4>1. i - 1 \in 0 .. n
        BY <1>0
      <4> QED
        BY <1>1, <2>1, <4>1 DEF LaidOut
    <3>2. /\ fields[FieldName(type, i)] \in Word(FieldWidth(type, i))
          /\ parts[i] = Put(FieldWidth(type, i), fields[FieldName(type, i)])
      BY <1>a, FieldPartsProperty
    <3>3. FieldWidth(type, i) \in Nat
      BY DEF FieldTable
    <3>4. /\ FieldOffset(type, i) \in Nat
          /\ At(body, FieldOffset(type, i), Put(FieldWidth(type, i), fields[FieldName(type, i)]))
      BY <3>1, <3>2, Zenon
    <3> QED
      BY <3>2, <3>3, <3>4, GetPut, Zenon
  <2>3. ASSUME NEW f \in DOMAIN Gets[type]
        PROVE  Get(body, Gets[type][f][1], Gets[type][f][2]) = fields[f]
    <3>1. PICK i \in 1 .. n : f = FieldName(type, i)
      BY <1>0
    <3>2. FieldOffset(type, i) = Gets[type][f][1] /\ FieldWidth(type, i) = Gets[type][f][2]
      BY <3>1 DEF FieldTable, FieldOffset
    <3> QED
      BY <2>2, <3>1, <3>2, Zenon
  <2>4. DecodeFields(type, body) = [f \in DOMAIN Gets[type] |-> fields[f]]
    BY <2>3 DEF DecodeFields
  <2>5. fields = [f \in DOMAIN Gets[type] |-> fields[f]]
    <3>1. DOMAIN Gets[type] = {Puts[type][i][1] : i \in DOMAIN Puts[type]}
      BY <1>0 DEF FieldTable, FieldName
    <3> QED
      BY <3>1, Zenon DEF IsFields
  <2> QED
    BY <2>4, <2>5, Zenon
<1> QED
  BY <1>3, <1>5, <1>6

-----------------------------------------------------------------------------
(* ANNOUNCE *)

\* Reader2 at pos, after reads that gave got.
Cursor(pos, got) == [ok |-> TRUE, pos |-> pos, got |-> got]

MovedTo(r, pos, got) == [r EXCEPT !.pos = pos, !.got = got]

WithGot(r, got) == [r EXCEPT !.got = got]

\* What a cursor consists of.
LEMMA CursorFields ==
  ASSUME NEW p, NEW q
  PROVE  Cursor(p, q).ok = TRUE /\ Cursor(p, q).pos = p /\ Cursor(p, q).got = q
BY DEF Cursor

\* Moving a cursor.
LEMMA CursorMoves ==
  ASSUME NEW p, NEW q, NEW x, NEW y
  PROVE  MovedTo(Cursor(p, q), x, y) = Cursor(x, y)
<1> DEFINE Names == {"ok", "pos", "got"}
<1>1. PICK u : u = MovedTo(Cursor(p, q), x, y)
  OBVIOUS
<1>2. PICK w : w = Cursor(x, y)
  OBVIOUS
<1>3. DOMAIN u = Names /\ DOMAIN w = Names
  BY <1>1, <1>2 DEF MovedTo, Cursor
<1>4. u["ok"] = w["ok"] /\ u["pos"] = w["pos"] /\ u["got"] = w["got"]
  BY <1>1, <1>2 DEF MovedTo, Cursor
<1>5. u = [i \in DOMAIN u |-> u[i]] /\ w = [i \in DOMAIN w |-> w[i]]
  BY <1>1, <1>2 DEF MovedTo, Cursor
<1>6. u = w
  BY <1>3, <1>4, <1>5
<1> QED
  BY <1>1, <1>2, <1>6

\* Starting a row at a cursor.
LEMMA CursorGot ==
  ASSUME NEW p, NEW q, NEW y
  PROVE  WithGot(Cursor(p, q), y) = Cursor(p, y)
<1> DEFINE Names == {"ok", "pos", "got"}
<1>1. PICK u : u = WithGot(Cursor(p, q), y)
  OBVIOUS
<1>2. PICK w : w = Cursor(p, y)
  OBVIOUS
<1>3. DOMAIN u = Names /\ DOMAIN w = Names
  BY <1>1, <1>2 DEF WithGot, Cursor
<1>4. u["ok"] = w["ok"] /\ u["pos"] = w["pos"] /\ u["got"] = w["got"]
  BY <1>1, <1>2 DEF WithGot, Cursor
<1>5. u = [i \in DOMAIN u |-> u[i]] /\ w = [i \in DOMAIN w |-> w[i]]
  BY <1>1, <1>2 DEF WithGot, Cursor
<1>6. u = w
  BY <1>3, <1>4, <1>5
<1> QED
  BY <1>1, <1>2, <1>6

\* The first i values of a row.
FirstOf(row, i) == [j \in 1 .. i |-> row[j]]

\* The next value is appended to those before it.
LEMMA FirstOfNext ==
  ASSUME NEW row, NEW i \in Nat
  PROVE  /\ FirstOf(row, 0) = <<>>
         /\ Append(FirstOf(row, i), row[i + 1]) = FirstOf(row, i + 1)
<1> DEFINE S == {row[j] : j \in 1 .. (i + 1)}
<1>1. \A j \in 1 .. (i + 1) : row[j] \in S
  OBVIOUS
<1>2. FirstOf(row, i) \in [1 .. i -> S] /\ FirstOf(row, i + 1) \in [1 .. (i + 1) -> S]
  <2>1. \A j \in 1 .. i : j \in 1 .. (i + 1)
    OBVIOUS
  <2> QED
    BY <1>1, <2>1 DEF FirstOf
<1>3. /\ FirstOf(row, i) \in Seq(S) /\ Len(FirstOf(row, i)) = i
      /\ FirstOf(row, i + 1) \in Seq(S) /\ Len(FirstOf(row, i + 1)) = i + 1
  <2> HIDE DEF S
  <2> QED
    BY <1>2
<1>4. FirstOf(row, 0) = <<>>
  BY DEF FirstOf
<1>a. PICK t : t = Append(FirstOf(row, i), row[i + 1])
  OBVIOUS
<1>5. i + 1 \in 1 .. (i + 1)
  OBVIOUS
<1>6. row[i + 1] \in S
  BY <1>1, <1>5
<1> HIDE DEF S
<1>7. /\ t \in Seq(S) /\ Len(t) = i + 1
      /\ \A j \in 1 .. i : t[j] = FirstOf(row, i)[j]
      /\ t[i + 1] = row[i + 1]
  BY <1>a, <1>3, <1>6, AppendProperties
<1>8. ASSUME NEW j \in 1 .. (i + 1) PROVE t[j] = FirstOf(row, i + 1)[j]
  <2>1. FirstOf(row, i + 1)[j] = row[j]
    BY DEF FirstOf
  <2>2. CASE j = i + 1
    BY <1>7, <2>1, <2>2, Zenon
  <2>3. CASE j # i + 1
    <3>1. j \in 1 .. i
      BY <2>3
    <3>2. FirstOf(row, i)[j] = row[j]
      BY <3>1 DEF FirstOf
    <3> QED
      BY <1>7, <2>1, <3>1, <3>2, Zenon
  <2> QED
    BY <2>2, <2>3
<1>9. t = FirstOf(row, i + 1)
  BY <1>3, <1>7, <1>8, SeqEqual
<1> QED
  BY <1>a, <1>4, <1>9, Zenon

\* A value that an item of a row can have.
IsItem(item, v) ==
  /\ item \in Nat
  /\ item = Str => v \in Bytes
  /\ item # Str => v \in Word(item)

\* An item is bytes, and at least one.
LEMMA ItemBytes ==
  ASSUME NEW item, NEW v, IsItem(item, v)
  PROVE  /\ PutItem(item, v) \in Bytes /\ Len(PutItem(item, v)) > 0
         /\ item = Str => Len(PutItem(item, v)) = U16 + Len(v)
         /\ item # Str => Len(PutItem(item, v)) = item
<1>0. U16 \in Nat /\ U16 > 0
  BY Widths
<1>1. CASE item = Str
  <2>1. v \in Bytes /\ Len(v) \in Nat
    BY <1>1, BytesProperty DEF IsItem
  <2>2. Put(U16, Len(v)) \in Bytes /\ Len(Put(U16, Len(v))) = U16
    BY <1>0, <2>1, PutProperty
  <2>3. PutItem(item, v) = Put(U16, Len(v)) \o v
    BY <1>1 DEF PutItem
  <2>4. PutItem(item, v) \in Bytes /\ Len(PutItem(item, v)) = U16 + Len(v)
    BY <2>1, <2>2, <2>3, ConcatLen, Zenon
  <2>5. U16 + Len(v) > 0
    BY <1>0, <2>1
  <2> QED
    BY <1>1, <2>4, <2>5
<1>2. CASE item # Str
  <2>1. item \in Nat /\ v \in Nat /\ item > 0
    BY <1>2 DEF IsItem, Word, Str
  <2>2. Put(item, v) \in Bytes /\ Len(Put(item, v)) = item
    BY <2>1, PutProperty
  <2>3. PutItem(item, v) = Put(item, v)
    BY <1>2 DEF PutItem
  <2> QED
    BY <1>2, <2>1, <2>2, <2>3
<1> QED
  BY <1>1, <1>2

\* Where an item starts, and how many bytes it takes.
ItemStart(p, item) == IF item = Str THEN p + U16 ELSE p

ItemWidth(body, p, item) ==
  CASE item # Str -> item
    [] item = Str /\ ItemStart(p, item) <= Len(body) -> Get(body, p, U16)
    [] OTHER -> 0

ItemValue(body, p, item) ==
  IF item = Str
  THEN SubSeq(body, ItemStart(p, item) + 1, ItemStart(p, item) + ItemWidth(body, p, item))
  ELSE Get(body, ItemStart(p, item), ItemWidth(body, p, item))

\* A number takes as many bytes as its type has, a string as many as it says.
LEMMA ItemWidthCases ==
  ASSUME NEW body, NEW p, NEW item
  PROVE  /\ item # Str => ItemStart(p, item) = p /\ ItemWidth(body, p, item) = item
         /\ item = Str => ItemStart(p, item) = p + U16
         /\ (item = Str /\ p + U16 <= Len(body)) => ItemWidth(body, p, item) = Get(body, p, U16)
<1>a. PICK a \in BOOLEAN : a <=> (item # Str)
  OBVIOUS
<1>b. PICK b \in BOOLEAN : b <=> (item = Str /\ ItemStart(p, item) <= Len(body))
  OBVIOUS
<1>1. ItemStart(p, item) = IF a THEN p ELSE p + U16
  BY <1>a DEF ItemStart
<1>2. ItemWidth(body, p, item) = CASE a -> item [] b -> Get(body, p, U16) [] OTHER -> 0
  BY <1>a, <1>b, Zenon DEF ItemWidth
<1>3. ~ (a /\ b)
  BY <1>a, <1>b
<1>4. /\ a => ItemWidth(body, p, item) = item
      /\ b => ItemWidth(body, p, item) = Get(body, p, U16)
  BY <1>2, <1>3
<1> QED
  BY <1>a, <1>b, <1>1, <1>3, <1>4

\* GetItem() by these.
LEMMA GetItemIs ==
  ASSUME NEW body, NEW r, NEW item
  PROVE  GetItem(body, r, item) =
           IF ~ r.ok \/ ItemStart(r.pos, item) + ItemWidth(body, r.pos, item) > Len(body)
           THEN [r EXCEPT !.ok = FALSE]
           ELSE MovedTo(r, ItemStart(r.pos, item) + ItemWidth(body, r.pos, item),
                        Append(r.got, ItemValue(body, r.pos, item)))
BY Zenon DEF GetItem, ItemStart, ItemWidth, ItemValue, MovedTo

\* A read inside the body moves the cursor behind the item.
LEMMA GetItemMoves ==
  ASSUME NEW body, NEW p, NEW q, NEW item,
         ~ (ItemStart(p, item) + ItemWidth(body, p, item) > Len(body))
  PROVE  GetItem(body, Cursor(p, q), item)
           = Cursor(ItemStart(p, item) + ItemWidth(body, p, item),
                    Append(q, ItemValue(body, p, item)))
<1>a. PICK r : r = Cursor(p, q)
  OBVIOUS
<1>1. r.ok = TRUE /\ r.pos = p /\ r.got = q
  BY <1>a DEF Cursor
<1>b. PICK x : x = ItemStart(p, item) + ItemWidth(body, p, item)
  OBVIOUS
<1>c. PICK y : y = Append(q, ItemValue(body, p, item))
  OBVIOUS
<1>2. GetItem(body, r, item) =
        IF ~ r.ok \/ x > Len(body) THEN [r EXCEPT !.ok = FALSE] ELSE MovedTo(r, x, y)
  BY <1>1, <1>b, <1>c, GetItemIs, Zenon
<1>3. ~ (x > Len(body))
  BY <1>b, Zenon
<1>4. GetItem(body, r, item) = MovedTo(r, x, y)
  BY <1>1, <1>2, <1>3, Zenon
<1>5. MovedTo(Cursor(p, q), x, y) = Cursor(x, y)
  BY CursorMoves
<1> QED
  BY <1>a, <1>b, <1>c, <1>4, <1>5, Zenon

\* An item that is at the cursor is read.
LEMMA ItemRead ==
  ASSUME NEW body \in Bytes, Len(body) <= MaxPayload, NEW p \in Nat, NEW q,
         NEW item, NEW v, IsItem(item, v), At(body, p, PutItem(item, v))
  PROVE  GetItem(body, Cursor(p, q), item) = Cursor(p + Len(PutItem(item, v)), Append(q, v))
<1>0. U16 \in Nat /\ MaxPayload \in Nat /\ MaxPayload \in Word(U16) /\ Len(body) \in Nat
  BY Widths, BytesProperty
<1>1. CASE item = Str
  <2>1. v \in Bytes /\ Len(v) \in Nat
    BY <1>1, BytesProperty DEF IsItem
  <2>a. PICK n \in Nat : n = Len(v)
    BY <2>1
  <2>2. Put(U16, n) \in Bytes /\ Len(Put(U16, n)) = U16
    BY <1>0, PutProperty
  <2>3. PutItem(item, v) = Put(U16, n) \o v
    BY <1>1, <2>a DEF PutItem
  <2>4. At(body, p, Put(U16, n)) /\ At(body, p + Len(Put(U16, n)), v)
    BY <2>1, <2>2, <2>3, AtConcat
  <2>5. At(body, p + U16, v) /\ p + U16 \in Nat
    BY <1>0, <2>2, <2>4
  <2>6. (p + U16) + n <= Len(body)
    BY <2>5, <2>a DEF At
  <2>7. n <= MaxPayload /\ p + U16 <= Len(body) /\ ~ (p + U16 + n > Len(body))
    BY <1>0, <2>6
  <2>8. n \in Word(U16)
    BY <1>0, <2>7, WordSmaller
  <2>9. Get(body, p, U16) = n
    BY <1>0, <2>4, <2>8, GetPut
  <2>10. SubSeq(body, (p + U16) + 1, (p + U16) + n) = v
    BY <2>1, <2>5, <2>a, AtPart
  <2>11. ItemStart(p, item) = p + U16 /\ ItemWidth(body, p, item) = n
    BY <1>1, <2>7, <2>9, ItemWidthCases, Zenon
  <2>12. ItemValue(body, p, item) = v
    BY <1>1, <2>10, <2>11, Zenon DEF ItemValue
  <2>13. GetItem(body, Cursor(p, q), item) = Cursor((p + U16) + n, Append(q, v))
    BY <2>7, <2>11, <2>12, GetItemMoves, Zenon
  <2>14. Len(PutItem(item, v)) = U16 + n /\ p + (U16 + n) = (p + U16) + n
    <3>1. Len(PutItem(item, v)) = U16 + n
      BY <1>1, <2>a, ItemBytes
    <3>2. p + (U16 + n) = (p + U16) + n
      BY <1>0
    <3> QED
      BY <3>1, <3>2
  <2> QED
    BY <2>13, <2>14, Zenon
<1>2. CASE item # Str
  <2>1. item \in Nat /\ v \in Word(item) /\ PutItem(item, v) = Put(item, v)
    BY <1>2 DEF IsItem, PutItem
  <2>2. Len(PutItem(item, v)) = item
    BY <1>2, ItemBytes
  <2>3. ~ (p + item > Len(body))
    BY <1>0, <2>1, <2>2 DEF At
  <2>4. Get(body, p, item) = v
    BY <2>1, GetPut
  <2>5. ItemStart(p, item) = p /\ ItemWidth(body, p, item) = item
    BY <1>2, ItemWidthCases, Zenon
  <2>6. ItemValue(body, p, item) = v
    BY <1>2, <2>4, <2>5, Zenon DEF ItemValue
  <2> QED
    <3>1. ~ (ItemStart(p, item) + ItemWidth(body, p, item) > Len(body))
      BY <2>3, <2>5, Zenon
    <3>2. GetItem(body, Cursor(p, q), item)
            = Cursor(ItemStart(p, item) + ItemWidth(body, p, item),
                     Append(q, ItemValue(body, p, item)))
      BY <3>1, GetItemMoves
    <3> QED
      BY <2>2, <2>5, <2>6, <3>2, Zenon
<1> QED
  BY <1>1, <1>2

\* The bytes of the values of a row.
ItemParts(items, row) == [i \in DOMAIN items |-> PutItem(items[i], row[i])]

\* Each value of a row is bytes.
LEMMA ItemPartsProperty ==
  ASSUME NEW items \in Seq(Nat), NEW row, IsRow(items, row)
  PROVE  /\ \A i \in 1 .. Len(items) : IsItem(items[i], row[i])
         /\ ItemParts(items, row) \in Seq(Bytes)
         /\ Len(ItemParts(items, row)) = Len(items)
         /\ \A i \in 1 .. Len(items) :
              /\ ItemParts(items, row)[i] = PutItem(items[i], row[i])
              /\ Len(ItemParts(items, row)[i]) > 0
<1>a. PICK n \in Nat : n = Len(items)
  BY LenProperties
<1>0. DOMAIN items = 1 .. n /\ \A i \in 1 .. n : items[i] \in Nat
  BY <1>a, LenProperties
<1>1. ASSUME NEW i \in 1 .. n PROVE IsItem(items[i], row[i])
  <2>1. row[i] \in (IF items[i] = Str THEN Bytes ELSE Word(items[i]))
    BY <1>0 DEF IsRow
  <2>2. items[i] \in Nat
    BY <1>0
  <2> QED
    BY <2>1, <2>2 DEF IsItem
<1>2. ItemParts(items, row) = [i \in 1 .. n |-> PutItem(items[i], row[i])]
  BY <1>0, Zenon DEF ItemParts
<1>3. \A i \in 1 .. n : PutItem(items[i], row[i]) \in Bytes /\ Len(PutItem(items[i], row[i])) > 0
  BY <1>1, ItemBytes
<1>4. ItemParts(items, row) \in [1 .. n -> Bytes]
  BY <1>2, <1>3
<1>5. ItemParts(items, row) \in Seq(Bytes) /\ Len(ItemParts(items, row)) = n
  BY <1>4
<1>6. \A i \in 1 .. n : ItemParts(items, row)[i] = PutItem(items[i], row[i])
  BY <1>2
<1> QED
  BY <1>a, <1>1, <1>3, <1>5, <1>6

IsRowRead(g, body, r, items) ==
  g = [i \in 0 .. Len(items) |->
         IF i = 0 THEN WithGot(r, <<>>) ELSE GetItem(body, g[i - 1], items[i])]

\* GetRow() is the last of its reads.
LEMMA GetRowIs ==
  ASSUME NEW body, NEW r, NEW items
  PROVE  GetRow(body, r, items) = (CHOOSE g : IsRowRead(g, body, r, items))[Len(items)]
BY Zenon DEF GetRow, IsRowRead, WithGot

\* GetRow() reads row from pos[0] to the last of pos.
ReadsRow(body, pos, items, row, q) ==
  GetRow(body, Cursor(pos[0], q), items) = Cursor(pos[Len(items)], row)

\* A row whose items are laid out behind the cursor is read.
LEMMA RowRead ==
  ASSUME NEW body \in Bytes, Len(body) <= MaxPayload, NEW items \in Seq(Nat),
         NEW row, IsRow(items, row), NEW pos, LaidOut(body, pos, ItemParts(items, row)),
         NEW q
  PROVE  ReadsRow(body, pos, items, row, q)
<1>a. PICK n \in Nat : n = Len(items)
  BY LenProperties
<1>b. PICK parts : parts = ItemParts(items, row)
  OBVIOUS
<1>c. PICK r : r = Cursor(pos[0], q)
  OBVIOUS
<1>1. /\ \A i \in 1 .. n : IsItem(items[i], row[i])
      /\ Len(parts) = n
      /\ \A i \in 1 .. n : parts[i] = PutItem(items[i], row[i])
  BY <1>a, <1>b, ItemPartsProperty
<1>2. LaidOut(body, pos, parts)
  BY <1>b
<1>3. /\ \A i \in 0 .. n : pos[i] \in Nat
      /\ \A i \in 1 .. n : pos[i] = pos[i - 1] + Len(parts[i]) /\ At(body, pos[i - 1], parts[i])
  BY <1>1, <1>2 DEF LaidOut
<1> DEFINE e == [i \in 0 .. n |-> Cursor(pos[i], FirstOf(row, i))]
<1>4. \A i \in 0 .. n : e[i] = Cursor(pos[i], FirstOf(row, i))
  OBVIOUS
<1>5. 0 \in 0 .. n /\ n \in 0 .. n
  BY <1>a
<1> HIDE DEF e
<1>6. e[0] = WithGot(r, <<>>)
  <2>1. e[0] = Cursor(pos[0], <<>>)
    BY <1>4, <1>5, FirstOfNext
  <2>2. WithGot(Cursor(pos[0], q), <<>>) = Cursor(pos[0], <<>>)
    BY CursorGot
  <2> QED
    BY <1>c, <2>1, <2>2, Zenon
<1>7. ASSUME NEW i \in 1 .. n PROVE e[i] = GetItem(body, e[i - 1], items[i])
  <2>1. i - 1 \in 0 .. n /\ i \in 0 .. n /\ (i - 1) + 1 = i /\ i - 1 \in Nat
    BY <1>a
  <2>2. e[i] = Cursor(pos[i], FirstOf(row, i)) /\ e[i - 1] = Cursor(pos[i - 1], FirstOf(row, i - 1))
    BY <1>4, <2>1, Zenon
  <2>3. pos[i - 1] \in Nat /\ At(body, pos[i - 1], PutItem(items[i], row[i]))
    BY <1>1, <1>3, <2>1
  <2>4. IsItem(items[i], row[i])
    BY <1>1
  <2>5. GetItem(body, Cursor(pos[i - 1], FirstOf(row, i - 1)), items[i])
          = Cursor(pos[i - 1] + Len(PutItem(items[i], row[i])), Append(FirstOf(row, i - 1), row[i]))
    BY <2>3, <2>4, ItemRead
  <2>6. pos[i - 1] + Len(PutItem(items[i], row[i])) = pos[i]
    BY <1>1, <1>3, Zenon
  <2>7. Append(FirstOf(row, i - 1), row[(i - 1) + 1]) = FirstOf(row, (i - 1) + 1)
    BY <2>1, FirstOfNext
  <2>8. Append(FirstOf(row, i - 1), row[i]) = FirstOf(row, i)
    BY <2>1, <2>7, Zenon
  <2> QED
    BY <2>2, <2>5, <2>6, <2>8, Zenon
<1>8. IsRowRead(e, body, r, items)
  <2>1. e = [i \in 0 .. n |-> e[i]]
    BY DEF e
  <2>2. \A i \in 0 .. n : i # 0 => i \in 1 .. n
    OBVIOUS
  <2>3. \A i \in 0 .. n :
          e[i] = IF i = 0 THEN WithGot(r, <<>>) ELSE GetItem(body, e[i - 1], items[i])
    BY <1>6, <1>7, <2>2, Zenon
  <2>4. e = [i \in 0 .. n |->
               IF i = 0 THEN WithGot(r, <<>>) ELSE GetItem(body, e[i - 1], items[i])]
    BY <2>1, <2>3
  <2> QED
    BY <1>a, <2>4, Zenon DEF IsRowRead
<1>d. PICK h : h = CHOOSE g : IsRowRead(g, body, r, items)
  OBVIOUS
<1>9. IsRowRead(h, body, r, items)
  BY <1>8, <1>d, Zenon
<1>10. /\ h[0] = WithGot(r, <<>>)
       /\ \A i \in 1 .. n : h[i] = GetItem(body, h[i - 1], items[i])
  <2>1. h = [i \in 0 .. n |->
               IF i = 0 THEN WithGot(r, <<>>) ELSE GetItem(body, h[i - 1], items[i])]
    BY <1>a, <1>9, Zenon DEF IsRowRead
  <2>2. \A i \in 0 .. n :
          h[i] = IF i = 0 THEN WithGot(r, <<>>) ELSE GetItem(body, h[i - 1], items[i])
    BY <2>1
  <2>3. \A i \in 1 .. n : i \in 0 .. n /\ i # 0
    OBVIOUS
  <2> QED
    BY <1>5, <2>2, <2>3, Zenon
<1>11. SameSteps(h, e, n)
  BY <1>6, <1>7, <1>10, Zenon DEF SameSteps
<1>12. h[n] = e[n]
  <2>1. Agree(h, e, n)
    BY <1>11, SameTrace, Zenon
  <2> QED
    BY <1>5, <2>1, Zenon DEF Agree
<1>13. GetRow(body, r, items) = h[n]
  BY <1>a, <1>d, GetRowIs, Zenon
<1>14. row = FirstOf(row, n)
  BY <1>a, Zenon DEF IsRow, FirstOf
<1>15. e[n] = Cursor(pos[n], row)
  BY <1>4, <1>5, <1>14, Zenon
<1> QED
  BY <1>a, <1>c, <1>12, <1>13, <1>15, Zenon DEF ReadsRow

\* An encoded row is bytes, and not empty.
LEMMA PutRowBytes ==
  ASSUME NEW items \in Seq(Nat), Len(items) > 0, NEW row, IsRow(items, row)
  PROVE  PutRow(items, row) \in Bytes /\ Len(PutRow(items, row)) > 0
<1>a. PICK parts : parts = ItemParts(items, row)
  OBVIOUS
<1>1. /\ parts \in Seq(Bytes) /\ Len(parts) = Len(items)
      /\ \A i \in 1 .. Len(parts) : Len(parts[i]) > 0
  BY <1>a, ItemPartsProperty
<1>2. PutRow(items, row) = FlattenSeq(parts)
  BY <1>a, Zenon DEF PutRow, ItemParts
<1>3. FlattenSeq(parts) \in Bytes /\ Len(parts) <= Len(FlattenSeq(parts))
  BY <1>1, FlattenBytes
<1>4. Len(FlattenSeq(parts)) \in Nat /\ Len(items) \in Nat
  BY <1>3, BytesProperty, LenProperties
<1> QED
  BY <1>1, <1>2, <1>3, <1>4

\* An encoded row behind the cursor is read.
LEMMA RowAt ==
  ASSUME NEW body \in Bytes, Len(body) <= MaxPayload, NEW items \in Seq(Nat),
         NEW row, IsRow(items, row), NEW p \in Nat, At(body, p, PutRow(items, row)), NEW q
  PROVE  GetRow(body, Cursor(p, q), items) = Cursor(p + Len(PutRow(items, row)), row)
<1>a. PICK parts : parts = ItemParts(items, row)
  OBVIOUS
<1>1. parts \in Seq(Bytes) /\ Len(parts) = Len(items)
  BY <1>a, ItemPartsProperty
<1>2. PutRow(items, row) = FlattenSeq(parts)
  BY <1>a, Zenon DEF PutRow, ItemParts
<1>3. At(body, p, FlattenSeq(parts))
  BY <1>2
<1>4. PICK pos : /\ LaidOut(body, pos, parts) /\ pos[0] = p
                 /\ pos[Len(parts)] = p + Len(FlattenSeq(parts))
  BY <1>1, <1>3, FlattenLaidOut
<1>5. LaidOut(body, pos, ItemParts(items, row))
  BY <1>4, <1>a
<1>6. GetRow(body, Cursor(pos[0], q), items) = Cursor(pos[Len(items)], row)
  <2>1. ReadsRow(body, pos, items, row, q)
    BY <1>5, RowRead
  <2> QED
    BY <2>1, Zenon DEF ReadsRow
<1> QED
  BY <1>1, <1>2, <1>4, <1>6, Zenon

\* GetNextRow() by GetRow().
LEMMA GetNextRowIs ==
  ASSUME NEW body, NEW r, NEW items
  PROVE  GetNextRow(body, r, items)
           = WithGot(GetRow(body, r, items), Append(r.got, GetRow(body, r, items).got))
BY Zenon DEF GetNextRow, WithGot

\* One more row.
LEMMA NextRowAt ==
  ASSUME NEW body \in Bytes, Len(body) <= MaxPayload, NEW items \in Seq(Nat),
         NEW row, IsRow(items, row), NEW p \in Nat, At(body, p, PutRow(items, row)), NEW q
  PROVE  GetNextRow(body, Cursor(p, q), items)
           = Cursor(p + Len(PutRow(items, row)), Append(q, row))
<1>a. PICK r : r = Cursor(p, q)
  OBVIOUS
<1>b. PICK x : x = p + Len(PutRow(items, row))
  OBVIOUS
<1>c. PICK y : y = Append(q, row)
  OBVIOUS
<1>1. r.got = q
  BY <1>a, SMT DEF Cursor
<1>2. GetRow(body, r, items) = Cursor(x, row)
  BY <1>a, <1>b, RowAt
<1>3. Cursor(x, row).got = row
  BY SMT DEF Cursor
<1>4. GetNextRow(body, r, items) = WithGot(Cursor(x, row), y)
  BY <1>1, <1>2, <1>3, <1>c, GetNextRowIs, Zenon
<1>5. WithGot(Cursor(x, row), y) = Cursor(x, y)
  BY CursorGot
<1> QED
  BY <1>a, <1>b, <1>c, <1>4, <1>5, Zenon

\* The bytes of the rows of a list.
RowParts(items, rows) == [i \in DOMAIN rows |-> PutRow(items, rows[i])]

\* Each row is bytes, and the list has no more rows than bytes.
LEMMA RowPartsProperty ==
  ASSUME NEW items \in Seq(Nat), Len(items) > 0, NEW rows, IsList(items, rows)
  PROVE  /\ Len(rows) \in Nat /\ rows = FirstOf(rows, Len(rows))
         /\ \A i \in 1 .. Len(rows) : IsRow(items, rows[i])
         /\ RowParts(items, rows) \in Seq(Bytes)
         /\ Len(RowParts(items, rows)) = Len(rows)
         /\ \A i \in 1 .. Len(rows) : RowParts(items, rows)[i] = PutRow(items, rows[i])
         /\ FlattenSeq(RowParts(items, rows)) \in Bytes
         /\ Len(rows) <= Len(FlattenSeq(RowParts(items, rows)))
<1>0. rows \in Seq(Range(rows)) /\ \A i \in DOMAIN rows : IsRow(items, rows[i])
  BY DEF IsList
<1>a. PICK S : S = Range(rows)
  OBVIOUS
<1>1. rows \in Seq(S)
  BY <1>0, <1>a
<1>b. PICK n \in Nat : n = Len(rows)
  BY <1>1, LenProperties
<1>2. DOMAIN rows = 1 .. n /\ rows = [i \in 1 .. n |-> rows[i]]
  BY <1>1, <1>b, LenProperties
<1>3. \A i \in 1 .. n : IsRow(items, rows[i])
  BY <1>0, <1>2
<1>4. \A i \in 1 .. n : PutRow(items, rows[i]) \in Bytes /\ Len(PutRow(items, rows[i])) > 0
  BY <1>3, PutRowBytes
<1>c. PICK parts : parts = RowParts(items, rows)
  OBVIOUS
<1>5. parts = [i \in 1 .. n |-> PutRow(items, rows[i])]
  BY <1>2, <1>c, Zenon DEF RowParts
<1>6. parts \in [1 .. n -> Bytes]
  BY <1>4, <1>5
<1>7. parts \in Seq(Bytes) /\ Len(parts) = n
  BY <1>6
<1>8. \A i \in 1 .. n : parts[i] = PutRow(items, rows[i])
  BY <1>5
<1>9. FlattenSeq(parts) \in Bytes /\ Len(parts) <= Len(FlattenSeq(parts))
  <2>1. \A i \in 1 .. Len(parts) : Len(parts[i]) > 0
    BY <1>4, <1>7, <1>8
  <2> QED
    BY <1>7, <2>1, FlattenBytes
<1>10. rows = FirstOf(rows, n)
  BY <1>2, Zenon DEF FirstOf
<1> QED
  BY <1>b, <1>c, <1>3, <1>7, <1>8, <1>9, <1>10

\* A count is read.
LEMMA CountRead ==
  ASSUME NEW body \in Bytes, Len(body) <= MaxPayload, NEW p \in Nat, NEW n \in Word(U16),
         At(body, p, Put(U16, n)), NEW q
  PROVE  GetRow(body, Cursor(p, q), <<U16>>) = Cursor(p + U16, <<n>>)
<1>0. U16 \in Nat /\ U16 # Str /\ n \in Nat
  BY Widths DEF Str, Word
<1>a. PICK items : items = <<U16>>
  OBVIOUS
<1>b. PICK row : row = <<n>>
  OBVIOUS
<1>1. /\ items \in Seq(Nat) /\ Len(items) = 1 /\ DOMAIN items = 1 .. 1 /\ items[1] = U16
      /\ row[1] = n /\ row = [i \in 1 .. Len(items) |-> row[i]]
  BY <1>0, <1>a, <1>b
<1>2. IsRow(items, row)
  <2>1. \A i \in 1 .. 1 : i = 1
    OBVIOUS
  <2>2. \A i \in DOMAIN items : row[i] \in (IF items[i] = Str THEN Bytes ELSE Word(items[i]))
    BY <1>0, <1>1, <2>1
  <2> QED
    BY <1>1, <2>2 DEF IsRow
<1>c. PICK parts : parts = ItemParts(items, row)
  OBVIOUS
<1>3. Len(parts) = 1 /\ parts[1] = Put(U16, n) /\ Len(parts[1]) = U16
  <2>1. 1 \in 1 .. Len(items)
    BY <1>1
  <2>2. Len(parts) = 1 /\ parts[1] = PutItem(items[1], row[1])
    BY <1>1, <1>2, <1>c, <2>1, ItemPartsProperty
  <2>3. PutItem(items[1], row[1]) = Put(U16, n)
    BY <1>0, <1>1 DEF PutItem
  <2>4. Len(Put(U16, n)) = U16
    BY <1>0, PutProperty
  <2> QED
    BY <2>2, <2>3, <2>4
<1> DEFINE f == [i \in 0 .. 1 |-> IF i = 0 THEN p ELSE p + U16]
<1>4. f[0] = p /\ f[1] = p + U16 /\ f \in [0 .. 1 -> Nat]
  BY <1>0
<1>d. PICK pos : pos = f
  OBVIOUS
<1>5. pos[0] = p /\ pos[1] = p + U16 /\ pos \in [0 .. 1 -> Nat]
  BY <1>4, <1>d
<1> HIDE DEF f
<1>6. LaidOut(body, pos, parts)
  <2>1. \A i \in 1 .. 1 : i = 1 /\ i - 1 = 0
    OBVIOUS
  <2>2. pos[1] = pos[0] + Len(parts[1]) /\ At(body, pos[0], parts[1])
    BY <1>3, <1>5, Zenon
  <2>3. \A i \in 1 .. 1 : pos[i] = pos[i - 1] + Len(parts[i]) /\ At(body, pos[i - 1], parts[i])
    BY <2>1, <2>2
  <2> QED
    BY <1>3, <1>5, <2>3 DEF LaidOut
<1>7. ReadsRow(body, pos, items, row, q)
  <2>1. LaidOut(body, pos, ItemParts(items, row))
    BY <1>6, <1>c
  <2> QED
    BY <1>1, <1>2, <2>1, RowRead
<1>8. GetRow(body, Cursor(pos[0], q), items) = Cursor(pos[1], row)
  BY <1>1, <1>7, Zenon DEF ReadsRow
<1> QED
  BY <1>a, <1>b, <1>5, <1>8, Zenon

\* The first two fields of an announcement are read.
LEMMA FixedRead ==
  ASSUME NEW body \in Bytes, Len(body) <= MaxPayload,
         NEW a \in Word(GuidSize), NEW b \in Word(U64),
         At(body, 0, Put(GuidSize, a)), At(body, GuidSize, Put(U64, b))
  PROVE  GetRow(body, Cursor(0, <<>>), <<GuidSize, U64>>) = Cursor(GuidSize + U64, <<a, b>>)
<1>0. /\ GuidSize \in Nat /\ GuidSize # Str /\ U64 \in Nat /\ U64 # Str
      /\ a \in Nat /\ b \in Nat
  BY Widths DEF Str, Word
<1>a. PICK items : items = <<GuidSize, U64>>
  OBVIOUS
<1>b. PICK row : row = <<a, b>>
  OBVIOUS
<1>1. /\ items \in Seq(Nat) /\ Len(items) = 2 /\ DOMAIN items = 1 .. 2
      /\ items[1] = GuidSize /\ items[2] = U64
      /\ row[1] = a /\ row[2] = b /\ row = [i \in 1 .. Len(items) |-> row[i]]
  BY <1>0, <1>a, <1>b
<1>2. IsRow(items, row)
  <2>1. \A i \in 1 .. 2 : i = 1 \/ i = 2
    OBVIOUS
  <2>2. \A i \in DOMAIN items : row[i] \in (IF items[i] = Str THEN Bytes ELSE Word(items[i]))
    BY <1>0, <1>1, <2>1
  <2> QED
    BY <1>1, <2>2 DEF IsRow
<1>c. PICK parts : parts = ItemParts(items, row)
  OBVIOUS
<1>3. /\ Len(parts) = 2 /\ parts[1] = Put(GuidSize, a) /\ Len(parts[1]) = GuidSize
      /\ parts[2] = Put(U64, b) /\ Len(parts[2]) = U64
  <2>1. 1 \in 1 .. Len(items) /\ 2 \in 1 .. Len(items)
    BY <1>1
  <2>2. /\ Len(parts) = 2 /\ parts[1] = PutItem(items[1], row[1])
        /\ parts[2] = PutItem(items[2], row[2])
    BY <1>1, <1>2, <1>c, <2>1, ItemPartsProperty
  <2>3. PutItem(items[1], row[1]) = Put(GuidSize, a) /\ PutItem(items[2], row[2]) = Put(U64, b)
    BY <1>0, <1>1 DEF PutItem
  <2>4. Len(Put(GuidSize, a)) = GuidSize /\ Len(Put(U64, b)) = U64
    BY <1>0, PutProperty
  <2> QED
    BY <2>2, <2>3, <2>4
<1> DEFINE f == [i \in 0 .. 2 |-> IF i = 0 THEN 0 ELSE IF i = 1 THEN GuidSize ELSE GuidSize + U64]
<1>4. f[0] = 0 /\ f[1] = GuidSize /\ f[2] = GuidSize + U64 /\ f \in [0 .. 2 -> Nat]
  BY <1>0
<1>d. PICK pos : pos = f
  OBVIOUS
<1>5. pos[0] = 0 /\ pos[1] = GuidSize /\ pos[2] = GuidSize + U64 /\ pos \in [0 .. 2 -> Nat]
  BY <1>4, <1>d
<1> HIDE DEF f
<1>6. LaidOut(body, pos, parts)
  <2>1. \A i \in 1 .. 2 : (i = 1 /\ i - 1 = 0) \/ (i = 2 /\ i - 1 = 1)
    OBVIOUS
  <2>2. pos[1] = pos[0] + Len(parts[1])
    BY <1>0, <1>3, <1>5
  <2>3. /\ pos[2] = pos[1] + Len(parts[2])
        /\ At(body, pos[0], parts[1]) /\ At(body, pos[1], parts[2])
    BY <1>3, <1>5, Zenon
  <2>4. \A i \in 1 .. 2 : pos[i] = pos[i - 1] + Len(parts[i]) /\ At(body, pos[i - 1], parts[i])
    BY <2>1, <2>2, <2>3
  <2> QED
    BY <1>3, <1>5, <2>4 DEF LaidOut
<1>7. ReadsRow(body, pos, items, row, <<>>)
  <2>1. LaidOut(body, pos, ItemParts(items, row))
    BY <1>6, <1>c
  <2> QED
    BY <1>1, <1>2, <2>1, RowRead
<1>8. GetRow(body, Cursor(pos[0], <<>>), items) = Cursor(pos[2], row)
  BY <1>1, <1>7, Zenon DEF ReadsRow
<1> QED
  BY <1>a, <1>b, <1>5, <1>8, Zenon

IsListRead(g, body, head, items) ==
  g = [i \in 0 .. head.got[1] |->
         IF i = 0 THEN WithGot(head, <<>>) ELSE GetNextRow(body, g[i - 1], items)]

ListReads(body, head, items) == CHOOSE g : IsListRead(g, body, head, items)

\* GetList() is the last of its reads.
LEMMA GetListIs ==
  ASSUME NEW body, NEW r, NEW items
  PROVE  GetList(body, r, items) =
           IF GetRow(body, r, <<U16>>).ok
           THEN ListReads(body, GetRow(body, r, <<U16>>), items)[GetRow(body, r, <<U16>>).got[1]]
           ELSE WithGot(GetRow(body, r, <<U16>>), <<>>)
BY Zenon DEF GetList, ListReads, IsListRead, WithGot

\* GetList() reads rows from p.
ReadsList(body, p, items, rows, q) ==
  GetList(body, Cursor(p, q), items) = Cursor(p + Len(PutList(items, rows)), rows)

\* As many rows as were counted are read from pos[0] to the last of pos.
ReadsRows(body, pos, items, rows) ==
  ListReads(body, Cursor(pos[0], <<Len(rows)>>), items)[Len(rows)]
    = Cursor(pos[Len(rows)], rows)

\* The rows behind a count are read one by one.
LEMMA RowsRead ==
  ASSUME NEW body \in Bytes, Len(body) <= MaxPayload, NEW items \in Seq(Nat), Len(items) > 0,
         NEW rows, IsList(items, rows), NEW pos, LaidOut(body, pos, RowParts(items, rows))
  PROVE  ReadsRows(body, pos, items, rows)
<1>c. PICK head : head = Cursor(pos[0], <<Len(rows)>>)
  OBVIOUS
<1>d. PICK h : h = ListReads(body, head, items)
  OBVIOUS
<1>b. PICK parts : parts = RowParts(items, rows)
  OBVIOUS
<1>a. PICK n \in Nat : n = Len(rows)
  BY RowPartsProperty
<1>1. /\ rows = FirstOf(rows, n) /\ Len(parts) = n
      /\ \A i \in 1 .. n : IsRow(items, rows[i])
      /\ \A i \in 1 .. n : parts[i] = PutRow(items, rows[i])
  BY <1>a, <1>b, RowPartsProperty
<1>2. LaidOut(body, pos, parts)
  BY <1>b
<1>3. /\ \A i \in 0 .. n : pos[i] \in Nat
      /\ \A i \in 1 .. n : pos[i] = pos[i - 1] + Len(parts[i]) /\ At(body, pos[i - 1], parts[i])
  BY <1>1, <1>2 DEF LaidOut
<1>4. head.got[1] = n
  <2>1. head.got = <<n>>
    BY <1>a, <1>c, SMT DEF Cursor
  <2> QED
    BY <2>1
<1> DEFINE e == [i \in 0 .. n |-> Cursor(pos[i], FirstOf(rows, i))]
<1>5. \A i \in 0 .. n : e[i] = Cursor(pos[i], FirstOf(rows, i))
  OBVIOUS
<1>6. 0 \in 0 .. n /\ n \in 0 .. n
  BY <1>a
<1> HIDE DEF e
<1>7. e[0] = WithGot(head, <<>>)
  <2>1. e[0] = Cursor(pos[0], <<>>)
    BY <1>5, <1>6, FirstOfNext
  <2>2. WithGot(Cursor(pos[0], <<Len(rows)>>), <<>>) = Cursor(pos[0], <<>>)
    BY CursorGot
  <2> QED
    BY <1>c, <2>1, <2>2, Zenon
<1>8. ASSUME NEW i \in 1 .. n PROVE e[i] = GetNextRow(body, e[i - 1], items)
  <2>1. i - 1 \in 0 .. n /\ i \in 0 .. n /\ (i - 1) + 1 = i /\ i - 1 \in Nat
    BY <1>a
  <2>2. e[i] = Cursor(pos[i], FirstOf(rows, i)) /\ e[i - 1] = Cursor(pos[i - 1], FirstOf(rows, i - 1))
    BY <1>5, <2>1, Zenon
  <2>3. pos[i - 1] \in Nat /\ At(body, pos[i - 1], PutRow(items, rows[i]))
    BY <1>1, <1>3, <2>1
  <2>4. IsRow(items, rows[i])
    BY <1>1
  <2>a. PICK p \in Nat : p = pos[i - 1]
    BY <2>3
  <2>b. PICK row : row = rows[i]
    OBVIOUS
  <2>c. PICK q : q = FirstOf(rows, i - 1)
    OBVIOUS
  <2>5. GetNextRow(body, Cursor(p, q), items) = Cursor(p + Len(PutRow(items, row)), Append(q, row))
    <3>1. At(body, p, PutRow(items, row)) /\ IsRow(items, row)
      BY <2>3, <2>4, <2>a, <2>b
    <3> QED
      BY <3>1, NextRowAt
  <2>6. p + Len(PutRow(items, row)) = pos[i]
    BY <1>1, <1>3, <2>a, <2>b, Zenon
  <2>7. Append(FirstOf(rows, i - 1), rows[(i - 1) + 1]) = FirstOf(rows, (i - 1) + 1)
    BY <2>1, FirstOfNext
  <2>8. Append(q, row) = FirstOf(rows, i)
    BY <2>1, <2>7, <2>b, <2>c, Zenon
  <2> QED
    BY <2>2, <2>5, <2>6, <2>8, <2>a, <2>c, Zenon
<1>9. IsListRead(e, body, head, items)
  <2>1. e = [i \in 0 .. n |-> e[i]]
    BY DEF e
  <2>2. \A i \in 0 .. n : i # 0 => i \in 1 .. n
    OBVIOUS
  <2>3. \A i \in 0 .. n :
          e[i] = IF i = 0 THEN WithGot(head, <<>>) ELSE GetNextRow(body, e[i - 1], items)
    BY <1>7, <1>8, <2>2, Zenon
  <2>4. e = [i \in 0 .. n |->
               IF i = 0 THEN WithGot(head, <<>>) ELSE GetNextRow(body, e[i - 1], items)]
    BY <2>1, <2>3
  <2> QED
    BY <1>4, <2>4, Zenon DEF IsListRead
<1>10. IsListRead(h, body, head, items)
  BY <1>9, <1>d, Zenon DEF ListReads
<1>11. /\ h[0] = WithGot(head, <<>>)
       /\ \A i \in 1 .. n : h[i] = GetNextRow(body, h[i - 1], items)
  <2>1. h = [i \in 0 .. n |->
               IF i = 0 THEN WithGot(head, <<>>) ELSE GetNextRow(body, h[i - 1], items)]
    BY <1>4, <1>10, Zenon DEF IsListRead
  <2>2. \A i \in 0 .. n :
          h[i] = IF i = 0 THEN WithGot(head, <<>>) ELSE GetNextRow(body, h[i - 1], items)
    BY <2>1
  <2>3. \A i \in 1 .. n : i \in 0 .. n /\ i # 0
    OBVIOUS
  <2> QED
    BY <1>6, <2>2, <2>3, Zenon
<1>12. SameSteps(h, e, n)
  BY <1>7, <1>8, <1>11, Zenon DEF SameSteps
<1>13. h[n] = e[n]
  <2>1. Agree(h, e, n)
    BY <1>12, SameTrace, Zenon
  <2> QED
    BY <1>6, <2>1, Zenon DEF Agree
<1>14. e[n] = Cursor(pos[n], rows)
  BY <1>1, <1>5, <1>6, Zenon
<1> QED
  BY <1>a, <1>c, <1>d, <1>13, <1>14, Zenon DEF ReadsRows

\* An encoded list is bytes.
LEMMA PutListBytes ==
  ASSUME NEW items \in Seq(Nat), Len(items) > 0, NEW rows, IsList(items, rows)
  PROVE  PutList(items, rows) \in Bytes
<1>1. /\ Len(rows) \in Nat /\ FlattenSeq(RowParts(items, rows)) \in Bytes
  BY RowPartsProperty
<1>2. Put(U16, Len(rows)) \in Bytes
  BY <1>1, Widths, PutProperty
<1>3. PutList(items, rows) = Put(U16, Len(rows)) \o FlattenSeq(RowParts(items, rows))
  BY Zenon DEF PutList, RowParts
<1> QED
  BY <1>1, <1>2, <1>3, ConcatLen

\* A list that is at the cursor is read.  In a frame that UDP sends there are
\* fewer rows than bytes, and no more than a u16 can count.
LEMMA ListRead ==
  ASSUME NEW body \in Bytes, Len(body) <= MaxPayload, NEW items \in Seq(Nat), Len(items) > 0,
         NEW rows, IsList(items, rows), NEW p \in Nat, At(body, p, PutList(items, rows)),
         NEW q
  PROVE  ReadsList(body, p, items, rows, q)
<1>0. /\ U16 \in Nat /\ MaxPayload \in Nat /\ MaxPayload \in Word(U16) /\ Len(body) \in Nat
  BY Widths, BytesProperty
<1>a. PICK n \in Nat : n = Len(rows)
  BY RowPartsProperty
<1>b. PICK parts : parts = RowParts(items, rows)
  OBVIOUS
<1>c. PICK flat : flat = FlattenSeq(parts)
  OBVIOUS
<1>1. /\ parts \in Seq(Bytes) /\ Len(parts) = n /\ flat \in Bytes /\ n <= Len(flat)
  BY <1>a, <1>b, <1>c, RowPartsProperty
<1>2. Put(U16, n) \in Bytes /\ Len(Put(U16, n)) = U16 /\ Len(flat) \in Nat
  BY <1>0, <1>1, PutProperty, BytesProperty
<1>3. PutList(items, rows) = Put(U16, n) \o flat
  BY <1>a, <1>b, <1>c, Zenon DEF PutList, RowParts
<1>4. Len(PutList(items, rows)) = U16 + Len(flat)
  BY <1>1, <1>2, <1>3, ConcatLen, Zenon
<1>5. At(body, p, Put(U16, n)) /\ At(body, p + U16, flat)
  <2>1. At(body, p, Put(U16, n)) /\ At(body, p + Len(Put(U16, n)), flat)
    <3>1. At(body, p, Put(U16, n) \o flat)
      BY <1>3
    <3> QED
      BY <1>1, <1>2, <3>1, AtConcat
  <2> QED
    BY <1>2, <2>1, Zenon
<1>6. n \in Word(U16)
  <2>1. p + U16 + Len(flat) <= Len(body)
    BY <1>5 DEF At
  <2>2. n <= MaxPayload
    BY <1>0, <1>1, <1>2, <2>1
  <2> QED
    BY <1>0, <2>2, WordSmaller
<1>d. PICK head : head = Cursor(p + U16, <<n>>)
  OBVIOUS
<1>7. GetRow(body, Cursor(p, q), <<U16>>) = head
  BY <1>5, <1>6, <1>d, CountRead
<1>8. head.ok = TRUE /\ head.got = <<n>>
  BY <1>d, SMT DEF Cursor
<1>9. head.got[1] = n
  BY <1>8
<1>e. PICK h : h = ListReads(body, head, items)
  OBVIOUS
<1>10. GetList(body, Cursor(p, q), items) = h[n]
  BY <1>7, <1>8, <1>9, <1>e, GetListIs, Zenon
<1>11. PICK pos : /\ LaidOut(body, pos, parts) /\ pos[0] = p + U16
                  /\ pos[Len(parts)] = (p + U16) + Len(flat)
  <2>1. At(body, p + U16, FlattenSeq(parts)) /\ p + U16 \in Nat
    BY <1>0, <1>5, <1>c
  <2>2. \E pos : /\ LaidOut(body, pos, parts) /\ pos[0] = p + U16
                  /\ pos[Len(parts)] = (p + U16) + Len(FlattenSeq(parts))
    BY <1>1, <2>1, FlattenLaidOut
  <2> QED
    BY <1>c, <2>2, Zenon
<1>12. h[Len(rows)] = Cursor(pos[Len(rows)], rows)
  <2>1. LaidOut(body, pos, RowParts(items, rows)) /\ head = Cursor(pos[0], <<Len(rows)>>)
    BY <1>11, <1>a, <1>b, <1>d, Zenon
  <2>2. ReadsRows(body, pos, items, rows)
    BY <2>1, RowsRead
  <2> QED
    BY <2>1, <2>2, <1>e, Zenon DEF ReadsRows
<1>13. pos[n] = p + (U16 + Len(flat))
  <2>1. pos[n] = (p + U16) + Len(flat)
    BY <1>1, <1>11, Zenon
  <2>2. (p + U16) + Len(flat) = p + (U16 + Len(flat))
    BY <1>0, <1>2
  <2> QED
    BY <2>1, <2>2
<1> QED
  BY <1>a, <1>4, <1>10, <1>12, <1>13, Zenon DEF ReadsList

\* What a frame of UDP consists of: no length of its body wraps.
LEMMA FramedBody ==
  ASSUME NEW type \in DOMAIN FrameType, NEW flags \in Word(U16), NEW body \in Bytes,
         NEW buf, buf = Header(type, flags, Len(body)) \o body, Len(buf) <= MaxPayload
  PROVE  IsFrame(buf, type, flags, Len(body)) /\ Body(buf) = body /\ Len(body) <= MaxPayload
<1>a. PICK n \in Nat : n = Len(body)
  BY BytesProperty
<1>b. PICK head : head = Header(type, flags, n)
  OBVIOUS
<1>0. U16 \in Nat /\ U32 \in Nat /\ U16 <= U32 /\ MaxPayload \in Nat /\ MaxPayload \in Word(U16)
  BY Widths
<1>1. flags \in Nat
  BY DEF Word
<1>2. head \in Bytes /\ Len(head) = kHeaderSize /\ kHeaderSize \in Nat
  BY <1>1, <1>b, HeaderProperty
<1>3. buf = head \o body
  BY <1>a, <1>b
<1>4. buf \in Bytes /\ Len(buf) = kHeaderSize + n
  BY <1>2, <1>3, <1>a, ConcatLen, Zenon
<1>5. n <= MaxPayload
  BY <1>0, <1>2, <1>4
<1>6. n \in Word(U32)
  BY <1>0, <1>5, WordSmaller, WordWider
<1>7. At(buf, 0, head) /\ At(buf, kHeaderSize, body)
  <2>1. At(buf, 0, buf)
    BY <1>4, AtStart
  <2>2. At(buf, 0, head \o body) /\ 0 \in Nat
    BY <1>3, <2>1
  <2>3. At(buf, 0, head) /\ At(buf, 0 + Len(head), body)
    BY <1>2, <1>4, <2>2, AtConcat
  <2>4. 0 + Len(head) = kHeaderSize
    BY <1>2
  <2> QED
    BY <2>3, <2>4, Zenon
<1>8. IsFrame(buf, type, flags, n)
  BY <1>4, <1>6, <1>7, <1>b DEF IsFrame
<1>9. Body(buf) = body
  <2>1. BodyLen(buf) = n
    BY <1>8, WholeFrame DEF HasHeader
  <2>2. Body(buf) = SubSeq(buf, kHeaderSize + 1, kHeaderSize + n)
    BY <2>1, Zenon DEF Body
  <2>3. SubSeq(buf, kHeaderSize + 1, kHeaderSize + Len(body)) = body
    BY <1>2, <1>4, <1>7, AtPart
  <2> QED
    BY <1>a, <2>2, <2>3, Zenon
<1> QED
  BY <1>a, <1>5, <1>8, <1>9

\* What the rows consist of.
LEMMA AnnounceRows ==
  /\ NodeRow \in Seq(Nat) /\ Len(NodeRow) > 0
  /\ EndpointRow \in Seq(Nat) /\ Len(EndpointRow) > 0
<1>0. U16 \in Nat /\ U32 \in Nat /\ U64 \in Nat /\ GuidSize \in Nat /\ Str \in Nat
  BY Widths DEF Str
<1>1. NodeRow \in Seq(Nat) /\ Len(NodeRow) > 0
  BY <1>0 DEF NodeRow
<1>a. PICK s : s = <<GuidSize, 1, Str, Str>>
  OBVIOUS
<1>b. PICK t : t = QosRow
  OBVIOUS
<1>c. PICK u : u = <<U64>>
  OBVIOUS
<1>2. s \in Seq(Nat) /\ Len(s) = 4
  BY <1>0, <1>a
<1>3. t \in Seq(Nat) /\ Len(t) = 8
  BY <1>0, <1>b DEF QosRow
<1>4. u \in Seq(Nat) /\ Len(u) = 1
  BY <1>0, <1>c
<1>d. PICK st : st = s \o t
  OBVIOUS
<1>5. st \in Seq(Nat) /\ Len(st) = 12
  <2>1. s \o t \in Seq(Nat) /\ Len(s \o t) = Len(s) + Len(t)
    <3>1. s \in Seq(Nat) /\ t \in Seq(Nat)
      BY <1>2, <1>3
    <3> QED
      BY <3>1, ConcatProperties, Zenon
  <2> QED
    BY <1>2, <1>3, <1>d, <2>1
<1>6. st \o u \in Seq(Nat) /\ Len(st \o u) = 13
  <2>1. st \o u \in Seq(Nat) /\ Len(st \o u) = Len(st) + Len(u)
    <3>1. st \in Seq(Nat) /\ u \in Seq(Nat)
      BY <1>4, <1>5
    <3> QED
      BY <3>1, ConcatProperties, Zenon
  <2> QED
    BY <1>4, <1>5, <2>1
<1>7. EndpointRow = st \o u
  BY <1>a, <1>b, <1>c, <1>d, Zenon DEF EndpointRow
<1>8. EndpointRow \in Seq(Nat) /\ Len(EndpointRow) = 13
  BY <1>6, <1>7, Zenon
<1> QED
  BY <1>1, <1>8

\* DecodeAnnounce() by what is read.
LEMMA DecodeAnnounceIs ==
  ASSUME NEW buf, NEW p, NEW a, NEW b, NEW x, NEW nodes, NEW y, NEW ends, NEW body,
         body = Body(buf),
         GetRow(body, Cursor(0, <<>>), <<GuidSize, U64>>) = Cursor(p, <<a, b>>),
         GetList(body, Cursor(p, <<a, b>>), NodeRow) = Cursor(x, nodes),
         GetList(body, Cursor(x, nodes), EndpointRow) = Cursor(y, ends)
  PROVE  DecodeAnnounce(buf) = [type |-> "ANNOUNCE", guid |-> a, announce_seq |-> b,
                                nodes |-> nodes, endpoints |-> ends]
<1>a. PICK fixed : fixed = Cursor(p, <<a, b>>)
  OBVIOUS
<1>b. PICK list : list = Cursor(x, nodes)
  OBVIOUS
<1>c. PICK last : last = Cursor(y, ends)
  OBVIOUS
<1>1. GetRow(body, [ok |-> TRUE, pos |-> 0, got |-> <<>>], <<GuidSize, U64>>) = fixed
  BY <1>a, Zenon DEF Cursor
<1>2. GetList(body, fixed, NodeRow) = list /\ GetList(body, list, EndpointRow) = last
  BY <1>a, <1>b, <1>c, Zenon
<1>3. fixed.got[1] = a /\ fixed.got[2] = b /\ list.got = nodes /\ last.got = ends /\ last.ok = TRUE
  BY <1>a, <1>b, <1>c DEF Cursor
<1>4. DecodeAnnounce(buf) =
        IF last.ok
        THEN [type |-> "ANNOUNCE", guid |-> fixed.got[1], announce_seq |-> fixed.got[2],
              nodes |-> list.got, endpoints |-> last.got]
        ELSE Nothing
  BY <1>1, <1>2, Zenon DEF DecodeAnnounce
<1> QED
  BY <1>3, <1>4, Zenon

AnnounceBody(m) ==
  Put(GuidSize, m.guid) \o Put(U64, m.announce_seq)
    \o PutList(NodeRow, m.nodes) \o PutList(EndpointRow, m.endpoints)

\* Where the parts of an announcement are.
LEMMA AnnounceBodyParts ==
  ASSUME NEW m, IsSnapshot(m)
  PROVE  /\ AnnounceBody(m) \in Bytes
         /\ At(AnnounceBody(m), 0, Put(GuidSize, m.guid))
         /\ At(AnnounceBody(m), GuidSize, Put(U64, m.announce_seq))
         /\ At(AnnounceBody(m), GuidSize + U64, PutList(NodeRow, m.nodes))
         /\ At(AnnounceBody(m), GuidSize + U64 + Len(PutList(NodeRow, m.nodes)),
               PutList(EndpointRow, m.endpoints))
         /\ Len(PutList(NodeRow, m.nodes)) \in Nat
<1>0. /\ m.guid \in Word(GuidSize) /\ m.announce_seq \in Word(U64)
      /\ IsList(NodeRow, m.nodes) /\ IsList(EndpointRow, m.endpoints)
  BY DEF IsSnapshot
<1>1. GuidSize \in Nat /\ U64 \in Nat /\ m.guid \in Nat /\ m.announce_seq \in Nat
  BY <1>0, Widths DEF Word
<1>a. PICK a : a = Put(GuidSize, m.guid)
  OBVIOUS
<1>b. PICK b : b = Put(U64, m.announce_seq)
  OBVIOUS
<1>c. PICK c : c = PutList(NodeRow, m.nodes)
  OBVIOUS
<1>d. PICK d : d = PutList(EndpointRow, m.endpoints)
  OBVIOUS
<1>2. a \in Bytes /\ Len(a) = GuidSize /\ b \in Bytes /\ Len(b) = U64
  BY <1>1, <1>a, <1>b, PutProperty
<1>3. c \in Bytes /\ d \in Bytes
  BY <1>0, <1>c, <1>d, AnnounceRows, PutListBytes
<1>e. PICK ab : ab = a \o b
  OBVIOUS
<1>f. PICK abc : abc = ab \o c
  OBVIOUS
<1>g. PICK body : body = abc \o d
  OBVIOUS
<1>4. ab \in Bytes /\ Len(ab) = GuidSize + U64
  BY <1>2, <1>e, ConcatLen, Zenon
<1>5. abc \in Bytes /\ Len(abc) = GuidSize + U64 + Len(c)
  BY <1>3, <1>4, <1>f, ConcatLen, Zenon
<1>6. body \in Bytes
  BY <1>3, <1>5, <1>g, ConcatLen, Zenon
<1>7. At(body, 0, abc) /\ At(body, GuidSize + U64 + Len(c), d)
  <2>1. At(body, 0, abc \o d)
    BY <1>6, <1>g, AtStart
  <2>2. At(body, 0, abc) /\ At(body, 0 + Len(abc), d)
    BY <1>3, <1>5, <1>6, <2>1, AtConcat
  <2>3. Len(abc) \in Nat
    BY <1>5, BytesProperty
  <2>4. 0 + Len(abc) = Len(abc)
    BY <2>3
  <2> QED
    BY <1>5, <2>2, <2>4, Zenon
<1>8. At(body, 0, ab) /\ At(body, GuidSize + U64, c)
  <2>1. At(body, 0, ab \o c)
    BY <1>7, <1>f
  <2>2. At(body, 0, ab) /\ At(body, 0 + Len(ab), c)
    BY <1>3, <1>4, <1>6, <2>1, AtConcat
  <2>3. 0 + Len(ab) = GuidSize + U64
    BY <1>1, <1>4
  <2> QED
    BY <2>2, <2>3, Zenon
<1>9. At(body, 0, a) /\ At(body, GuidSize, b)
  <2>1. At(body, 0, a \o b)
    BY <1>8, <1>e
  <2>2. At(body, 0, a) /\ At(body, 0 + Len(a), b)
    BY <1>2, <1>6, <2>1, AtConcat
  <2>3. 0 + Len(a) = GuidSize
    BY <1>1, <1>2
  <2> QED
    BY <2>2, <2>3, Zenon
<1>10. AnnounceBody(m) = body
  BY <1>a, <1>b, <1>c, <1>d, <1>e, <1>f, <1>g, Zenon DEF AnnounceBody
<1>11. Len(c) \in Nat
  BY <1>3, BytesProperty
<1> QED
  BY <1>6, <1>7, <1>8, <1>9, <1>10, <1>11, <1>a, <1>b, <1>c, <1>d, Zenon

\* An announcement that UDP sends is decoded to what was announced.
LEMMA AnnounceDecoded ==
  ASSUME NEW m, IsSnapshot(m), NEW buf, buf = EncodeAnnounce(m), Len(buf) <= MaxPayload
  PROVE  /\ \E n : IsFrame(buf, "ANNOUNCE", 0, n)
         /\ DecodeAnnounce(buf) = m
<1>0. /\ m.guid \in Word(GuidSize) /\ m.announce_seq \in Word(U64)
      /\ IsList(NodeRow, m.nodes) /\ IsList(EndpointRow, m.endpoints)
  BY DEF IsSnapshot
<1>a. PICK body : body = AnnounceBody(m)
  OBVIOUS
<1>1. buf = Header("ANNOUNCE", 0, Len(body)) \o body
  BY <1>a, Zenon DEF EncodeAnnounce, AnnounceBody
<1>2. body \in Bytes
  BY <1>a, AnnounceBodyParts
<1>3. "ANNOUNCE" \in DOMAIN FrameType /\ 0 \in Word(U16)
  <2>1. "ANNOUNCE" \in DOMAIN FrameType
    BY DEF FrameType
  <2>2. 0 \in Nat /\ 0 <= MaxPayload /\ U16 \in Nat /\ MaxPayload \in Word(U16)
    BY Widths
  <2> QED
    BY <2>1, <2>2, WordSmaller
<1>4. IsFrame(buf, "ANNOUNCE", 0, Len(body)) /\ Body(buf) = body /\ Len(body) <= MaxPayload
  BY <1>1, <1>2, <1>3, FramedBody
<1>b. PICK x \in Nat : x = Len(PutList(NodeRow, m.nodes))
  BY AnnounceBodyParts
<1>c. PICK y : y = Len(PutList(EndpointRow, m.endpoints))
  OBVIOUS
<1>d. PICK p \in Nat : p = GuidSize + U64
  BY Widths
<1>5. /\ At(body, 0, Put(GuidSize, m.guid)) /\ At(body, GuidSize, Put(U64, m.announce_seq))
      /\ At(body, p, PutList(NodeRow, m.nodes))
      /\ At(body, p + x, PutList(EndpointRow, m.endpoints))
  BY <1>a, <1>b, <1>d, AnnounceBodyParts, Zenon
<1>e. PICK row : row = <<m.guid, m.announce_seq>>
  OBVIOUS
<1>6. GetRow(body, Cursor(0, <<>>), <<GuidSize, U64>>) = Cursor(p, row)
  BY <1>0, <1>2, <1>4, <1>5, <1>d, <1>e, FixedRead
<1>7. GetList(body, Cursor(p, row), NodeRow) = Cursor(p + x, m.nodes)
  <2>1. ReadsList(body, p, NodeRow, m.nodes, row)
    BY <1>0, <1>2, <1>4, <1>5, AnnounceRows, ListRead
  <2> QED
    BY <2>1, <1>b, Zenon DEF ReadsList
<1>8. GetList(body, Cursor(p + x, m.nodes), EndpointRow) = Cursor(p + x + y, m.endpoints)
  <2>0. p + x \in Nat
    OBVIOUS
  <2>1. ReadsList(body, p + x, EndpointRow, m.endpoints, m.nodes)
    BY <1>0, <1>2, <1>4, <1>5, <2>0, AnnounceRows, ListRead
  <2> QED
    BY <2>1, <1>c, Zenon DEF ReadsList
<1>9. DecodeAnnounce(buf) = [type |-> "ANNOUNCE", guid |-> m.guid,
                             announce_seq |-> m.announce_seq,
                             nodes |-> m.nodes, endpoints |-> m.endpoints]
  <2>1. body = Body(buf)
    BY <1>4
  <2>2. GetRow(body, Cursor(0, <<>>), <<GuidSize, U64>>) = Cursor(p, <<m.guid, m.announce_seq>>)
    BY <1>6, <1>e
  <2>3. GetList(body, Cursor(p, <<m.guid, m.announce_seq>>), NodeRow) = Cursor(p + x, m.nodes)
    BY <1>7, <1>e
  <2> QED
    BY <2>1, <2>2, <2>3, <1>8, DecodeAnnounceIs
<1>10. m = [type |-> "ANNOUNCE", guid |-> m.guid, announce_seq |-> m.announce_seq,
            nodes |-> m.nodes, endpoints |-> m.endpoints]
  BY Zenon DEF IsSnapshot
<1> QED
  BY <1>4, <1>9, <1>10, Zenon

-----------------------------------------------------------------------------
(* DATA, DATA_FRAG and the control frames *)

\* Every encoder but that of ANNOUNCE has its table of fields.
LEMMA FieldTables ==
  ASSUME NEW type \in DOMAIN Puts
  PROVE  (\E n : FieldTable(type, n)) /\ type \in DOMAIN FrameType /\ type # "ANNOUNCE"
<1>1. type \in {"DATA", "DATA_FRAG", "ACKNACK", "HEARTBEAT", "GAP"}
  BY DEF Puts
<1>2. \E n : FieldTable(type, n)
  BY <1>1, DataFields, DataFragFields, AckNackFields, HeartbeatFields, GapFields, Zenon
<1>3. type \in DOMAIN FrameType /\ type # "ANNOUNCE"
  BY <1>1 DEF FrameType
<1> QED
  BY <1>2, <1>3

\* The fields of a message, as they are encoded and decoded.
LEMMA MessageFields ==
  ASSUME NEW m, m.type \in DOMAIN Puts, IsFields(m.type, m.fields)
  PROVE  /\ EncodeFields(m) \in Bytes /\ Len(EncodeFields(m)) = FixedSize[m.type]
         /\ FixedSize[m.type] \in Nat
         /\ \A body \in Bytes :
              At(body, 0, EncodeFields(m)) => DecodeFields(m.type, body) = m.fields
<1>a. PICK type : type = m.type
  OBVIOUS
<1>b. PICK fields : fields = m.fields
  OBVIOUS
<1>1. PICK n : FieldTable(type, n)
  BY <1>a, FieldTables
<1>2. IsFields(type, fields)
  BY <1>a, <1>b
<1>3. /\ EncodeFields(m) \in Bytes /\ Len(EncodeFields(m)) = FixedSize[type]
      /\ FixedSize[type] \in Nat
      /\ \A body \in Bytes : At(body, 0, EncodeFields(m)) => DecodeFields(type, body) = fields
  BY <1>1, <1>2, <1>a, <1>b, FieldsDecoded
<1> QED
  BY <1>3, <1>a, <1>b, Zenon

\* An ACKNACK, HEARTBEAT or GAP is decoded to what was sent.
LEMMA ControlDecoded ==
  ASSUME NEW m, m.type \in DOMAIN Puts, IsFields(m.type, m.fields),
         m = [type |-> m.type, fields |-> m.fields],
         NEW buf, buf = EncodeControl(m), Len(buf) <= MaxPayload
  PROVE  (\E n : IsFrame(buf, m.type, 0, n)) /\ DecodeControl(m.type, buf) = m
<1>a. PICK type : type = m.type
  OBVIOUS
<1>b. PICK body : body = EncodeFields(m)
  OBVIOUS
<1>1. /\ body \in Bytes /\ Len(body) = FixedSize[type] /\ FixedSize[type] \in Nat
      /\ At(body, 0, body) => DecodeFields(type, body) = m.fields
  BY <1>a, <1>b, MessageFields
<1>2. DecodeFields(type, body) = m.fields
  BY <1>1, AtStart
<1>3. buf = Header(type, 0, Len(body)) \o body
  BY <1>1, <1>a, <1>b, Zenon DEF EncodeControl
<1>4. type \in DOMAIN FrameType /\ 0 \in Word(U16)
  <2>1. type \in DOMAIN FrameType
    BY <1>a, FieldTables
  <2>2. 0 \in Nat /\ 0 <= MaxPayload /\ U16 \in Nat /\ MaxPayload \in Word(U16)
    BY Widths
  <2> QED
    BY <2>1, <2>2, WordSmaller
<1>5. IsFrame(buf, type, 0, Len(body)) /\ Body(buf) = body
  BY <1>1, <1>3, <1>4, FramedBody
<1>6. BodyLen(buf) = FixedSize[type]
  BY <1>1, <1>5, WholeFrame DEF HasHeader
<1>7. ~ (BodyLen(buf) < FixedSize[type])
  BY <1>1, <1>6
<1>8. DecodeControl(type, buf) = [type |-> type, fields |-> m.fields]
  BY <1>2, <1>5, <1>7, Zenon DEF DecodeControl
<1> QED
  BY <1>5, <1>8, <1>a, Zenon

\* Three sequences of bytes one after the other.
LEMMA BytesAssociative ==
  ASSUME NEW s \in Bytes, NEW t \in Bytes, NEW u \in Bytes
  PROVE  (s \o t) \o u = s \o (t \o u)
BY ConcatAssociative DEF Bytes

\* The fields that place a fragment in its sample are numbers.
LEMMA FragmentFields ==
  ASSUME NEW fields, IsFields("DATA_FRAG", fields)
  PROVE  /\ fields.total_size \in Nat /\ fields.frag_offset \in Nat
         /\ fields.payload_len \in Nat
<1>1. /\ \A i \in DOMAIN Puts["DATA_FRAG"] :
           fields[Puts["DATA_FRAG"][i][1]] \in Word(Puts["DATA_FRAG"][i][2])
  BY DEF IsFields
<1>2. \A i \in DOMAIN Puts["DATA_FRAG"] : fields[Puts["DATA_FRAG"][i][1]] \in Nat
  BY <1>1 DEF Word
<1>3. /\ DOMAIN Puts["DATA_FRAG"] = 1 .. 6 /\ Puts["DATA_FRAG"][4][1] = "total_size"
      /\ Puts["DATA_FRAG"][5][1] = "frag_offset" /\ Puts["DATA_FRAG"][6][1] = "payload_len"
  BY DEF Puts
<1>4. 4 \in 1 .. 6 /\ 5 \in 1 .. 6 /\ 6 \in 1 .. 6
  OBVIOUS
<1> QED
  BY <1>2, <1>3, <1>4

\* A sample or fragment that UDP sends is decoded to what was sent; its trailer
\* to what parse_trailer() makes of the bytes behind the payload.
LEMMA DataDecoded ==
  ASSUME NEW m, m.type \in DataTypes, IsFields(m.type, m.fields), IsSample(m),
         NEW tail \in Bytes, NEW buf, buf = EncodeData(m, tail), Len(buf) <= MaxPayload
  PROVE  /\ \E n : IsFrame(buf, m.type, m.flags, n)
         /\ DecodeData(m.type, buf) =
              [type |-> m.type, flags |-> m.flags, fields |-> m.fields,
               payload |-> m.payload, trailer |-> ParseTrailer(tail)]
<1>a. PICK type : type = m.type
  OBVIOUS
<1>b. PICK f : f = m.fields
  OBVIOUS
<1>c. PICK payload : payload = m.payload
  OBVIOUS
<1>k. PICK flags : flags = m.flags
  OBVIOUS
<1>d. PICK size : size = FixedSize[type]
  OBVIOUS
<1>0. /\ flags \in Word(U16) /\ payload \in Bytes /\ f.payload_len = Len(payload)
      /\ type = "DATA_FRAG" => f.frag_offset + f.payload_len <= f.total_size
  BY <1>a, <1>b, <1>c, <1>k DEF IsSample
<1>e. PICK n \in Nat : n = Len(payload)
  BY <1>0, BytesProperty
<1>g. PICK k \in Nat : k = Len(tail)
  BY BytesProperty
<1>1. type \in DOMAIN Puts
  BY <1>a DEF DataTypes, Puts
<1>2. type \in DOMAIN FrameType
  BY <1>1, FieldTables
<1>h. PICK ef : ef = EncodeFields(m)
  OBVIOUS
<1>3. /\ ef \in Bytes /\ Len(ef) = size /\ size \in Nat
      /\ \A body \in Bytes : At(body, 0, ef) => DecodeFields(type, body) = f
  BY <1>1, <1>a, <1>b, <1>d, <1>h, MessageFields
<1>i. PICK ep : ep = ef \o payload
  OBVIOUS
<1>j. PICK body : body = ep \o tail
  OBVIOUS
<1>4. ep \in Bytes /\ Len(ep) = size + n
  BY <1>0, <1>3, <1>e, <1>i, ConcatLen, Zenon
<1>5. body \in Bytes /\ Len(body) = size + n + k
  BY <1>4, <1>g, <1>j, ConcatLen, Zenon
<1>6. buf = Header(type, flags, Len(body)) \o body
  <2>a. PICK head : head = Header(type, flags, size + n + k)
    OBVIOUS
  <2>1. size + n + k \in Nat /\ flags \in Nat
    BY <1>0, <1>3 DEF Word
  <2>2. head \in Bytes
    BY <1>2, <2>1, <2>a, HeaderProperty
  <2>3. buf = ((head \o ef) \o payload) \o tail
    BY <1>0, <1>a, <1>b, <1>c, <1>d, <1>e, <1>g, <1>h, <1>k, <2>a, Zenon DEF EncodeData
  <2>4. (head \o ef) \o payload = head \o ep
    BY <1>0, <1>3, <1>i, <2>2, BytesAssociative, Zenon
  <2>5. (head \o ep) \o tail = head \o body
    BY <1>4, <1>j, <2>2, BytesAssociative, Zenon
  <2> QED
    BY <1>5, <2>3, <2>4, <2>5, <2>a, Zenon
<1>7. IsFrame(buf, type, flags, Len(body)) /\ Body(buf) = body
  BY <1>0, <1>2, <1>5, <1>6, FramedBody
<1>8. At(body, 0, ep) /\ At(body, size + n, tail)
  <2>1. At(body, 0, ep \o tail)
    BY <1>5, <1>j, AtStart
  <2>2. At(body, 0, ep) /\ At(body, 0 + Len(ep), tail)
    BY <1>4, <1>5, <2>1, AtConcat
  <2>3. 0 + Len(ep) = size + n
    BY <1>3, <1>4
  <2> QED
    BY <2>2, <2>3, Zenon
<1>9. At(body, 0, ef) /\ At(body, size, payload)
  <2>1. At(body, 0, ef \o payload)
    BY <1>8, <1>i
  <2>2. At(body, 0, ef) /\ At(body, 0 + Len(ef), payload)
    BY <1>0, <1>3, <1>5, <2>1, AtConcat
  <2>3. 0 + Len(ef) = size
    BY <1>3
  <2> QED
    BY <2>2, <2>3, Zenon
<1>10. DecodeFields(type, body) = f
  BY <1>3, <1>5, <1>9
<1>l. PICK end \in Nat : end = size + n
  BY <1>3
<1>11. SubSeq(body, size + 1, end) = payload
  BY <1>0, <1>3, <1>5, <1>9, <1>e, <1>l, AtPart
<1>12. SubSeq(body, end + 1, Len(body)) = tail
  <2>1. SubSeq(body, end + 1, end + k) = tail
    BY <1>5, <1>8, <1>g, <1>l, AtPart
  <2>2. end + k = Len(body)
    BY <1>5, <1>l, Zenon
  <2> QED
    BY <2>1, <2>2, Zenon
<1>13. ~ (Len(body) < size) /\ ~ (Len(body) < end)
  BY <1>3, <1>5, <1>l
<1>14. ASSUME type = "DATA_FRAG" PROVE ~ (f.frag_offset + f.payload_len > f.total_size)
  <2>1. f.total_size \in Nat /\ f.frag_offset \in Nat /\ f.payload_len \in Nat
    BY <1>14, <1>a, <1>b, FragmentFields
  <2> QED
    BY <1>0, <1>14, <2>1
<1>15. HeaderFlags(buf) = flags
  BY <1>7, WholeFrame DEF HasHeader
<1>16. size + f.payload_len = end
  BY <1>0, <1>e, <1>l
<1>17. DecodeData(type, buf) = [type |-> type, flags |-> flags, fields |-> f,
                                payload |-> payload, trailer |-> ParseTrailer(tail)]
  <2>1. /\ FixedSize[type] + f.payload_len = end
        /\ SubSeq(body, FixedSize[type] + 1, end) = payload
        /\ ~ (Len(body) < FixedSize[type])
    BY <1>11, <1>13, <1>16, <1>d, Zenon
  <2> QED
    BY <1>7, <1>10, <1>12, <1>13, <1>14, <1>15, <2>1, Zenon DEF DecodeData
<1> QED
  BY <1>7, <1>17, <1>a, <1>b, <1>c, <1>k, Zenon

-----------------------------------------------------------------------------
(* handle_bytes() *)

\* handle_bytes() takes the decoder of the type of the frame.
LEMMA DecodeIs ==
  ASSUME NEW buf, NEW type, NEW flags, NEW n, IsFrame(buf, type, flags, n)
  PROVE  /\ type \in DataTypes => Decode(buf) = DecodeData(type, buf)
         /\ type = "ANNOUNCE" => Decode(buf) = DecodeAnnounce(buf)
         /\ (type \notin DataTypes /\ type # "ANNOUNCE") => Decode(buf) = DecodeControl(type, buf)
<1>1. DecodeHeader(buf) /\ HeaderType(buf) = FrameType[type]
  BY WholeFrame DEF HasHeader
<1>2. type \in DOMAIN FrameType
  BY DEF IsFrame
<1>a. PICK types : types = {t \in DOMAIN FrameType : FrameType[t] = HeaderType(buf)}
  OBVIOUS
<1>3. types = {type}
  <2>1. type \in types
    BY <1>1, <1>2, <1>a
  <2>2. \A t \in types : t = type
    BY <1>1, <1>2, <1>a, FrameTypes
  <2> QED
    BY <2>1, <2>2
<1>4. types # {} /\ (CHOOSE t \in types : TRUE) = type
  BY <1>3
<1>b. PICK p \in BOOLEAN : p <=> type \in DataTypes
  OBVIOUS
<1>c. PICK q \in BOOLEAN : q <=> type = "ANNOUNCE"
  OBVIOUS
<1>5. ~ (p /\ q)
  BY <1>b, <1>c DEF DataTypes
<1>d. PICK x : x = DecodeData(type, buf)
  OBVIOUS
<1>e. PICK y : y = DecodeAnnounce(buf)
  OBVIOUS
<1>f. PICK z : z = DecodeControl(type, buf)
  OBVIOUS
<1>6. Decode(buf) = CASE type \in DataTypes -> DecodeData(type, buf)
                      [] type = "ANNOUNCE" -> DecodeAnnounce(buf)
                      [] OTHER -> DecodeControl(type, buf)
  BY <1>1, <1>4, <1>a, Zenon DEF Decode
<1>7. Decode(buf) = CASE p -> x [] q -> y [] OTHER -> z
  BY <1>6, <1>b, <1>c, <1>d, <1>e, <1>f
<1>8. (p => Decode(buf) = x) /\ (q => Decode(buf) = y)
  BY <1>5, <1>7
<1>9. (~ p /\ ~ q) => Decode(buf) = z
  BY <1>7
<1> QED
  BY <1>8, <1>9, <1>b, <1>c, <1>d, <1>e, <1>f

\* What a receiver should see of a message that entries follow.
SeenAs(m, es) == IF m.type \in DataTypes THEN [m EXCEPT !.trailer = Taken(@, es)] ELSE m

\* Of a sample it sees all, and the trailer after the entries.
LEMMA SampleSeen ==
  ASSUME NEW m, m.type \in DataTypes, IsSample(m), NEW es
  PROVE  SeenAs(m, es) = [type |-> m.type, flags |-> m.flags, fields |-> m.fields,
                          payload |-> m.payload, trailer |-> Taken(m.trailer, es)]
<1> DEFINE Names == {"type", "flags", "fields", "payload", "trailer"}
<1>a. PICK t : t = Taken(m.trailer, es)
  OBVIOUS
<1>b. PICK u : u = [m EXCEPT !.trailer = t]
  OBVIOUS
<1>c. PICK w : w = [type |-> m.type, flags |-> m.flags, fields |-> m.fields,
                    payload |-> m.payload, trailer |-> t]
  OBVIOUS
<1>0. m = [type |-> m.type, flags |-> m.flags, fields |-> m.fields, payload |-> m.payload,
           trailer |-> m.trailer]
  BY Zenon DEF IsSample
<1>d. PICK v : /\ v = [type |-> m.type, flags |-> m.flags, fields |-> m.fields,
                       payload |-> m.payload, trailer |-> m.trailer]
  OBVIOUS
<1>1. DOMAIN v = Names /\ DOMAIN w = Names
  BY <1>c, <1>d
<1>2. v = m
  BY <1>0, <1>d, Zenon
<1>3. DOMAIN m = Names
  BY <1>1, <1>2, Zenon
<1>4. DOMAIN u = Names
  BY <1>3, <1>b
<1>5. /\ u["type"] = w["type"] /\ u["flags"] = w["flags"] /\ u["fields"] = w["fields"]
      /\ u["payload"] = w["payload"] /\ u["trailer"] = w["trailer"]
  BY <1>3, <1>b, <1>c
<1>6. u = [i \in DOMAIN u |-> u[i]] /\ w = [i \in DOMAIN w |-> w[i]]
  BY <1>b, <1>c
<1>7. u = w
  BY <1>1, <1>4, <1>5, <1>6
<1>8. SeenAs(m, es) = u
  BY <1>a, <1>b, Zenon DEF SeenAs
<1> QED
  BY <1>7, <1>8, <1>a, <1>c, Zenon

\* No entries are no bytes, and change no trailer.
LEMMA NoEntries ==
  /\ IsEntries(<<>>) /\ EncodeEntries(<<>>) = <<>> /\ <<>> \in Bytes /\ NoEntryAt(<<>>, 0)
  /\ \A t \in TrailerType : Taken(t, <<>>) = t
<1>1. <<>> \in Seq(Entry) /\ <<>> \in Seq(Bytes) /\ <<>> \in Bytes /\ Len(<<>>) = 0
  BY EmptySeq DEF Bytes
<1>2. IsEntries(<<>>)
  <2>1. \A i \in 1 .. 0 : FALSE
    OBVIOUS
  <2> QED
    BY <1>1, <2>1 DEF IsEntries
<1>3. EncodeEntries(<<>>) = <<>>
  <2>1. TlvParts(<<>>) \in Seq(Bytes) /\ Len(TlvParts(<<>>)) = 0
    BY <1>1, <1>2, TlvPartsProperty
  <2>a. PICK ss : ss = TlvParts(<<>>)
    OBVIOUS
  <2>2. PICK g \in [0 .. Len(ss) -> Bytes] : Grows(g, ss) /\ FlattenSeq(ss) = g[Len(ss)]
    BY <2>1, <2>a, FlattenProperty
  <2>3. g[0] = <<>> /\ FlattenSeq(ss) = g[0]
    BY <2>1, <2>2, <2>a DEF Grows
  <2> QED
    BY <2>3, <2>a, Zenon DEF EncodeEntries, TlvParts
<1>4. NoEntryAt(<<>>, 0)
  <2>1. 0 + 2 > Len(<<>>)
    BY <1>1
  <2> QED
    BY <2>1, Zenon DEF NoEntryAt
<1>5. ASSUME NEW t \in TrailerType PROVE Taken(t, <<>>) = t
  <2>1. PICK g : Takes(g, t, <<>>) /\ Taken(t, <<>>) = g[Len(<<>>)]
    BY <1>1, TakenProperty
  <2> QED
    BY <1>1, <2>1, Zenon DEF Takes
<1> QED
  BY <1>1, <1>2, <1>3, <1>4, <1>5

\* The frames that carry a message, with entries that follow its own trailer.
Frames(m, es) ==
  {frame \in {Encode(m)} : es = <<>>}
    \cup {EncodeData(m, (EncodeTrailer(m.trailer) \o EncodeEntries(es)) \o rest) :
            rest \in {r \in LaterRests : m.type \in DataTypes /\ es \in LaterEntries}}

\* Encode() by the type of the message.
LEMMA EncodeIs ==
  ASSUME NEW m
  PROVE  /\ m.type \in DataTypes => Encode(m) = EncodeData(m, EncodeTrailer(m.trailer))
         /\ m.type = "ANNOUNCE" => Encode(m) = EncodeAnnounce(m)
         /\ (m.type \notin DataTypes /\ m.type # "ANNOUNCE") => Encode(m) = EncodeControl(m)
<1>b. PICK p \in BOOLEAN : p <=> m.type \in DataTypes
  OBVIOUS
<1>c. PICK q \in BOOLEAN : q <=> m.type = "ANNOUNCE"
  OBVIOUS
<1>1. ~ (p /\ q)
  BY <1>b, <1>c DEF DataTypes
<1>d. PICK x : x = EncodeData(m, EncodeTrailer(m.trailer))
  OBVIOUS
<1>e. PICK y : y = EncodeAnnounce(m)
  OBVIOUS
<1>f. PICK z : z = EncodeControl(m)
  OBVIOUS
<1>2. Encode(m) = CASE p -> x [] q -> y [] OTHER -> z
  BY <1>b, <1>c, <1>d, <1>e, <1>f DEF Encode
<1>3. (p => Encode(m) = x) /\ (q => Encode(m) = y)
  BY <1>1, <1>2
<1>4. (~ p /\ ~ q) => Encode(m) = z
  BY <1>2
<1> QED
  BY <1>3, <1>4, <1>b, <1>c, <1>d, <1>e, <1>f

\* A whole frame is decoded to its message, a cut one to nothing.
Handled(frame, m, es) ==
  /\ Decode(frame) = SeenAs(m, es)
  /\ \A k \in 0 .. (Len(frame) - 1) : Decode(SubSeq(frame, 1, k)) = Nothing

\* A cut frame is decoded to nothing.
LEMMA CutDecoded ==
  ASSUME NEW buf, NEW type, NEW flags, NEW n, IsFrame(buf, type, flags, n)
  PROVE  \A k \in 0 .. (Len(buf) - 1) : Decode(SubSeq(buf, 1, k)) = Nothing
<1>1. ASSUME NEW k \in 0 .. (Len(buf) - 1) PROVE Decode(SubSeq(buf, 1, k)) = Nothing
  <2>1. ~ DecodeHeader(SubSeq(buf, 1, k))
    BY CutFrame
  <2> QED
    BY <2>1, Zenon DEF Decode
<1> QED
  BY <1>1

\* A sample or a fragment, with what its tail was made of.
LEMMA DataHandled ==
  ASSUME NEW m, m.type \in DataTypes, IsFields(m.type, m.fields), IsSample(m),
         NEW es, IsEntries(es), NEW rest \in Bytes, NoEntryAt(rest, 0),
         NEW tail, tail = (EncodeTrailer(m.trailer) \o EncodeEntries(es)) \o rest,
         NEW frame, frame = EncodeData(m, tail), Len(frame) <= MaxPayload
  PROVE  Handled(frame, m, es)
<1>1. m.trailer \in Trailers
  BY DEF IsSample
<1>2. tail \in Bytes /\ ParseTrailer(tail) = Taken(m.trailer, es)
  <2>a. PICK t \in Trailers : t = m.trailer
    BY <1>1
  <2>1. tail = (EncodeTrailer(t) \o EncodeEntries(es)) \o rest
    BY <2>a
  <2>2. tail \in Bytes /\ ParseTrailer(tail) = Taken(t, es)
    BY <2>1, ParseTrailerProperty
  <2> QED
    BY <2>2, <2>a
<1>3. /\ \E n : IsFrame(frame, m.type, m.flags, n)
      /\ DecodeData(m.type, frame) =
           [type |-> m.type, flags |-> m.flags, fields |-> m.fields,
            payload |-> m.payload, trailer |-> ParseTrailer(tail)]
  BY <1>2, DataDecoded
<1>4. PICK n : IsFrame(frame, m.type, m.flags, n)
  BY <1>3
<1>5. Decode(frame) = DecodeData(m.type, frame)
  BY <1>4, DecodeIs
<1>6. SeenAs(m, es) = [type |-> m.type, flags |-> m.flags, fields |-> m.fields,
                       payload |-> m.payload, trailer |-> Taken(m.trailer, es)]
  BY SampleSeen
<1>7. Decode(frame) = SeenAs(m, es)
  BY <1>2, <1>3, <1>5, <1>6, Zenon
<1> QED
  BY <1>4, <1>7, CutDecoded DEF Handled

\* What handle_bytes() makes of every frame that is sent.
LEMMA FramesHandled ==
  ASSUME NEW m \in Messages, NEW es, NEW frame \in Frames(m, es), Len(frame) <= MaxPayload
  PROVE  Handled(frame, m, es)
<1>1. IsMessage(m)
  BY MessagesAssumption
<1>2. CASE es = <<>> /\ frame = Encode(m)
  <2>1. CASE m.type \in DataTypes
    <3>1. m.type # "ANNOUNCE" /\ IsFields(m.type, m.fields) /\ IsSample(m)
      BY <1>1, <2>1 DEF IsMessage, DataTypes
    <3>a. PICK t : t = EncodeTrailer(m.trailer)
      OBVIOUS
    <3>2. t \in Bytes
      <4>1. m.trailer \in Trailers
        BY <3>1 DEF IsSample
      <4>2. IsEntries(TrailerEntries(m.trailer))
        BY <4>1, TrailerTaken
      <4> QED
        BY <4>2, <3>a, EncodeEntriesBytes DEF EncodeTrailer
    <3>3. (t \o EncodeEntries(<<>>)) \o <<>> = t
      <4>1. t \o <<>> = t
        BY <3>2, ConcatEmptySeq DEF Bytes
      <4> QED
        BY <4>1, NoEntries, Zenon
    <3>4. t = (EncodeTrailer(m.trailer) \o EncodeEntries(<<>>)) \o <<>>
      BY <3>3, <3>a, Zenon
    <3>5. frame = EncodeData(m, t)
      BY <1>2, <2>1, <3>a, EncodeIs
    <3>6. Handled(frame, m, <<>>)
      BY <2>1, <3>1, <3>4, <3>5, NoEntries, DataHandled
    <3> QED
      BY <1>2, <3>6
  <2>2. CASE m.type = "ANNOUNCE"
    <3>1. IsSnapshot(m)
      <4>1. "ANNOUNCE" \notin DOMAIN Puts
        BY FieldTables
      <4> QED
        BY <1>1, <2>2, <4>1 DEF IsMessage
    <3>2. frame = EncodeAnnounce(m)
      BY <1>2, <2>2, EncodeIs
    <3>3. (\E n : IsFrame(frame, "ANNOUNCE", 0, n)) /\ DecodeAnnounce(frame) = m
      BY <3>1, <3>2, AnnounceDecoded
    <3>4. PICK n : IsFrame(frame, "ANNOUNCE", 0, n)
      BY <3>3
    <3>5. Decode(frame) = m
      BY <3>3, <3>4, DecodeIs
    <3>6. SeenAs(m, es) = m
      BY <2>2 DEF SeenAs, DataTypes
    <3> QED
      BY <3>4, <3>5, <3>6, CutDecoded DEF Handled
  <2>3. CASE m.type \notin DataTypes /\ m.type # "ANNOUNCE"
    <3>1. /\ m.type \in DOMAIN Puts /\ IsFields(m.type, m.fields)
          /\ m = [type |-> m.type, fields |-> m.fields]
      BY <1>1, <2>3, Zenon DEF IsMessage
    <3>2. frame = EncodeControl(m)
      BY <1>2, <2>3, EncodeIs
    <3>3. (\E n : IsFrame(frame, m.type, 0, n)) /\ DecodeControl(m.type, frame) = m
      BY <3>1, <3>2, ControlDecoded
    <3>4. PICK n : IsFrame(frame, m.type, 0, n)
      BY <3>3
    <3>5. Decode(frame) = m
      BY <2>3, <3>3, <3>4, DecodeIs
    <3>6. SeenAs(m, es) = m
      BY <2>3 DEF SeenAs
    <3> QED
      BY <3>4, <3>5, <3>6, CutDecoded DEF Handled
  <2> QED
    BY <2>1, <2>2, <2>3
<1>3. CASE /\ m.type \in DataTypes /\ es \in LaterEntries
           /\ \E rest \in LaterRests :
                frame = EncodeData(m, (EncodeTrailer(m.trailer) \o EncodeEntries(es)) \o rest)
  <2>1. m.type # "ANNOUNCE" /\ IsFields(m.type, m.fields) /\ IsSample(m)
    BY <1>1, <1>3 DEF IsMessage, DataTypes
  <2>2. PICK rest \in LaterRests :
          frame = EncodeData(m, (EncodeTrailer(m.trailer) \o EncodeEntries(es)) \o rest)
    BY <1>3
  <2>3. rest \in Bytes /\ NoEntryAt(rest, 0)
    BY LaterAssumption
  <2>4. IsEntries(es)
    <3>1. es \in Seq(Entry) /\ \A i \in DOMAIN es : Len(es[i].value) \in Byte
      BY <1>3, LaterAssumption DEF Entry
    <3>2. DOMAIN es = 1 .. Len(es)
      BY <3>1, LenProperties
    <3> QED
      BY <3>1, <3>2 DEF IsEntries
  <2>a. PICK tail : tail = (EncodeTrailer(m.trailer) \o EncodeEntries(es)) \o rest
    OBVIOUS
  <2>5. frame = EncodeData(m, tail)
    BY <2>2, <2>a
  <2> QED
    BY <1>3, <2>1, <2>3, <2>4, <2>5, <2>a, DataHandled
<1> QED
  BY <1>2, <1>3 DEF Frames

-----------------------------------------------------------------------------
(* The invariant *)

\* What arrives is a frame of the message, or the beginning of one.
Arrives(frame) ==
  /\ frame \in Frames(message, later) /\ Len(frame) <= MaxPayload
  /\ intact => wire = frame
  /\ ~ intact => \E k \in 0 .. (Len(frame) - 1) : wire = SubSeq(frame, 1, k)

\* Between the frames nothing is on its way; then what arrives is of the message,
\* and what was handled is what the decoders make of it.
CodecInv ==
  /\ intact \in BOOLEAN
  /\ at = "idle" => later = <<>> /\ intact = TRUE
  /\ at \in {"sent", "handled"} =>
       message \in Messages /\ \E frame \in Frames(message, later) : Arrives(frame)
  /\ at = "handled" => handled = Decode(wire)

\* Nothing is on its way at the beginning.
LEMMA CodecInvInit ==
  Init => CodecInv
BY DEF Init, CodecInv

\* A frame of this version.
LEMMA SendFrameInv ==
  ASSUME CodecInv, NEW m \in Messages, SendFrame(m)
  PROVE  CodecInv'
<1>1. /\ later = <<>> /\ intact = TRUE /\ later' = later /\ intact' = intact /\ message' = m
  BY DEF SendFrame, CodecInv
<1>2. CASE Fits(Encode(m))
  <2>1. at' = "sent" /\ wire' = Encode(m)
    BY <1>2 DEF SendFrame
  <2>a. PICK frame : frame = Encode(m)
    OBVIOUS
  <2>2. frame \in Frames(m, <<>>) /\ Len(frame) <= MaxPayload
    BY <1>2, <2>a DEF Frames, Fits
  <2>3. frame \in Frames(message', later')
    BY <1>1, <2>2
  <2>4. Arrives(frame)'
    BY <1>1, <2>1, <2>2, <2>3, <2>a DEF Arrives
  <2> QED
    BY <1>1, <2>1, <2>3, <2>4 DEF CodecInv
<1>3. CASE ~ Fits(Encode(m))
  <2>1. at' = "refused"
    BY <1>3 DEF SendFrame
  <2> QED
    BY <1>1, <2>1 DEF CodecInv
<1> QED
  BY <1>2, <1>3

\* A frame of a later version.
LEMMA SendFromLaterVersionInv ==
  ASSUME CodecInv, NEW m \in Messages, NEW es \in LaterEntries, NEW r \in LaterRests,
         SendFromLaterVersion(m, es, r)
  PROVE  CodecInv'
<1>a. PICK frame : frame = EncodeData(m, (EncodeTrailer(m.trailer) \o EncodeEntries(es)) \o r)
  OBVIOUS
<1>1. /\ at = "idle" /\ m.type \in DataTypes /\ Fits(frame)
      /\ at' = "sent" /\ message' = m /\ wire' = frame /\ later' = es /\ intact' = intact
  BY <1>a, Zenon DEF SendFromLaterVersion
<1>2. intact' = TRUE
  BY <1>1 DEF CodecInv
<1>3. frame \in Frames(m, es) /\ Len(frame) <= MaxPayload
  BY <1>1, <1>a DEF Frames, Fits
<1>4. frame \in Frames(message', later')
  BY <1>1, <1>3
<1>5. Arrives(frame)'
  BY <1>1, <1>2, <1>3, <1>4 DEF Arrives
<1> QED
  BY <1>1, <1>2, <1>4, <1>5 DEF CodecInv

\* A datagram that is cut.
LEMMA CutDatagramInv ==
  ASSUME CodecInv, NEW n \in 0 .. (Len(wire) - 1), CutDatagram(n)
  PROVE  CodecInv'
<1>1. /\ at = "sent" /\ intact = TRUE /\ at' = "sent" /\ intact' = FALSE
      /\ wire' = SubSeq(wire, 1, n) /\ message' = message /\ later' = later
  BY DEF CutDatagram, CodecInv
<1>2. PICK frame \in Frames(message, later) : Arrives(frame)
  BY <1>1 DEF CodecInv
<1>3. wire = frame /\ Len(frame) <= MaxPayload
  BY <1>1, <1>2 DEF Arrives
<1>4. frame \in Frames(message', later')
  BY <1>1, <1>2
<1>5. wire' = SubSeq(frame, 1, n) /\ n \in 0 .. (Len(frame) - 1)
  BY <1>1, <1>3
<1>6. Arrives(frame)'
  BY <1>1, <1>3, <1>4, <1>5 DEF Arrives
<1>7. message' \in Messages
  BY <1>1 DEF CodecInv
<1> QED
  BY <1>1, <1>4, <1>6, <1>7 DEF CodecInv

\* handle_bytes() decodes what arrived.
LEMMA HandleBytesInv ==
  ASSUME CodecInv, HandleBytes
  PROVE  CodecInv'
<1>1. /\ at = "sent" /\ at' = "handled" /\ handled' = Decode(wire)
      /\ message' = message /\ later' = later /\ wire' = wire /\ intact' = intact
  BY DEF HandleBytes
<1>2. PICK frame \in Frames(message, later) : Arrives(frame)
  BY <1>1 DEF CodecInv
<1>3. frame \in Frames(message', later') /\ Arrives(frame)'
  BY <1>1, <1>2 DEF Arrives
<1>4. handled' = Decode(wire')
  <2>1. wire' = wire
    BY <1>1
  <2> QED
    BY <1>1, <2>1
<1>5. message' \in Messages /\ intact' \in BOOLEAN
  BY <1>1 DEF CodecInv
<1> QED
  BY <1>1, <1>3, <1>4, <1>5 DEF CodecInv

\* Every step preserves the invariant.
LEMMA CodecInvNext ==
  CodecInv /\ [Next]_vars => CodecInv'
<1> SUFFICES ASSUME CodecInv, [Next]_vars PROVE CodecInv'
  OBVIOUS
<1>1. CASE \E m \in Messages : SendFrame(m)
  BY <1>1, SendFrameInv
<1>2. CASE \E m \in Messages, es \in LaterEntries, r \in LaterRests :
             SendFromLaterVersion(m, es, r)
  BY <1>2, SendFromLaterVersionInv
<1>3. CASE \E n \in 0 .. (Len(wire) - 1) : CutDatagram(n)
  BY <1>3, CutDatagramInv
<1>4. CASE HandleBytes
  BY <1>4, HandleBytesInv
<1>5. CASE NextFrame
  BY <1>5 DEF NextFrame, CodecInv
<1>6. CASE UNCHANGED vars
  <2>1. /\ at' = at /\ message' = message /\ later' = later /\ wire' = wire
        /\ intact' = intact /\ handled' = handled
    BY <1>6 DEF vars
  <2> QED
    BY <2>1 DEF CodecInv, Arrives
<1> QED
  BY <1>1, <1>2, <1>3, <1>4, <1>5, <1>6 DEF Next

\* What was handled is right in every state of the invariant.
LEMMA CodecInvImplies ==
  CodecInv => NothingGarbled /\ WholeFrameAccepted
<1> SUFFICES ASSUME CodecInv, at = "handled"
             PROVE  /\ handled \in {Nothing, Seen(message)}
                    /\ intact => handled = Seen(message)
  BY DEF NothingGarbled, WholeFrameAccepted
<1>1. handled = Decode(wire) /\ message \in Messages /\ intact \in BOOLEAN
  BY DEF CodecInv
<1>2. PICK frame \in Frames(message, later) : Arrives(frame)
  BY DEF CodecInv
<1>3. Handled(frame, message, later)
  <2>1. Len(frame) <= MaxPayload
    BY <1>2 DEF Arrives
  <2> QED
    BY <1>1, <2>1, FramesHandled
<1>4. Seen(message) = SeenAs(message, later)
  BY Zenon DEF Seen, SeenAs
<1>5. CASE intact
  <2>1. wire = frame
    BY <1>2, <1>5 DEF Arrives
  <2>2. handled = Seen(message)
    BY <1>1, <1>3, <1>4, <2>1, Zenon DEF Handled
  <2> QED
    BY <2>2
<1>6. CASE ~ intact
  <2>1. PICK k \in 0 .. (Len(frame) - 1) : wire = SubSeq(frame, 1, k)
    BY <1>2, <1>6 DEF Arrives
  <2>2. handled = Nothing
    BY <1>1, <1>3, <2>1, Zenon DEF Handled
  <2> QED
    BY <1>6, <2>2
<1> QED
  BY <1>5, <1>6

\* What handle_bytes() passes on is what was sent or nothing, for every width of
\* the fields, every payload limit that a u16 can hold and every message.
THEOREM NothingGarbledHolds == Spec => []NothingGarbled
<1>1. CodecInv => NothingGarbled
  BY CodecInvImplies
<1> QED
  BY CodecInvInit, CodecInvNext, <1>1, PTL DEF Spec

\* A frame that arrives whole is decoded, whatever a later version has added.
THEOREM WholeFrameAcceptedHolds == Spec => []WholeFrameAccepted
<1>1. CodecInv => WholeFrameAccepted
  BY CodecInvImplies
<1> QED
  BY CodecInvInit, CodecInvNext, <1>1, PTL DEF Spec
=============================================================================
